------------------------------ MODULE MCStorage ------------------------------
(***************************************************************************)
(* Two cards, and five volumes with sectors of 16 bytes, 4 entries of a    *)
(* table (FAT32) and 5 entries of a directory.                             *)
(***************************************************************************)
EXTENDS Fat, FiniteSets, TLC

MCCards == {[kind |-> "SC", CMD_SUPPORT |-> 2, BUS_WIDTH |-> 4],
            [kind |-> "HC", CMD_SUPPORT |-> 0, BUS_WIDTH |-> 5]}
MCTransfers == {<<1, 1>>, <<1, 2>>}
MCErasures  == {<<1, 1>>}

f == <<"f">>
g == <<"g">>
d == <<"d">>
s == <<"s">>
long == <<"f", "tail">>
MCPaths == {<<f>>, <<d, f>>, <<d>>, <<g>>, <<s>>}

Long(slot, part, ends)   == [kind |-> "long", slot |-> slot, part |-> part, ends |-> ends,
                             attrib |-> "LONG_NAME", cluster |-> 0]
Short(attrib, cluster)   == [kind |-> "short", slot |-> Far, part |-> "short", ends |-> TRUE,
                             attrib |-> attrib, cluster |-> cluster]
ShortA(attrib, cluster)  == [Short(attrib, cluster) EXCEPT !.slot = 1]
Deleted                  == Long(Far, "deleted", FALSE)
End                      == [kind |-> "end", slot |-> Far, part |-> "", ends |-> TRUE,
                             attrib |-> "EMPTY", cluster |-> 0]

Directory(entries) == [kind |-> "directory",
                       entries |-> [i \in 1 .. Entries |-> IF i <= Len(entries) THEN entries[i] ELSE End]]
Data(zero) == [kind |-> "data", zero |-> zero]

(* A table of FAT32 from its chains: four entries, eight halves of words.  *)
Table(a, b, c, e) ==
  LET of == <<a, b, c, e>>
  IN [kind |-> "table", words |-> [w \in 0 .. 7 |-> IF w % 2 = 0 THEN of[w \div 2 + 1] % 65536
                                                    ELSE of[w \div 2 + 1] \div 65536]]
LastCluster  == 268435455
OtherLastMark == 268435448

Boot(reserved, hidden, size, cluster) ==
  [kind |-> "boot", bytesPerSector |-> 16, sectorPerCluster |-> cluster, reserved |-> reserved,
   hidden |-> hidden, tables |-> 1, fatSize |-> size, fat16_table_size |-> 0,
   root_entry_count |-> 0, rootCluster |-> 2]

F(path, cluster, content) ==
  [path |-> path, long |-> TRUE, apart |-> FALSE, cluster |-> cluster, content |-> content]
ShortNamed(file) == [file EXCEPT !.long = FALSE]
InTwoSectors(file) == [file EXCEPT !.apart = TRUE]

(* A partition behind an MBR.  The root has two clusters, d is in the      *)
(* second; the chain of /d/f has three, in two sectors of the table; the   *)
(* file /g is empty, and /s has no long name.                              *)
Parted ==
  [sectors |-> 0 :> [kind |-> "mbr", firstSector |-> 1] @@ 1 :> Boot(1, 1, 2, 1)
     @@ 2 :> Table(0, LastCluster, 4, 5) @@ 3 :> Table(LastCluster, 6, LastCluster, LastCluster)
     @@ 4 :> Directory(<<Long(1, "g", TRUE), Short("ARCHIVE", 0), Short("ARCHIVE", 8), Short("ARCHIVE", 8)>>)
     @@ 6 :> Directory(<<Long(1, "d", TRUE), Short("DIRECTORY", 7)>>)
     @@ 9 :> Directory(<<Short("DIRECTORY", 7), Short("DIRECTORY", 0), Long(1, "f", TRUE), Short("ARCHIVE", 3)>>)
     @@ [b \in {5, 7} |-> Data(FALSE)] @@ [b \in {8} \cup (10 .. MaxBlock) |-> Data(TRUE)],
   files |-> {F(<<d, f>>, 3, <<5, 7, 8>>), F(<<g>>, 0, << >>), ShortNamed(F(<<s>>, 8, <<10>>))},
   directories |-> {<<d>>}]

(* Clusters of two sectors: /f has one and a half of them, and a zero byte *)
(* at the end of the first; in the middle of /g is one, too.               *)
Wide ==
  [sectors |-> 0 :> Boot(1, 0, 2, 2)
     @@ 1 :> Table(0, 0, LastCluster, 5) @@ 2 :> Table(LastCluster, LastCluster, 0, 0)
     @@ 3 :> Directory(<<Long(1, "s", TRUE), Short("ARCHIVE", 0)>>)
     @@ 4 :> Directory(<<Long(1, "g", TRUE), Short("ARCHIVE", 4), Long(1, "f", TRUE), Short("ARCHIVE", 3)>>)
     @@ [b \in {5, 8} |-> Data(FALSE)] @@ [b \in {6, 7} \cup (9 .. MaxBlock) |-> Data(TRUE)],
   files |-> {F(<<f>>, 3, <<5, 6, 9>>), F(<<g>>, 4, <<7, 8>>), F(<<s>>, 0, << >>)},
   directories |-> {}]

(* No MBR, clusters of two sectors.  The root begins with a deleted file   *)
(* and one whose short name, A, reads like a sequence number; the entries  *)
(* of a longer name lie in two sectors, and what the second holds of it is *)
(* the name of a file in d, where another name begins so, too.  The chain  *)
(* of d ends with a mark that the program does not know.                   *)
Wild ==
  [sectors |-> 0 :> Boot(1, 0, 2, 2)
     @@ 1 :> Table(0, 0, LastCluster, OtherLastMark) @@ 2 :> Table(LastCluster, LastCluster, LastCluster, 0)
     @@ 3 :> Directory(<<Deleted, Deleted, ShortA("ARCHIVE", 5), Short("ARCHIVE", 5), Long(2, "tail", TRUE)>>)
     @@ 4 :> Directory(<<Long(1, "f", FALSE), Short("ARCHIVE", 4), Long(1, "d", TRUE), Short("DIRECTORY", 3)>>)
     @@ 5 :> Directory(<<Long(2, "head", TRUE), Long(1, "f", FALSE), Short("ARCHIVE", 6), Short("ARCHIVE", 5)>>)
     @@ 6 :> Directory(<<Long(1, "f", TRUE), Short("ARCHIVE", 5)>>)
     @@ [b \in 7 .. MaxBlock |-> Data(TRUE)],
   files |-> {InTwoSectors(F(<<long>>, 4, <<7>>)), F(<<d, <<"f", "head">>>>, 6, <<11>>), F(<<d, f>>, 5, <<9>>)},
   directories |-> {<<d>>}]

(* FAT16: the root is read as cluster 2, and the table two entries at once.*)
Small ==
  [sectors |-> 0 :> [Boot(1, 0, 0, 1) EXCEPT !.fat16_table_size = 1, !.root_entry_count = 10]
     @@ 1 :> [kind |-> "table", words |-> [w \in 0 .. 7 |-> IF w < 3 THEN 0 ELSE 65535]]
     @@ 2 :> Directory(<<Long(1, "f", TRUE), Short("ARCHIVE", 3)>>)
     @@ [b \in 3 .. MaxBlock |-> Data(TRUE)],
   files |-> {F(<<f>>, 3, <<5>>)}, directories |-> {}]

Empty == [sectors |-> [b \in Blocks |-> Data(TRUE)], files |-> {}, directories |-> {}]

MCImages == {Parted, Wide, Wild, Small, Empty}

(* The card's own transfers need only one volume, and a card taken for one *)
(* of version 1, which gives other blocks than asked for, has no volume.   *)
(* Of the new contents of the two blocks and the erased one, a card is     *)
(* asked for two at most.                                                  *)
MCInit == FatInit /\ (job.phase = "raw" => image = Empty)
MCSpec == MCInit /\ [][Next]_vars

MaxMeanings == 2
Followed ==
  /\ job.phase = "boot" => sd.type # "TYPE_1"
  /\ Cardinality(UNION {meant[b] : b \in Blocks} \ Blocks) <= MaxMeanings
=============================================================================
