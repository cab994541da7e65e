-------------------------------- MODULE Fat ---------------------------------
(***************************************************************************)
(* The FAT reader, kernel/fs/fat.c, as a program over the SD card driver:  *)
(* initialize_fat, and read_file, which looks a path up and prints the     *)
(* file.  Every sector it uses it asks of sdcard_read, which may fail.     *)
(*                                                                         *)
(* A sector is what it is used for: a boot sector, a table, entries of a   *)
(* directory, or data.  A path is a sequence of names; a name is cut into  *)
(* the parts that entries of a long name hold, 13 characters each.  The    *)
(* buffer of a long name has a slot for each part; ends tells a part that  *)
(* does not fill its slot.  The byte an entry keeps its sequence number in *)
(* is the first character of a short name: slot says what either makes of  *)
(* it, 1 for a sequence number 1 and for the letter A, Far for a slot no   *)
(* name reaches, as the mark of a deleted entry gives.                     *)
(***************************************************************************)
EXTENDS Emmc

CONSTANTS
  Images,       \* what may be on the card: sectors, files and directories
  Paths,        \* what is looked up
  Entries       \* the entries of a directory's sector (16)

VARIABLES
  image,        \* what is on the card
  partition,    \* current_sd_partition and selected_fat_type
  job,          \* the call in progress: initialize_fat or read_file
  frames        \* its calls of search_directory_contents, the innermost last

fatVars == <<image, partition, job, frames>>
vars    == <<emmcVars, fatVars>>

Far == 100

(* Marks of a chain's end that the program knows: 0x0fffffff, 0x0ffffff7.  *)
EndMarks == {268435455, 268435447, 0}

NoPartition == [type |-> "NULL", unusedSectors |-> 0, reservedSectorCount |-> 0, fatSize |-> 0,
                sectorPerCluster |-> 1, bytesPerSector |-> 16, firstDataSector |-> 0, rootCluster |-> 0]

NoJob == [phase |-> "off", path |-> << >>, wait |-> FALSE, found |-> 0, printed |-> << >>,
          failed |-> FALSE]

Frame(cluster, level, tail) ==
  [at |-> "enter", cluster |-> cluster, held |-> 0, sector |-> 0, index |-> 1, buffer |-> 0,
   level |-> level, tail |-> tail]

FatInit ==
  /\ EmmcInit
  /\ image \in Images
  /\ partition = NoPartition
  /\ job \in {NoJob, [NoJob EXCEPT !.phase = "raw"]}
  /\ frames = << >>

-----------------------------------------------------------------------------
Top == frames[Len(frames)]
WithTop(f) == [frames EXCEPT ![Len(frames)] = f]

getFirstSectorOfCluster(c) == (c - 2) * partition.sectorPerCluster + partition.firstDataSector

FatOffset(c) == c * (IF partition.type = "FAT16" THEN 2 ELSE 4)
FatSector(c) ==
  partition.unusedSectors + partition.reservedSectorCount + FatOffset(c) \div partition.bytesPerSector

(* Four bytes of the table, whatever its type, are the next cluster.       *)
NextCluster(f) ==
  LET words == image.sectors[f.held].words
      w     == (FatOffset(f.cluster) % partition.bytesPerSector) \div 2
  IN words[w] + 65536 * (words[w + 1] % 4096)

(* The sector the job wants next, for a phase and a frame that want one.   *)
Wanted ==
  CASE job.phase = "boot" -> 0
    [] job.phase = "mbr"  -> partition.unusedSectors
    [] OTHER -> IF Top.at = "table" THEN FatSector(Top.cluster)
                ELSE getFirstSectorOfCluster(Top.cluster) + Top.sector
Wants == job.phase \in {"boot", "mbr"} \/ (job.phase \in {"search", "print"} /\ Top.at \in {"table", "data"})

Ask ==
  /\ Wants /\ ~job.wait
  /\ sdcard_read(Wanted, 1)
  /\ job' = [job EXCEPT !.wait = TRUE]
  /\ UNCHANGED <<image, partition, frames>>

Arrived == job.wait /\ call.at = "idle"
Good    == call.result = "OK"
Got     == image.sectors[call.buffer[1]]
Read(kind) == IF Good THEN Got.kind = kind ELSE FALSE

-----------------------------------------------------------------------------
(* initialize_fat.                                                         *)
StartCard ==
  /\ job.phase \in {"off", "unusable"}
  /\ sdInitCard
  /\ job' = [job EXCEPT !.phase = "card", !.wait = TRUE]
  /\ UNCHANGED <<image, partition, frames>>

CardStarted ==
  /\ job.phase = "card" /\ Arrived
  /\ job' = [job EXCEPT !.phase = IF Good THEN "boot" ELSE "unusable", !.wait = FALSE]
  /\ UNCHANGED <<emmcVars, image, partition, frames>>

Mounted(b) ==
  LET base == [partition EXCEPT !.bytesPerSector = b.bytesPerSector,
                 !.sectorPerCluster = b.sectorPerCluster, !.reservedSectorCount = b.reserved,
                 !.fatSize = b.fatSize]
  IN IF b.fat16_table_size = 0 /\ b.root_entry_count = 0
     THEN [base EXCEPT !.type = "FAT32", !.rootCluster = b.rootCluster,
             !.firstDataSector = b.reserved + b.hidden + b.fatSize * b.tables]
     ELSE [base EXCEPT !.type = "FAT16", !.rootCluster = 2, !.fatSize = b.fat16_table_size,
             !.firstDataSector = partition.unusedSectors + b.fat16_table_size * b.tables + 1]

BootSectorRead ==
  /\ job.phase \in {"boot", "mbr"} /\ Arrived
  /\ \/ /\ Read("boot")
        /\ partition' = Mounted(Got)
        /\ job' = [job EXCEPT !.phase = "mounted", !.wait = FALSE]
     \/ /\ Read("mbr") /\ job.phase = "boot"
        /\ partition' = [partition EXCEPT !.unusedSectors = Got.firstSector]
        /\ job' = [job EXCEPT !.phase = "mbr", !.wait = FALSE]
     \/ /\ ~Read("boot") /\ (Read("mbr") => job.phase = "mbr")
        /\ job' = [job EXCEPT !.phase = "unusable", !.wait = FALSE]
        /\ UNCHANGED partition
  /\ UNCHANGED <<emmcVars, image, frames>>

-----------------------------------------------------------------------------
(* read_file up to its search.                                             *)
read_file(path) ==
  /\ job.phase \in {"mounted", "done"}
  /\ job' = [NoJob EXCEPT !.phase = "search", !.path = path]
  /\ frames' = <<Frame(partition.rootCluster, 1, FALSE)>>
  /\ UNCHANGED <<emmcVars, image, partition>>

(* A chain ends, for the loops of search_directory_contents and read_file: *)
(* a search that found nothing goes on where it was entered.               *)
NextSector(f) ==
  IF f.sector + 1 < partition.sectorPerCluster
  THEN [f EXCEPT !.at = "data", !.sector = @ + 1]
  ELSE [f EXCEPT !.at = "enter", !.cluster = NextCluster(f), !.sector = 0]

LeaveFrame(failed) ==
  IF Len(frames) = 1
  THEN /\ job' = [job EXCEPT !.phase = "done", !.wait = FALSE, !.failed = @ \/ failed]
       /\ frames' = << >>
  ELSE LET caller == frames[Len(frames) - 1]
       IN /\ job' = [job EXCEPT !.wait = FALSE, !.failed = @ \/ failed]
          /\ frames' = [SubSeq(frames, 1, Len(frames) - 1) EXCEPT
                          ![Len(frames) - 1] = IF Top.tail THEN NextSector(caller) ELSE caller]

(* Mutant of EnterCluster: any sector of the table does for any cluster.   *)
EnterCluster_AnyTable ==
  /\ job.phase \in {"search", "print"} /\ Top.at = "enter"
  /\ IF Top.cluster \in EndMarks THEN LeaveFrame(FALSE)
     ELSE /\ frames' = WithTop([Top EXCEPT !.at = IF Top.held # 0 THEN "data" ELSE "table"])
          /\ UNCHANGED job
  /\ UNCHANGED <<emmcVars, image, partition>>

EnterCluster ==
  /\ job.phase \in {"search", "print"} /\ Top.at = "enter"
  /\ IF Top.cluster \in EndMarks THEN LeaveFrame(FALSE)
     ELSE /\ frames' = WithTop([Top EXCEPT !.at = IF Top.held = FatSector(Top.cluster)
                                                  THEN "data" ELSE "table"])
          /\ UNCHANGED job
  /\ UNCHANGED <<emmcVars, image, partition>>

TableSectorRead ==
  /\ job.phase \in {"search", "print"} /\ Top.at = "table" /\ Arrived
  /\ IF Good THEN /\ frames' = WithTop([Top EXCEPT !.at = "data", !.held = call.buffer[1]])
                  /\ job' = [job EXCEPT !.wait = FALSE]
     ELSE LeaveFrame(TRUE)
  /\ UNCHANGED <<emmcVars, image, partition>>

(* search_entries_in_sector reads its sector; past the end of the path     *)
(* there is no name to look for.                                           *)
DirectorySectorRead ==
  /\ job.phase = "search" /\ Top.at = "data" /\ Arrived
  /\ frames' = WithTop(IF Good /\ Top.level <= Len(job.path)
                       THEN [Top EXCEPT !.at = "scan", !.index = 1, !.buffer = call.buffer[1]]
                       ELSE NextSector(Top))
  /\ job' = [job EXCEPT !.wait = FALSE, !.failed = @ \/ ~Good]
  /\ UNCHANGED <<emmcVars, image, partition>>

-----------------------------------------------------------------------------
(* search_entries_in_sector: the entries of a long name, from i to the one *)
(* with sequence number 1, are put together in a buffer of slots.          *)
Entry(i) == image.sectors[Top.buffer].entries[i]

(* The part of a name in an entry, and whether it fills a slot.            *)
ReadLFNEntry(i) == [text |-> Entry(i).part, full |-> ~Entry(i).ends]

is_same_file(name, wanted) == name = wanted

NameEnd(i) == {j \in i .. Entries : Entry(j).slot = 1 /\ \A k \in i .. j - 1 : Entry(k).slot # 1}

(* Mutant of LongName: only the entry with sequence number 1 counts.       *)
LongName_FirstPart(i, j) == <<ReadLFNEntry(j).text>>

LongName(i, j) ==
  LET writers(s) == {k \in i .. j : Entry(k).slot = s}
      Last(S)    == CHOOSE k \in S : \A l \in S : l <= k
      full(s)    == \A r \in 1 .. s : writers(r) # {} /\ (r < s => ReadLFNEntry(Last(writers(r))).full)
      parts      == CHOOSE n \in 1 .. Entries : full(n) /\ ~full(n + 1)
  IN [s \in 1 .. parts |-> ReadLFNEntry(Last(writers(s))).text]

Found(cluster) ==
  /\ job' = [job EXCEPT !.phase = "print", !.found = cluster]
  /\ frames' = <<Frame(cluster, 0, FALSE)>>

SearchOn(f, cluster, level, tail) ==
  /\ frames' = Append(WithTop(f), Frame(cluster, level, tail))
  /\ UNCHANGED job

Goes(f) == frames' = WithTop(f) /\ UNCHANGED job

(* One round of the loop over the entries.  A directory whose name is not  *)
(* the one looked for is searched for that same name all the same.         *)
ScanEntry ==
  /\ job.phase = "search" /\ Top.at = "scan"
  /\ LET i    == Top.index
         ends == NameEnd(i)
     IN \/ /\ i > Entries
           /\ Goes(NextSector(Top))
        \/ /\ i <= Entries /\ Entry(i).kind = "end"
           /\ Goes(NextSector(Top))
        \/ /\ i <= Entries /\ Entry(i).kind = "short"
           /\ Goes([Top EXCEPT !.index = i + 1])
        \/ /\ i <= Entries /\ Entry(i).kind = "long"
           /\ ends = {} \/ Entries \in ends
           /\ Goes(NextSector(Top))
        \/ /\ i <= Entries /\ Entry(i).kind = "long"
           /\ \E j \in ends \ {Entries} :
                LET name == LongName(i, j)
                    file == Entry(j + 1)
                    next == [Top EXCEPT !.index = j + 2]
                    same == is_same_file(name, job.path[Top.level])
                IN \/ /\ same /\ file.attrib = "DIRECTORY"
                      /\ SearchOn(next, file.cluster, Top.level + 1, TRUE)
                   \/ /\ same /\ file.attrib # "DIRECTORY" /\ file.cluster # 0
                      /\ Found(file.cluster)
                   \/ /\ same /\ file.attrib # "DIRECTORY" /\ file.cluster = 0
                      /\ Goes(NextSector(Top))
                   \/ /\ ~same /\ file.attrib = "DIRECTORY"
                      /\ SearchOn(next, file.cluster, Top.level, FALSE)
                   \/ /\ ~same /\ file.attrib # "DIRECTORY"
                      /\ Goes(next)
  /\ UNCHANGED <<emmcVars, image, partition>>

(* print_file_cluster_contents: a sector that cannot be read, or one with  *)
(* a zero byte, ends the cluster, not the file.                            *)
DataSectorRead ==
  /\ job.phase = "print" /\ Top.at = "data" /\ Arrived
  /\ LET leave == [Top EXCEPT !.sector = partition.sectorPerCluster - 1]
     IN frames' = WithTop(NextSector(IF Good THEN (IF Got.zero THEN leave ELSE Top) ELSE leave))
  /\ job' = [job EXCEPT !.wait = FALSE, !.failed = @ \/ ~Good,
                        !.printed = IF Good THEN Append(@, call.buffer[1]) ELSE @]
  /\ UNCHANGED <<emmcVars, image, partition>>

FatStep ==
  \/ StartCard \/ CardStarted \/ Ask \/ BootSectorRead \/ EnterCluster \/ TableSectorRead
  \/ DirectorySectorRead \/ ScanEntry \/ DataSectorRead \/ \E path \in Paths : read_file(path)

Next ==
  \/ Hardware /\ UNCHANGED fatVars
  \/ Driver /\ UNCHANGED fatVars
  \/ job.phase = "raw" /\ Requests /\ UNCHANGED fatVars
  \/ FatStep

Spec == FatInit /\ [][Next]_vars

-----------------------------------------------------------------------------
TypeOK ==
  /\ image \in Images /\ partition.type \in {"NULL", "FAT16", "FAT32"}
  /\ job.path \in Paths \cup {<< >>} /\ job.found \in 0 .. 268435455
  /\ \A k \in DOMAIN frames : /\ frames[k].at \in {"enter", "table", "data", "scan"}
                              /\ frames[k].sector \in 0 .. partition.sectorPerCluster

(* What read_file finds, whatever reads fail on the way, is a file that    *)
(* is there, with a name of the path, or with a name that begins so and    *)
(* whose entries lie in two sectors: the program puts together only what   *)
(* one sector holds.  What it keeps while it looks is of its type.         *)
Name(path) == path[Len(path)]
Prefix(p, q) == Len(p) <= Len(q) /\ SubSeq(q, 1, Len(p)) = p
FoundIsNamed ==
  /\ TypeOK
  /\ job.found # 0 /\ partition.type = "FAT32" =>
       \E f \in image.files : /\ f.cluster = job.found
                              /\ \E k \in DOMAIN job.path :
                                   \/ Name(f.path) = job.path[k]
                                   \/ f.apart /\ Prefix(job.path[k], Name(f.path))

(* What the search relies on: FAT32; no deleted entries of long names; no  *)
(* name used twice, since a search goes through every directory for every  *)
(* name; the entries of a file in one sector; and the ends of chains that  *)
(* the program knows, which 0x0ffffff8 .. 0x0ffffffe are not.              *)
Tame ==
  /\ partition.type = "FAT32"
  /\ \A p, q \in {f.path : f \in image.files} \cup image.directories : Name(p) = Name(q) => p = q
  /\ \A f \in image.files : ~f.apart
  /\ \A b \in Blocks :
       LET s == image.sectors[b]
       IN /\ s.kind = "directory" =>
               \A i \in 1 .. Entries : s.entries[i].kind = "long" => s.entries[i].slot # Far
          /\ s.kind = "table" =>
               \A w \in DOMAIN s.words : w % 2 = 0 =>
                 LET next == s.words[w] + 65536 * (s.words[w + 1] % 4096)
                 IN next \in EndMarks \/ next < 268435447

(* A zero byte ends what is printed of its cluster, and without one the    *)
(* rest of the cluster is printed: a file comes out exact if, of its       *)
(* sectors that are not the last of a cluster, the one in which it ends    *)
(* has a zero byte and no other has.                                       *)
OfText(f) ==
  \A i \in DOMAIN f.content :
    LET full == i % partition.sectorPerCluster = 0
        zero == image.sectors[f.content[i]].zero
    IN full \/ (zero <=> i = Len(f.content))

(* When no read failed on a tame volume, a file with a long name that is   *)
(* there and not empty is found, and of a text the sectors printed are     *)
(* those of the file, in order.  A file that has only a short name is      *)
(* never found: the search compares the names of long-name entries alone.  *)
(* Directories carry ATTR_DIRECTORY and no other attribute: one that is    *)
(* hidden or read-only, too, is taken for a file, and no image has any.    *)
FoundAndPrinted ==
  job.phase = "done" /\ ~job.failed /\ Tame =>
    \A f \in image.files : f.path = job.path /\ f.cluster # 0 =>
      /\ job.found = IF f.long THEN f.cluster ELSE 0
      /\ f.long /\ OfText(f) => job.printed = f.content
=============================================================================
