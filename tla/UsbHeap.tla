------------------------------- MODULE UsbHeap -------------------------------
(***************************************************************************)
(* The USB stack's own heap, kernel/device/usb-mem.c.                      *)
(*                                                                         *)
(* A table of entries describes the allocations.  The used entries form a  *)
(* list in order of address, FirstAllocation being its head; the entries   *)
(* given back form a second one that ends in the part of the table that    *)
(* was never used.  A pointer to an entry is its index, Null is the null   *)
(* pointer and End is HEAP_END, whose value as an address is W - 1.        *)
(*                                                                         *)
(* Addresses and lengths are those of uint32_t, modulo W.                  *)
(***************************************************************************)
EXTENDS Integers, Sequences, FiniteSets

CONSTANTS
  W,            \* number of addresses, 2^32 on the machine
  HeapBase, HeapSize,   \* where Heap is, and sizeof(Heap)
  NumEntries,   \* the entries of Allocations
  Requests      \* the sizes that are asked for

HeapEnd == HeapBase + HeapSize
Entries == 1 .. NumEntries
Null    == 0
End     == NumEntries + 1
Links   == Entries \cup {Null, End}
Addr    == 0 .. W - 1

(* There are far more addresses than every entry could use (2^24 of 2^32), *)
(* and no request is so large that it wraps.                               *)
ASSUME UsbHeapAssumption ==
  /\ NumEntries \in Nat \ {0} /\ HeapBase \in Nat /\ HeapSize \in Nat /\ W \in Nat
  /\ HeapBase % 8 = 0 /\ HeapEnd < W
  /\ NumEntries * HeapSize < W
  /\ Requests \subseteq 0 .. W - HeapSize - 8

VARIABLES
  entry,             \* Allocations: length, address and next of each
  firstAllocation,   \* FirstAllocation
  firstFree,         \* FirstFreeAllocation
  allocated,         \* the sum of the lengths
  held               \* what callers hold; in copies, as those of no bytes coincide

vars == <<entry, firstAllocation, firstFree, allocated, held>>

(* The state PlatformLoad leaves, once, before the first allocation.       *)
Init ==
  /\ entry = [e \in Entries |-> [length |-> 0, address |-> 0, next |-> Null]]
  /\ firstAllocation = End
  /\ firstFree = Null
  /\ allocated = 0
  /\ held = {}

-----------------------------------------------------------------------------
(* The entries met from this one on, up to HEAP_END.                       *)
ListFrom(first) ==
  LET node[n \in 1 .. NumEntries] ==
        IF n = 1 THEN first
        ELSE IF node[n-1] \in Entries THEN entry[node[n-1]].next ELSE End
      met == {n \in 1 .. NumEntries : node[n] \in Entries}
  IN [n \in 1 .. Cardinality(met) |-> node[n]]

Used == ListFrom(firstAllocation)

RoundUp8(size) == size + ((8 - (size % 8)) % 8)

(* The entry that is taken, and what FirstFreeAllocation is after it.      *)
Fresh == IF firstFree = Null THEN 1 ELSE firstFree

(* Mutant of AfterFresh: forgets the entries given back.                   *)
AfterFresh_IgnoresFreed == IF Fresh + 1 <= NumEntries THEN Fresh + 1 ELSE End

AfterFresh ==
  IF entry[Fresh].next # Null THEN entry[Fresh].next
  ELSE IF Fresh + 1 <= NumEntries THEN Fresh + 1 ELSE End

(* Mutant of RoomBehind: the entry's own length is not subtracted.         *)
RoomBehind_NoLength(i, size) ==
  LET e == entry[Used[i]] IN
  IF i < Len(Used)
  THEN (entry[e.next].address - e.address) % W >= size
  ELSE (HeapEnd - (W - 1) - e.length) % W >= size

(* Is there room behind the i-th used entry?  Behind the last one the code *)
(* computes with Current->Next, HEAP_END, where it means Current->Address. *)
RoomBehind(i, size) ==
  LET e == entry[Used[i]] IN
  IF i < Len(Used)
  THEN (entry[e.next].address - e.address - e.length) % W >= size
  ELSE (HeapEnd - (W - 1) - e.length) % W >= size

Roomy(size) == {i \in DOMAIN Used : RoomBehind(i, size)}

(* Mutant of OutOfMemory: what is allocated already does not count.        *)
OutOfMemory_OneRequest(size) ==
  \/ size > HeapSize
  \/ Fresh = End
  \/ Used # <<>> /\ Roomy(size) = {}

OutOfMemory(size) ==
  \/ (allocated + size) % W > HeapSize
  \/ Fresh = End
  \/ Used # <<>> /\ Roomy(size) = {}

(* Behind the first used entry with room...                                *)
InsertBehind(i, size) ==
  LET e == Used[i]
      address == (entry[e].address + entry[e].length) % W
  IN
  /\ entry' = [entry EXCEPT
       ![Fresh] = [length |-> size, address |-> address, next |-> entry[e].next],
       ![e].next = Fresh]
  /\ UNCHANGED firstAllocation

(* Mutant of InsertFirst: the entry keeps the length of its earlier use.   *)
InsertFirst_KeepsLength(size) ==
  /\ entry' = [entry EXCEPT
       ![Fresh] = [length |-> @.length, address |-> HeapBase, next |-> End]]
  /\ firstAllocation' = Fresh

(* ... or, when nothing is allocated, at the start of the heap.            *)
InsertFirst(size) ==
  /\ entry' = [entry EXCEPT
       ![Fresh] = [length |-> size, address |-> HeapBase, next |-> End]]
  /\ firstAllocation' = Fresh

(* What the caller has then.                                               *)
Block(address, size, copy) == [address |-> address, size |-> size, copy |-> copy]

NewCopy(address, size) ==
  CHOOSE copy \in 1 .. NumEntries :
    /\ Block(address, size, copy) \notin held
    /\ \A c \in 1 .. copy - 1 : Block(address, size, c) \in held

Held(address, size) == held \cup {Block(address, size, NewCopy(address, size))}

MemoryAllocate(asked) ==
  LET size == RoundUp8(asked) IN
  /\ ~OutOfMemory(size)
  /\ \/ Used = <<>> /\ InsertFirst(size)
     \/ \E i \in Roomy(size) :
          (\A j \in Roomy(size) : i <= j) /\ InsertBehind(i, size)
  /\ firstFree' = AfterFresh
  /\ allocated' = allocated + size
  /\ held' = Held(entry'[Fresh].address, asked)

(* The refusal still makes the table's first entry the first free one.     *)
RefuseAllocate(asked) ==
  /\ OutOfMemory(RoundUp8(asked))
  /\ firstFree' = Fresh
  /\ UNCHANGED <<entry, firstAllocation, allocated, held>>

(* MemoryDeallocate: the first used entry with this address.  With         *)
(* allocations of no bytes it need not be the one made for this caller.    *)
(* Of copies the last goes, as it is all the same which.                   *)
UsedAt(address) == {i \in DOMAIN Used : entry[Used[i]].address = address}

MemoryDeallocate(h) ==
  /\ Block(h.address, h.size, h.copy + 1) \notin held
  /\ \E i \in UsedAt(h.address) :
       /\ \A j \in UsedAt(h.address) : i <= j
       /\ LET e == Used[i]
              unlinked == IF i = 1 THEN entry
                          ELSE [entry EXCEPT ![Used[i-1]].next = entry[e].next]
          IN
          /\ entry' = [unlinked EXCEPT ![e].next = firstFree]
          /\ firstAllocation' = IF i = 1 THEN entry[e].next ELSE firstAllocation
          /\ firstFree' = e
          /\ allocated' = allocated - entry[e].length
  /\ held' = held \ {h}

Next ==
  \/ \E asked \in Requests : MemoryAllocate(asked) \/ RefuseAllocate(asked)
  \/ \E h \in held : MemoryDeallocate(h)

Spec == Init /\ [][Next]_vars

-----------------------------------------------------------------------------
UsedEntries == {Used[i] : i \in DOMAIN Used}
FreeEntries == LET f == ListFrom(firstFree) IN {f[i] : i \in DOMAIN f}

(* Types of the table and its list heads.                                  *)
TypeOK ==
  /\ entry \in [Entries -> [length : 0 .. HeapSize, address : Addr, next : Links]]
  /\ firstAllocation \in Links \ {Null} /\ firstFree \in Links
  /\ allocated \in 0 .. HeapSize
  /\ held \subseteq [address : Addr, size : Requests, copy : 1 .. NumEntries]

(* Callers never share a byte: their extents are pairwise disjoint, and    *)
(* each lies in an entry that is in use, whichever entry a free released.  *)
CallersDisjoint ==
  /\ \A h, k \in held : h # k =>
       h.address + h.size <= k.address \/ k.address + k.size <= h.address
  /\ \A h \in held : \E e \in UsedEntries :
       /\ entry[e].address <= h.address
       /\ h.address + h.size <= entry[e].address + entry[e].length

(* No entry of the table is lost or on both lists: those in use, those     *)
(* given back and those never touched together are the table.              *)
EntriesPartition ==
  LET untouched == IF firstFree = Null THEN Entries
                   ELSE {e \in Entries : entry[e].next = Null /\ e \notin UsedEntries}
  IN
  /\ UsedEntries \cap (FreeEntries \cup untouched) = {}
  /\ UsedEntries \cup FreeEntries \cup untouched = Entries

(* The byte count is that of the entries in use, and there are as many as  *)
(* callers hold: when all is given back, all is there again.               *)
CountsAgree ==
  /\ Cardinality(UsedEntries) = Cardinality(held)
  /\ LET sum[i \in 0 .. Len(Used)] ==
           IF i = 0 THEN 0 ELSE sum[i-1] + entry[Used[i]].length
     IN allocated = sum[Len(Used)]

(* The table and its two lists say of each entry what it is used for, and  *)
(* the counts agree with them.                                             *)
TableSound == TypeOK /\ EntriesPartition /\ CountsAgree
=============================================================================
