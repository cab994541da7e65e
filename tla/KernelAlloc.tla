----------------------------- MODULE KernelAlloc -----------------------------
(***************************************************************************)
(* The kernel's block allocator, kernel/mem/kernel_alloc.c.                *)
(*                                                                         *)
(* Memory is carved upwards from s_pNextBlock and is never given back to   *)
(* the carving pointer: a freed block goes on the free list of the bucket  *)
(* its rounded size belongs to, and only a request of the same bucket can  *)
(* take it again.  Every block is preceded by a header that holds the      *)
(* rounded size and the free-list link; the free lists live inside those   *)
(* headers, and that is how they are modelled: freeHead and header[_].next *)
(* are the pointers of the C code, 0 being the null pointer.               *)
(*                                                                         *)
(* All arithmetic on addresses and sizes is that of uint32_t, modulo W.    *)
(***************************************************************************)
EXTENDS Integers, Sequences, FiniteSets

CONSTANTS
  W,               \* number of addresses, 2^32 on the machine
  Base, Size,      \* the arguments of mem_alloc_init
  PageReserve,     \* PAGE_RESERVE, kept back at the top of the region
  InitialReserve,  \* s_nBlockReserve as it is initialised
  HdrSize,         \* sizeof(struct alloc_header)
  BlockAlign,      \* BLOCK_ALIGN
  BucketSizes,     \* the non-zero sizes of s_BlockBucket, in order
  Requests         \* the sizes callers ask for

Addr    == 0 .. W - 1
Buckets == 1 .. Len(BucketSizes)

ASSUME SizesAssumption ==
  /\ W \in Nat /\ HdrSize \in Nat /\ BlockAlign \in Nat \ {0}
  /\ Requests \subseteq Addr

ASSUME BucketAssumption ==
  /\ BucketSizes \in Seq(Addr)
  /\ \A j, k \in Buckets : j < k => BucketSizes[j] < BucketSizes[k]

ASSUME RegionAssumption ==
  /\ Base \in Nat \ {0} /\ Size \in Nat
  /\ PageReserve \in Nat /\ InitialReserve \in Nat
  /\ PageReserve + InitialReserve <= Size
  /\ Base + Size < W

VARIABLES
  nextBlock,       \* s_pNextBlock
  blockReserve,    \* s_nBlockReserve
  freeHead,        \* free_list of each bucket
  header,          \* the headers in memory: address -> size and next
  live             \* the blocks callers hold: header address -> size asked

vars == <<nextBlock, blockReserve, freeHead, header, live>>

(* s_pBlockLimit as mem_alloc_init computes it.                            *)
BlockLimit == Base + (Size - PageReserve)

Carved == DOMAIN header
Held   == DOMAIN live
Freed  == Carved \ Held

AlignDown(x) == x - (x % BlockAlign)

(* What carving a block of this size adds to s_pNextBlock.                 *)
Footprint(size) == AlignDown((HdrSize + size + BlockAlign - 1) % W)

(* The bucket mem_allocate settles on, or 0 when the loop falls off the    *)
(* table's zero entry.                                                     *)
BucketFor(size) ==
  IF \E k \in Buckets : size <= BucketSizes[k]
  THEN CHOOSE k \in Buckets : /\ size <= BucketSizes[k]
                              /\ \A j \in Buckets : j < k => size > BucketSizes[j]
  ELSE 0

Rounded(size) == IF BucketFor(size) = 0 THEN size ELSE BucketSizes[BucketFor(size)]

(* The same header is found again from the caller's pointer: the magic     *)
(* word is written once, when the block is carved, and stays.              *)
HasMagic(b) == b \in Carved

FreeHeadFor(size) == IF BucketFor(size) = 0 THEN 0 ELSE freeHead[BucketFor(size)]

Init ==
  /\ nextBlock = Base
  /\ blockReserve = InitialReserve
  /\ freeHead = [k \in Buckets |-> 0]
  /\ header = [b \in {} |-> [size |-> 0, next |-> 0]]
  /\ live = [b \in {} |-> 0]

HandOut(b, size) ==
  live' = [x \in Held \cup {b} |-> IF x = b THEN size ELSE live[x]]

-----------------------------------------------------------------------------
(* Mutant of Recycle: the list head stays on the block handed out.         *)
Recycle_KeepsHead(size) ==
  LET b == FreeHeadFor(size) IN
  /\ b # 0 /\ HasMagic(b)
  /\ header' = [header EXCEPT ![b].next = 0]
  /\ HandOut(b, size)
  /\ UNCHANGED <<freeHead, nextBlock, blockReserve>>

(* mem_allocate, first branch: the head of the bucket's free list.         *)
Recycle(size) ==
  LET b == FreeHeadFor(size) IN
  /\ b # 0 /\ HasMagic(b)
  /\ freeHead' = [freeHead EXCEPT ![BucketFor(size)] = header[b].next]
  /\ header' = [header EXCEPT ![b].next = 0]
  /\ HandOut(b, size)
  /\ UNCHANGED <<nextBlock, blockReserve>>

NothingToRecycle(size) ==
  FreeHeadFor(size) = 0 \/ ~HasMagic(FreeHeadFor(size))

(* Mutant of AfterCarving: moves on by the size asked, not the rounded one. *)
AfterCarving_Unrounded(size) == (nextBlock + Footprint(size)) % W

AfterCarving(size) == (nextBlock + Footprint(Rounded(size))) % W

(* Mutant of CannotCarve: the reserve can be carved from the start.        *)
CannotCarve_NoReserve(size) ==
  AfterCarving(size) <= nextBlock \/ AfterCarving(size) > BlockLimit

CannotCarve(size) ==
  \/ AfterCarving(size) <= nextBlock
  \/ AfterCarving(size) > BlockLimit - blockReserve

(* mem_allocate, second branch: carve a new block and write its header.    *)
Carve(size) ==
  /\ NothingToRecycle(size)
  /\ ~CannotCarve(size)
  /\ nextBlock' = AfterCarving(size)
  /\ header' = [x \in Carved \cup {nextBlock} |->
                  IF x = nextBlock THEN [size |-> Rounded(size), next |-> 0]
                                   ELSE header[x]]
  /\ HandOut(nextBlock, size)
  /\ UNCHANGED <<blockReserve, freeHead>>

(* mem_allocate, no room: the reserve is released and 0 is returned.       *)
Refuse(size) ==
  /\ NothingToRecycle(size)
  /\ CannotCarve(size)
  /\ blockReserve' = 0
  /\ UNCHANGED <<nextBlock, freeHead, header, live>>

(* mem_deallocate of a pointer the caller got from mem_allocate.  A block  *)
(* whose size is that of no bucket is on no list afterwards.               *)
BucketOfSize(size) ==
  IF \E k \in Buckets : BucketSizes[k] = size
  THEN CHOOSE k \in Buckets : BucketSizes[k] = size
  ELSE 0

(* Mutant of Release: the block becomes the list, the rest is dropped.     *)
Release_DropsRest(b) ==
  LET k == BucketOfSize(header[b].size) IN
  /\ freeHead' = IF k = 0 THEN freeHead ELSE [freeHead EXCEPT ![k] = b]
  /\ UNCHANGED header

Release(b) ==
  LET k == BucketOfSize(header[b].size) IN
  IF k = 0
  THEN UNCHANGED <<header, freeHead>>
  ELSE /\ header' = [header EXCEPT ![b].next = freeHead[k]]
       /\ freeHead' = [freeHead EXCEPT ![k] = b]

Deallocate(b) ==
  /\ HasMagic(b)
  /\ Release(b)
  /\ live' = [x \in Held \ {b} |-> live[x]]
  /\ UNCHANGED <<nextBlock, blockReserve>>

Next ==
  \/ \E size \in Requests : Recycle(size) \/ Carve(size) \/ Refuse(size)
  \/ \E b \in Held : Deallocate(b)

Spec == Init /\ [][Next]_vars

-----------------------------------------------------------------------------
TypeOK ==
  /\ nextBlock \in Addr
  /\ blockReserve \in {0, InitialReserve}
  /\ Carved \subseteq Addr
  /\ header \in [Carved -> [size : Addr, next : Addr]]
  /\ Held \subseteq Carved
  /\ live \in [Held -> Requests]
  /\ freeHead \in [Buckets -> Addr]

EndOf(b) == b + Footprint(header[b].size)

(* No two blocks the allocator ever carved overlap, headers included, and  *)
(* all of them lie between the base of the region and s_pNextBlock: what   *)
(* mem_allocate hands out is never memory of another block.                *)
BlocksDisjoint ==
  /\ Base <= nextBlock /\ nextBlock <= BlockLimit
  /\ \A b \in Carved : Base <= b /\ b < EndOf(b) /\ EndOf(b) <= nextBlock
  /\ \A b, c \in Carved : b # c => EndOf(b) <= c \/ EndOf(c) <= b

(* A caller gets at least the bytes it asked for: the size asked, counted  *)
(* from behind the header, ends inside the block (the comment "may have    *)
(* wrapped" of mem_allocate is about the requests that would not).         *)
RoomForRequest ==
  \A b \in Held : b + HdrSize + live[b] <= EndOf(b)

(* The pointers of the free lists, wherever they are, name freed blocks of *)
(* the right size, and each freed block is named at most once: a block is  *)
(* never on two lists, twice on one, or both on a list and with a caller.  *)
FreePointersSound ==
  /\ \A k \in Buckets : freeHead[k] # 0 =>
       /\ freeHead[k] \in Freed
       /\ header[freeHead[k]].size = BucketSizes[k]
       /\ \A f \in Freed : header[f].next # freeHead[k]
  /\ \A f \in Freed : header[f].next # 0 =>
       /\ header[f].next \in Freed
       /\ header[header[f].next].size = header[f].size
       /\ \A g \in Freed : header[g].next = header[f].next => g = f

(* The blocks a walk along bucket k's list meets within n steps.           *)
Walk(k) ==
  LET node[n \in Nat] ==
        IF n = 0 THEN freeHead[k]
        ELSE IF node[n-1] = 0 THEN 0 ELSE header[node[n-1]].next
  IN {node[n] : n \in 0 .. Cardinality(Carved)} \ {0}

(* Nothing is lost: what callers gave back is found again, each bucket's   *)
(* list holds exactly the freed blocks of its size.                        *)
FreeListsComplete ==
  \A k \in Buckets : Walk(k) = {b \in Freed : header[b].size = BucketSizes[k]}

(* Until the first refusal the reserve at the top of the heap is untouched *)
(* and so still there for the allocations that come after the refusal.     *)
ReserveIntact == nextBlock + blockReserve <= BlockLimit

(* The allocator keeps the promise of module Heap to its callers.          *)
ExtentOf(b) == [start |-> b + HdrSize, end |-> b + HdrSize + live[b]]

AbstractHeap == INSTANCE Heap WITH
  Lo <- Base, Hi <- BlockLimit, Lengths <- Requests,
  owned <- {ExtentOf(b) : b \in Held}

ImplementsHeap == AbstractHeap!Spec
=============================================================================
