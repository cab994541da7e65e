-------------------------- MODULE KernelAllocProofs --------------------------
(***************************************************************************)
(* Theorems about the kernel's block allocator, for every address width,   *)
(* region, table of buckets and set of requests the assumptions of module  *)
(* KernelAlloc allow.                                                      *)
(*                                                                         *)
(* The argument is one inductive invariant, IInv: types, the layout of the *)
(* carved blocks below s_pNextBlock, the shape of the free lists stated    *)
(* pointer by pointer (so that no induction along a list is needed), and   *)
(* the reserve.  None of the four is preserved without the others: carving *)
(* needs the layout to know that the new block is not on a list, and       *)
(* recycling needs the lists to know that the block is nobody's.           *)
(*                                                                         *)
(* That each list holds ALL the free blocks is ListsInv, proved from IInv: *)
(* there is a sequence of blocks that the pointers run through, of which   *)
(* mem_allocate takes the first and before which mem_deallocate puts one.  *)
(***************************************************************************)
EXTENDS KernelAlloc, FiniteSetTheorems, TLAPS

(* mem_allocate clears the link of what it hands out, and nothing links a  *)
(* block that is with a caller.                                            *)
HeldUnlinked == \A b \in Held : header[b].next = 0

IInv ==
  /\ TypeOK
  /\ BlocksDisjoint
  /\ FreePointersSound
  /\ HeldUnlinked
  /\ ReserveIntact

(* A set of naturals has a least element.                                  *)
LEMMA LeastElement ==
  ASSUME NEW S \in SUBSET Nat, S # {}
  PROVE  \E m \in S : \A n \in S : m <= n
<1>1. \E m \in S : \A n \in S : ~(<<n, m>> \in OpToRel(<, Nat))
  BY NatLessThanWellFounded, WFMin
<1>2. PICK m \in S : \A n \in S : ~(<<n, m>> \in OpToRel(<, Nat))
  BY <1>1
<1>3. \A n \in S : ~(n < m)
  BY <1>2 DEF OpToRel
<1>4. QED
  BY <1>3

(* The bucket table's search: mem_allocate leaves its loop at a bucket     *)
(* that is large enough, or past the table.                                *)
LEMMA BucketForFits ==
  ASSUME NEW size \in Addr, BucketFor(size) # 0
  PROVE  /\ BucketFor(size) \in Buckets
         /\ size <= BucketSizes[BucketFor(size)]
         /\ BucketSizes[BucketFor(size)] \in Addr
<1> DEFINE Large == {k \in Buckets : size <= BucketSizes[k]}
<1>1. Large # {} /\ Large \in SUBSET Nat
  BY BucketAssumption DEF BucketFor, Buckets
<1>2. PICK k \in Large : \A j \in Large : k <= j
  BY <1>1, LeastElement
<1>3. \A j \in Buckets : BucketSizes[j] \in Addr
  BY BucketAssumption DEF Buckets
<1>4. \A j \in Buckets : j < k => size > BucketSizes[j]
  BY <1>2, <1>3 DEF Addr, Buckets
<1>5. QED
  BY <1>1, <1>2, <1>3, <1>4 DEF BucketFor

LEMMA RoundedType ==
  ASSUME NEW size \in Addr
  PROVE  Rounded(size) \in Addr
BY BucketForFits DEF Rounded

(* The address arithmetic of carving stays inside uint32_t.                *)
LEMMA FootprintType ==
  ASSUME NEW size \in Addr
  PROVE  Footprint(size) \in Addr
<1> DEFINE x == (HdrSize + size + BlockAlign - 1) % W
<1>1. W \in Nat \ {0}
  BY SizesAssumption, RegionAssumption
<1>2. HdrSize + size + BlockAlign - 1 \in Nat
  BY SizesAssumption DEF Addr
<1>3. x \in 0 .. W - 1
  BY <1>1, <1>2
<1>4. x % BlockAlign \in 0 .. x
  BY <1>1, <1>3, SizesAssumption
<1>5. QED
  BY <1>1, <1>3, <1>4 DEF Footprint, AlignDown, Addr

(* A mod that did not go down did not wrap: what the guard "pNextBlock <=  *)
(* s_pNextBlock" of mem_allocate is there for.                             *)
LEMMA NoWrap ==
  ASSUME NEW a \in Addr, NEW d \in Addr, (a + d) % W > a
  PROVE  (a + d) % W = a + d
<1>1. W \in Nat \ {0}
  BY SizesAssumption, RegionAssumption
<1>2. CASE a + d < W
  BY <1>1, <1>2 DEF Addr
<1>3. CASE a + d >= W
  <2>1. (a + d) % W = a + d - W
    <3>1. a + d - W \in 0 .. W - 1
      BY <1>1, <1>3 DEF Addr
    <3>2. a + d = (a + d - W) + W
      BY <1>1 DEF Addr
    <3> HIDE DEF Addr
    <3>3. \A z \in 0 .. W - 1 : (z + W) % W = z
      BY <1>1
    <3>4. QED
      BY <3>1, <3>2, <3>3
  <2>2. QED
    BY <2>1, <1>1 DEF Addr
<1>4. QED
  BY <1>1, <1>2, <1>3 DEF Addr

LEMMA InitInvariant == Init => IInv
<1> SUFFICES ASSUME Init PROVE IInv
  OBVIOUS
<1>1. Carved = {} /\ Held = {} /\ Freed = {}
  BY DEF Init, Carved, Held, Freed
<1>2. TypeOK
  <2>1. /\ header \in [Carved -> [size : Addr, next : Addr]]
        /\ live \in [Held -> Requests]
    BY <1>1 DEF Init, Carved, Held
  <2>2. nextBlock \in Addr /\ freeHead \in [Buckets -> Addr]
    BY SizesAssumption, RegionAssumption DEF Init, Addr
  <2>3. QED
    BY <1>1, <2>1, <2>2 DEF Init, TypeOK
<1>3. BlocksDisjoint
  BY <1>1, RegionAssumption DEF Init, BlocksDisjoint, BlockLimit
<1>4. FreePointersSound
  BY <1>1 DEF Init, FreePointersSound
<1>5. ReserveIntact /\ HeldUnlinked
  BY <1>1, RegionAssumption DEF Init, ReserveIntact, HeldUnlinked, BlockLimit
<1>6. QED
  BY <1>2, <1>3, <1>4, <1>5 DEF IInv

LEMMA CarveInvariant ==
  ASSUME IInv, NEW size \in Requests, Carve(size)
  PROVE  IInv'
<1>b. PICK b : b = nextBlock
  OBVIOUS
<1> DEFINE r == Rounded(size)
<1>1. size \in Addr /\ r \in Addr /\ Footprint(r) \in Addr
  BY SizesAssumption, RoundedType, FootprintType
<1>2. /\ TypeOK /\ BlocksDisjoint /\ FreePointersSound /\ ReserveIntact
      /\ b \in Addr /\ W \in Nat /\ BlockLimit \in Addr
      /\ Base \in Addr \ {0} /\ Base <= b
      /\ blockReserve \in Nat
  BY <1>b, RegionAssumption, SizesAssumption
     DEF IInv, TypeOK, BlocksDisjoint, BlockLimit, Addr
<1>3. /\ nextBlock' = b + Footprint(r)
      /\ nextBlock' > b
      /\ nextBlock' <= BlockLimit - blockReserve
      /\ nextBlock' \in Addr
  <2>1. AfterCarving(size) = (b + Footprint(r)) % W
    BY <1>b DEF AfterCarving
  <2>2. AfterCarving(size) \in Addr
    BY <2>1, <1>1, <1>2, SizesAssumption, RegionAssumption DEF Addr
  <2>3. AfterCarving(size) > b /\ AfterCarving(size) <= BlockLimit - blockReserve
    BY <2>2, <1>b, <1>2 DEF Carve, CannotCarve, Addr
  <2>4. AfterCarving(size) = b + Footprint(r)
    BY <2>1, <2>3, <1>1, <1>2, NoWrap
  <2>5. QED
    BY <2>2, <2>3, <2>4 DEF Carve
<1>4. /\ \A c \in Carved : c \in Addr /\ Footprint(header[c].size) \in Addr
      /\ b \notin Carved
  BY <1>b, <1>2, FootprintType DEF TypeOK, BlocksDisjoint, EndOf, Addr
<1>5. /\ Carved' = Carved \cup {b}
      /\ Held' = Held \cup {b}
      /\ Freed' = Freed
      /\ header' = [x \in Carved \cup {b} |->
                      IF x = b THEN [size |-> r, next |-> 0] ELSE header[x]]
      /\ header'[b] = [size |-> r, next |-> 0]
      /\ \A c \in Carved : header'[c] = header[c]
      /\ freeHead' = freeHead /\ blockReserve' = blockReserve
      /\ live' = [x \in Held \cup {b} |-> IF x = b THEN size ELSE live[x]]
  BY <1>b, <1>2, <1>4 DEF Carve, HandOut, Carved, Held, Freed, TypeOK
<1>6. TypeOK'
  <2>1. header' \in [Carved' -> [size : Addr, next : Addr]]
    BY <1>1, <1>2, <1>5 DEF TypeOK, Addr
  <2>2. live' \in [Held' -> Requests]
    BY <1>2, <1>5 DEF TypeOK
  <2>3. Carved' \subseteq Addr /\ Held' \subseteq Carved'
    BY <1>2, <1>5 DEF TypeOK
  <2>4. QED
    BY <2>1, <2>2, <2>3, <1>2, <1>3, <1>5 DEF TypeOK
<1>7. BlocksDisjoint'
  <2>1. \A c \in Carved : EndOf(c)' = EndOf(c)
    BY <1>5 DEF EndOf
  <2>2. EndOf(b)' = nextBlock'
    BY <1>3, <1>5 DEF EndOf
  <2>3. \A c \in Carved : /\ EndOf(c) \in Nat
                         /\ Base <= c /\ c < EndOf(c) /\ EndOf(c) <= b
    BY <1>b, <1>2, <1>4 DEF BlocksDisjoint, EndOf, Addr
  <2>4. Base <= nextBlock' /\ nextBlock' <= BlockLimit
    BY <1>2, <1>3 DEF Addr
  <2>5. \A c \in Carved' : Base <= c /\ c < EndOf(c)' /\ EndOf(c)' <= nextBlock'
    BY <1>2, <1>3, <1>4, <1>5, <2>1, <2>2, <2>3 DEF Addr
  <2>6. \A c, d \in Carved' : c # d => EndOf(c)' <= d \/ EndOf(d)' <= c
    BY <1>2, <1>5, <2>1, <2>2, <2>3 DEF BlocksDisjoint
  <2>7. QED
    BY <2>4, <2>5, <2>6 DEF BlocksDisjoint, BlockLimit
<1>8. FreePointersSound'
  <2>1. Freed \subseteq Carved
    BY DEF Freed
  <2>2. QED
    BY <1>2, <1>5, <2>1 DEF FreePointersSound
<1>9. ReserveIntact'
  BY <1>2, <1>3, <1>5 DEF ReserveIntact, BlockLimit, Addr
<1>10. HeldUnlinked'
  BY <1>2, <1>5 DEF IInv, HeldUnlinked, TypeOK
<1>11. QED
  BY <1>6, <1>7, <1>8, <1>9, <1>10 DEF IInv

(* Two buckets never have the same size, so the size in a header tells     *)
(* which list its block can be on.                                         *)
LEMMA BucketsDiffer ==
  ASSUME NEW j \in Buckets, NEW k \in Buckets, j # k
  PROVE  BucketSizes[j] # BucketSizes[k]
<1>1. j < k \/ k < j
  BY DEF Buckets
<1>2. BucketSizes[j] \in Addr /\ BucketSizes[k] \in Addr
  BY BucketAssumption DEF Buckets
<1>3. QED
  BY <1>1, <1>2, BucketAssumption DEF Addr

LEMMA RecycleInvariant ==
  ASSUME IInv, NEW size \in Requests, Recycle(size)
  PROVE  IInv'
<1>b. PICK b : b = FreeHeadFor(size)
  OBVIOUS
<1>k. PICK k : k = BucketFor(size)
  OBVIOUS
<1>1. /\ TypeOK /\ BlocksDisjoint /\ FreePointersSound /\ ReserveIntact
      /\ HeldUnlinked
  BY DEF IInv
<1>2. /\ b # 0 /\ b \in Carved
      /\ k \in Buckets /\ b = freeHead[k]
  <2>1. b # 0 /\ b \in Carved
    BY <1>b DEF Recycle, HasMagic
  <2>2. k # 0 /\ b = freeHead[k]
    BY <1>b, <1>k, <2>1 DEF FreeHeadFor
  <2>3. size \in Addr
    BY SizesAssumption
  <2>4. QED
    BY <1>k, <2>1, <2>2, <2>3, BucketForFits
<1>3. /\ b \in Freed /\ header[b].size = BucketSizes[k]
      /\ \A f \in Freed : header[f].next # b
  BY <1>1, <1>2 DEF FreePointersSound
<1>4. /\ freeHead' = [freeHead EXCEPT ![k] = header[b].next]
      /\ header' = [header EXCEPT ![b].next = 0]
      /\ live' = [x \in Held \cup {b} |-> IF x = b THEN size ELSE live[x]]
      /\ nextBlock' = nextBlock /\ blockReserve' = blockReserve
  BY <1>b, <1>k DEF Recycle, HandOut
<1>5. /\ Carved' = Carved /\ Held' = Held \cup {b} /\ Freed' = Freed \ {b}
      /\ header[b] \in [size : Addr, next : Addr]
      /\ header'[b].size = header[b].size /\ header'[b].next = 0
      /\ \A c \in Carved \ {b} : header'[c] = header[c]
      /\ \A c \in Carved : header'[c].size = header[c].size
      /\ freeHead'[k] = header[b].next
      /\ \A j \in Buckets \ {k} : freeHead'[j] = freeHead[j]
  BY <1>1, <1>2, <1>4 DEF Carved, Held, Freed, TypeOK
<1>6. TypeOK'
  <2>1. header' \in [Carved' -> [size : Addr, next : Addr]]
    <3>1. 0 \in Addr
      BY SizesAssumption, RegionAssumption DEF Addr
    <3>2. QED
      BY <1>1, <1>2, <1>4, <1>5, <3>1 DEF TypeOK
  <2>2. live' \in [Held' -> Requests]
    BY <1>1, <1>4, <1>5 DEF TypeOK
  <2>3. freeHead' \in [Buckets -> Addr]
    BY <1>1, <1>4, <1>5 DEF TypeOK
  <2>4. QED
    BY <1>1, <1>2, <1>4, <1>5, <2>1, <2>2, <2>3 DEF TypeOK
<1>7. BlocksDisjoint'
  <2>1. \A c \in Carved : EndOf(c)' = EndOf(c)
    BY <1>5 DEF EndOf
  <2>2. QED
    BY <1>1, <1>4, <1>5, <2>1 DEF BlocksDisjoint, BlockLimit
<1>8. FreePointersSound'
  <2>1. ASSUME NEW j \in Buckets, freeHead'[j] # 0
        PROVE  /\ freeHead'[j] \in Freed'
               /\ header'[freeHead'[j]].size = BucketSizes[j]
               /\ \A f \in Freed' : header'[f].next # freeHead'[j]
    <3>1. CASE j = k
      BY <1>1, <1>3, <1>5, <2>1, <3>1 DEF FreePointersSound, Freed
    <3>2. CASE j # k
      <4>1. freeHead'[j] = freeHead[j] /\ BucketSizes[j] # BucketSizes[k]
        BY <1>2, <1>5, <3>2, BucketsDiffer
      <4>2. QED
        BY <1>1, <1>3, <1>5, <2>1, <4>1 DEF FreePointersSound, Freed
    <3>3. QED
      BY <3>1, <3>2
  <2>2. ASSUME NEW f \in Freed', header'[f].next # 0
        PROVE  /\ header'[f].next \in Freed'
               /\ header'[header'[f].next].size = header'[f].size
               /\ \A g \in Freed' : header'[g].next = header'[f].next => g = f
    BY <1>1, <1>3, <1>5, <2>2 DEF FreePointersSound, Freed
  <2>3. QED
    BY <2>1, <2>2 DEF FreePointersSound
<1>9. ReserveIntact'
  BY <1>1, <1>4 DEF ReserveIntact, BlockLimit
<1>10. HeldUnlinked'
  BY <1>1, <1>5 DEF HeldUnlinked, TypeOK
<1>11. QED
  BY <1>6, <1>7, <1>8, <1>9, <1>10 DEF IInv

LEMMA RefuseInvariant ==
  ASSUME IInv, NEW size \in Requests, Refuse(size)
  PROVE  IInv'
<1>1. /\ blockReserve' = 0
      /\ UNCHANGED <<nextBlock, freeHead, header, live>>
  BY DEF Refuse
<1>2. TypeOK' /\ FreePointersSound' /\ HeldUnlinked'
  BY <1>1 DEF IInv, TypeOK, FreePointersSound, HeldUnlinked, Carved, Held, Freed
<1>3. BlocksDisjoint'
  BY <1>1 DEF IInv, BlocksDisjoint, BlockLimit, EndOf, Carved
<1>4. ReserveIntact'
  BY <1>1, RegionAssumption, SizesAssumption
     DEF IInv, TypeOK, BlocksDisjoint, ReserveIntact, BlockLimit, Addr
<1>5. QED
  BY <1>2, <1>3, <1>4 DEF IInv

(* mem_deallocate finds the bucket whose size is the one in the header.    *)
LEMMA BucketOfSizeFinds ==
  ASSUME NEW size, BucketOfSize(size) # 0
  PROVE  BucketOfSize(size) \in Buckets /\ BucketSizes[BucketOfSize(size)] = size
<1>1. \E k \in Buckets : BucketSizes[k] = size
  BY DEF BucketOfSize
<1>2. QED
  BY <1>1 DEF BucketOfSize

LEMMA DeallocateInvariant ==
  ASSUME IInv, NEW b \in Held, Deallocate(b)
  PROVE  IInv'
<1>k. PICK k : k = BucketOfSize(header[b].size)
  OBVIOUS
<1>1. /\ TypeOK /\ BlocksDisjoint /\ FreePointersSound /\ ReserveIntact
      /\ HeldUnlinked
  BY DEF IInv
<1>2. /\ b \in Carved /\ b \notin Freed /\ b # 0 /\ b \in Addr
      /\ header[b] \in [size : Addr, next : Addr] /\ header[b].next = 0
  <2>1. b \in Carved /\ b \in Addr /\ header[b] \in [size : Addr, next : Addr]
    BY <1>1 DEF TypeOK
  <2>2. b # 0
    BY <1>1, <2>1, RegionAssumption DEF BlocksDisjoint, Addr
  <2>3. QED
    BY <1>1, <2>1, <2>2 DEF HeldUnlinked, Freed
<1>3. /\ live' = [x \in Held \ {b} |-> live[x]]
      /\ nextBlock' = nextBlock /\ blockReserve' = blockReserve
      /\ Release(b)
  BY DEF Deallocate
<1>4. Carved' = Carved
  BY <1>1, <1>2, <1>3 DEF Release, Carved, TypeOK
<1>5. Held' = Held \ {b} /\ Freed' = Freed \cup {b}
  BY <1>2, <1>3, <1>4 DEF Held, Freed
<1>6. live' \in [Held' -> Requests]
  BY <1>1, <1>3, <1>5 DEF TypeOK
<1>7. CASE k = 0
  <2>1. header' = header /\ freeHead' = freeHead
    BY <1>3, <1>k, <1>7 DEF Release
  <2>2. TypeOK'
    BY <1>1, <1>3, <1>4, <1>5, <1>6, <2>1 DEF TypeOK
  <2>3. BlocksDisjoint'
    BY <1>1, <1>3, <1>4, <2>1 DEF BlocksDisjoint, BlockLimit, EndOf
  <2>4. FreePointersSound'
    BY <1>1, <1>2, <1>5, <2>1 DEF FreePointersSound
  <2>5. ReserveIntact' /\ HeldUnlinked'
    BY <1>1, <1>3, <1>5, <2>1 DEF ReserveIntact, BlockLimit, HeldUnlinked
  <2>6. QED
    BY <2>2, <2>3, <2>4, <2>5 DEF IInv
<1>8. CASE k # 0
  <2>1. k \in Buckets /\ BucketSizes[k] = header[b].size
    BY <1>k, <1>8, BucketOfSizeFinds
  <2>2. /\ header' = [header EXCEPT ![b].next = freeHead[k]]
        /\ freeHead' = [freeHead EXCEPT ![k] = b]
    BY <1>3, <1>k, <1>8 DEF Release
  <2>3. /\ header'[b].next = freeHead[k]
        /\ \A c \in Carved \ {b} : header'[c] = header[c]
        /\ \A c \in Carved : header'[c].size = header[c].size
        /\ freeHead'[k] = b
        /\ \A j \in Buckets \ {k} : freeHead'[j] = freeHead[j]
        /\ Freed \subseteq Carved
    BY <1>1, <1>2, <2>1, <2>2 DEF TypeOK, Freed
  <2>4. TypeOK'
    <3>1. header' \in [Carved' -> [size : Addr, next : Addr]]
      BY <1>1, <1>2, <1>4, <2>1, <2>2 DEF TypeOK
    <3>2. freeHead' \in [Buckets -> Addr]
      BY <1>1, <1>2, <2>1, <2>2 DEF TypeOK
    <3>3. QED
      BY <1>1, <1>3, <1>4, <1>5, <1>6, <3>1, <3>2 DEF TypeOK
  <2>5. BlocksDisjoint'
    <3>1. \A c \in Carved : EndOf(c)' = EndOf(c)
      BY <2>3 DEF EndOf
    <3>2. QED
      BY <1>1, <1>3, <1>4, <3>1 DEF BlocksDisjoint, BlockLimit
  <2>6. FreePointersSound'
    <3>1. /\ freeHead[k] # 0 => /\ freeHead[k] \in Freed
                                /\ header[freeHead[k]].size = BucketSizes[k]
                                /\ \A f \in Freed : header[f].next # freeHead[k]
          /\ \A f \in Freed : header[f].next # b
          /\ freeHead[k] # b
      BY <1>1, <1>2, <2>1 DEF FreePointersSound
    <3>2. ASSUME NEW j \in Buckets, freeHead'[j] # 0
          PROVE  /\ freeHead'[j] \in Freed'
                 /\ header'[freeHead'[j]].size = BucketSizes[j]
                 /\ \A f \in Freed' : header'[f].next # freeHead'[j]
      <4>1. CASE j = k
        BY <1>2, <1>5, <2>1, <2>3, <3>1, <4>1
      <4>2. CASE j # k
        <5>1. freeHead'[j] = freeHead[j] /\ BucketSizes[j] # BucketSizes[k]
          BY <2>1, <2>3, <4>2, BucketsDiffer
        <5>2. /\ freeHead[j] \in Freed
              /\ header[freeHead[j]].size = BucketSizes[j]
              /\ \A f \in Freed : header[f].next # freeHead[j]
          BY <1>1, <3>2, <5>1 DEF FreePointersSound
        <5>3. freeHead[k] # freeHead[j]
          BY <3>1, <3>2, <5>1, <5>2
        <5>4. QED
          BY <1>2, <1>5, <2>3, <5>1, <5>2, <5>3
      <4>3. QED
        BY <4>1, <4>2
    <3>3. ASSUME NEW f \in Freed', header'[f].next # 0
          PROVE  /\ header'[f].next \in Freed'
                 /\ header'[header'[f].next].size = header'[f].size
                 /\ \A g \in Freed' : header'[g].next = header'[f].next => g = f
      <4>1. CASE f = b
        BY <1>2, <1>5, <2>1, <2>3, <3>1, <3>3, <4>1
      <4>2. CASE f # b
        <5>1. f \in Freed /\ header'[f] = header[f]
          BY <1>5, <2>3, <4>2
        <5>2. /\ header[f].next \in Freed
              /\ header[header[f].next].size = header[f].size
              /\ \A g \in Freed : header[g].next = header[f].next => g = f
          BY <1>1, <3>3, <5>1 DEF FreePointersSound
        <5>3. freeHead[k] # header[f].next
          BY <3>1, <5>1, <3>3
        <5>4. QED
          BY <1>2, <1>5, <2>3, <5>1, <5>2, <5>3
      <4>3. QED
        BY <4>1, <4>2
    <3>4. QED
      BY <3>2, <3>3 DEF FreePointersSound
  <2>7. ReserveIntact' /\ HeldUnlinked'
    BY <1>1, <1>2, <1>3, <1>5, <2>3 DEF ReserveIntact, BlockLimit, HeldUnlinked, TypeOK
  <2>8. QED
    BY <2>4, <2>5, <2>6, <2>7 DEF IInv
<1>9. QED
  BY <1>7, <1>8

LEMMA StepInvariant == IInv /\ [Next]_vars => IInv'
<1> SUFFICES ASSUME IInv, [Next]_vars PROVE IInv'
  OBVIOUS
<1>1. ASSUME NEW size \in Requests, Recycle(size) PROVE IInv'
  BY <1>1, RecycleInvariant
<1>2. ASSUME NEW size \in Requests, Carve(size) PROVE IInv'
  BY <1>2, CarveInvariant
<1>3. ASSUME NEW size \in Requests, Refuse(size) PROVE IInv'
  BY <1>3, RefuseInvariant
<1>4. ASSUME NEW b \in Held, Deallocate(b) PROVE IInv'
  BY <1>4, DeallocateInvariant
<1>5. CASE UNCHANGED vars
  BY <1>5 DEF vars, IInv, TypeOK, BlocksDisjoint, FreePointersSound, ReserveIntact,
              HeldUnlinked, BlockLimit, EndOf, Carved, Held, Freed
<1>6. QED
  BY <1>1, <1>2, <1>3, <1>4, <1>5 DEF Next

(* The inductive invariant holds in every state the allocator reaches.     *)
THEOREM InvariantHolds == Spec => []IInv
BY InitInvariant, StepInvariant, PTL DEF Spec

(* The allocator's variables keep their types: in particular s_pNextBlock  *)
(* and every link stay 32-bit values and a caller's block has a header.    *)
THEOREM TypeCorrect == Spec => []TypeOK
<1>1. IInv => TypeOK
  BY DEF IInv
<1>2. QED
  BY <1>1, InvariantHolds, PTL

(* Whatever callers allocate and free, mem_allocate never carves memory    *)
(* twice and never beyond the limit mem_alloc_init set, even for sizes     *)
(* whose footprint wraps around the address space.                         *)
THEOREM NoOverlap == Spec => []BlocksDisjoint
<1>1. IInv => BlocksDisjoint
  BY DEF IInv
<1>2. QED
  BY <1>1, InvariantHolds, PTL

(* The free lists never name a block twice, a block of another bucket, or  *)
(* a block a caller holds, so Recycle never hands one block to two.        *)
THEOREM FreeListsSound == Spec => []FreePointersSound
<1>1. IInv => FreePointersSound
  BY DEF IInv
<1>2. QED
  BY <1>1, InvariantHolds, PTL

(* Until mem_allocate has refused a request, the reserve it will release   *)
(* is still there.                                                         *)
THEOREM ReserveKept == Spec => []ReserveIntact
<1>1. IInv => ReserveIntact
  BY DEF IInv
<1>2. QED
  BY <1>1, InvariantHolds, PTL

-----------------------------------------------------------------------------
(* What follows needs the requests to be of a size whose header and        *)
(* rounding do not wrap around the address space.  It is needed: line 89   *)
(* of kernel_alloc.c adds modulo 2^32, and the block that a request of     *)
(* W - 1 is given is little more than a header.                            *)
SizesCarved == Requests \cup {BucketSizes[k] : k \in Buckets}

NoRequestWraps == \A s \in SizesCarved : HdrSize + s + BlockAlign - 1 < W

SizesInv ==
  /\ \A b \in Carved : header[b].size \in SizesCarved
  /\ \A b \in Held : live[b] <= header[b].size

LEMMA SizesCarvedType == SizesCarved \subseteq Addr
BY SizesAssumption, BucketAssumption DEF SizesCarved, Buckets

(* The rounding of mem_allocate never gives less than header and request.  *)
LEMMA FootprintCovers ==
  ASSUME NoRequestWraps, NEW s \in SizesCarved
  PROVE  HdrSize + s <= Footprint(s)
<1> DEFINE x == HdrSize + s + BlockAlign - 1
<1>1. s \in Nat /\ HdrSize \in Nat /\ BlockAlign \in Nat \ {0} /\ W \in Nat
  BY SizesCarvedType, SizesAssumption DEF Addr
<1>2. x \in Nat /\ x < W
  BY <1>1 DEF NoRequestWraps
<1>3. x % W = x
  BY <1>1, <1>2
<1>4. x % BlockAlign \in 0 .. BlockAlign - 1
  BY <1>1, <1>2
<1>5. Footprint(s) = x - (x % BlockAlign)
  BY <1>3 DEF Footprint, AlignDown
<1>6. QED
  BY <1>1, <1>4, <1>5

LEMMA RoundedCovers ==
  ASSUME NEW size \in Requests
  PROVE  Rounded(size) \in SizesCarved /\ size <= Rounded(size)
<1>1. size \in Addr
  BY SizesAssumption
<1>2. CASE BucketFor(size) = 0
  BY <1>1, <1>2 DEF Rounded, SizesCarved, Addr
<1>3. CASE BucketFor(size) # 0
  BY <1>1, <1>3, BucketForFits DEF Rounded, SizesCarved
<1>4. QED
  BY <1>2, <1>3

(* When a block is recycled, its size is the one the request rounds to.    *)
LEMMA RecycledSize ==
  ASSUME IInv, NEW size \in Requests, Recycle(size)
  PROVE  LET b == FreeHeadFor(size) IN
         b \in Freed /\ header[b].size = Rounded(size)
<1>1. FreeHeadFor(size) # 0 /\ BucketFor(size) # 0
  BY DEF Recycle, FreeHeadFor
<1>2. size \in Addr
  BY SizesAssumption
<1>3. BucketFor(size) \in Buckets /\ FreeHeadFor(size) = freeHead[BucketFor(size)]
  BY <1>1, <1>2, BucketForFits DEF FreeHeadFor
<1>4. QED
  BY <1>1, <1>3 DEF IInv, FreePointersSound, Rounded

LEMMA SizesStep ==
  ASSUME IInv, SizesInv, [Next]_vars
  PROVE  SizesInv'
<1>1. TypeOK
  BY DEF IInv
<1>2. ASSUME NEW size \in Requests, Recycle(size) PROVE SizesInv'
  <2>1. PICK b : b = FreeHeadFor(size)
    OBVIOUS
  <2>2. b \in Carved /\ header[b].size = Rounded(size) /\ size <= Rounded(size)
    BY <1>2, <2>1, RecycledSize, RoundedCovers DEF Freed
  <2>3. /\ Carved' = Carved /\ Held' = Held \cup {b}
        /\ \A c \in Carved : header'[c].size = header[c].size
        /\ live' = [x \in Held \cup {b} |-> IF x = b THEN size ELSE live[x]]
    BY <1>1, <1>2, <2>1, <2>2 DEF Recycle, HandOut, Carved, Held, TypeOK
  <2>4. QED
    BY <1>1, <2>2, <2>3 DEF SizesInv, TypeOK
<1>3. ASSUME NEW size \in Requests, Carve(size) PROVE SizesInv'
  <2>1. PICK b : b = nextBlock
    OBVIOUS
  <2>2. b \notin Carved
    BY <1>1, <2>1, FootprintType DEF IInv, BlocksDisjoint, EndOf, TypeOK, Addr
  <2>3. /\ Carved' = Carved \cup {b} /\ Held' = Held \cup {b}
        /\ header'[b].size = Rounded(size)
        /\ \A c \in Carved : header'[c] = header[c]
        /\ live' = [x \in Held \cup {b} |-> IF x = b THEN size ELSE live[x]]
    BY <1>3, <2>1, <2>2 DEF Carve, HandOut, Carved, Held
  <2>4. QED
    BY <1>1, <2>2, <2>3, RoundedCovers DEF SizesInv, TypeOK
<1>4. ASSUME NEW size \in Requests, Refuse(size) PROVE SizesInv'
  BY <1>4 DEF Refuse, SizesInv, Carved, Held
<1>5. ASSUME NEW b \in Held, Deallocate(b) PROVE SizesInv'
  <2>1. /\ Carved' = Carved /\ Held' = Held \ {b}
        /\ \A c \in Carved : header'[c].size = header[c].size
        /\ live' = [x \in Held \ {b} |-> live[x]]
    BY <1>1, <1>5 DEF Deallocate, Release, Carved, Held, TypeOK
  <2>2. QED
    BY <1>1, <2>1 DEF SizesInv, TypeOK
<1>6. CASE UNCHANGED vars
  BY <1>6 DEF vars, SizesInv, Carved, Held
<1>7. QED
  BY <1>2, <1>3, <1>4, <1>5, <1>6 DEF Next

LEMMA SizesHold == Spec => []SizesInv
<1>1. Init => SizesInv
  BY DEF Init, SizesInv, Carved, Held
<1>2. QED
  BY <1>1, SizesStep, InvariantHolds, PTL DEF Spec

LEMMA RoomFromSizes ==
  ASSUME NoRequestWraps, IInv, SizesInv
  PROVE  RoomForRequest
<1> SUFFICES ASSUME NEW b \in Held PROVE b + HdrSize + live[b] <= EndOf(b)
  BY DEF RoomForRequest
<1>1. b \in Carved /\ header[b].size \in SizesCarved /\ live[b] <= header[b].size
  BY DEF IInv, TypeOK, SizesInv
<1>2. HdrSize + header[b].size <= Footprint(header[b].size)
  BY <1>1, FootprintCovers
<1>3. /\ b \in Nat /\ live[b] \in Nat /\ header[b].size \in Nat /\ HdrSize \in Nat
      /\ Footprint(header[b].size) \in Nat
  <2>1. b \in Addr /\ live[b] \in Addr /\ header[b].size \in Addr
    BY <1>1, SizesAssumption, SizesCarvedType DEF IInv, TypeOK
  <2>2. Footprint(header[b].size) \in Addr
    BY <2>1, FootprintType
  <2>3. QED
    BY <2>1, <2>2, SizesAssumption DEF Addr
<1>4. QED
  BY <1>1, <1>2, <1>3 DEF EndOf

(* Every caller has the bytes it asked for, if no request is so large that *)
(* its header and rounding wrap.                                           *)
THEOREM RoomGiven ==
  ASSUME NoRequestWraps
  PROVE  Spec => []RoomForRequest
<1>1. IInv /\ SizesInv => RoomForRequest
  BY RoomFromSizes
<1>2. QED
  BY <1>1, InvariantHolds, SizesHold, PTL

-----------------------------------------------------------------------------
(* The allocator implements the abstract heap: under the mapping that      *)
(* shows callers' blocks as the bytes behind their headers, each step is a *)
(* step of Heap or changes nothing there.                                  *)
ExtentsApart ==
  /\ \A b \in Held : /\ b \in Nat /\ live[b] \in Nat /\ HdrSize \in Nat
                     /\ AbstractHeap!Inside(ExtentOf(b))
  /\ \A b, c \in Held : b # c => /\ ExtentOf(b) # ExtentOf(c)
                                 /\ AbstractHeap!Disjoint(ExtentOf(b), ExtentOf(c))

LEMMA HeldExtents == IInv /\ RoomForRequest => ExtentsApart
<1> SUFFICES ASSUME IInv, RoomForRequest PROVE ExtentsApart
  OBVIOUS
<1>1. \A b \in Held : /\ b \in Carved /\ b \in Addr /\ live[b] \in Addr
                      /\ header[b].size \in Addr
  BY SizesAssumption DEF IInv, TypeOK
<1>2. \A b \in Held : Footprint(header[b].size) \in Addr
  BY <1>1, FootprintType
<1>3. \A b \in Held : /\ b + HdrSize + live[b] <= EndOf(b)
                      /\ Base <= b /\ b < EndOf(b) /\ EndOf(b) <= nextBlock
                      /\ EndOf(b) \in Nat /\ b \in Nat /\ live[b] \in Nat
                      /\ HdrSize \in Nat
  <2>1. \A b \in Held : EndOf(b) \in Nat
    BY <1>1, <1>2 DEF EndOf, Addr
  <2>2. \A b \in Held : b \in Nat /\ live[b] \in Nat /\ HdrSize \in Nat
    BY <1>1, SizesAssumption DEF Addr
  <2>3. QED
    BY <1>1, <2>1, <2>2 DEF RoomForRequest, IInv, BlocksDisjoint
<1>4. nextBlock <= BlockLimit /\ nextBlock \in Nat /\ BlockLimit \in Int /\ Base \in Nat
  BY SizesAssumption, RegionAssumption
     DEF IInv, BlocksDisjoint, TypeOK, Addr, BlockLimit
<1>5. \A b \in Held : AbstractHeap!Inside(ExtentOf(b))
  BY <1>3, <1>4 DEF AbstractHeap!Inside, ExtentOf
<1>6. ASSUME NEW b \in Held, NEW c \in Held, b # c
      PROVE  /\ ExtentOf(b) # ExtentOf(c)
             /\ AbstractHeap!Disjoint(ExtentOf(b), ExtentOf(c))
  <2>1. EndOf(b) <= c \/ EndOf(c) <= b
    BY <1>1, <1>6 DEF IInv, BlocksDisjoint
  <2>2. AbstractHeap!Disjoint(ExtentOf(b), ExtentOf(c))
    BY <1>3, <2>1 DEF AbstractHeap!Disjoint, ExtentOf
  <2>3. ExtentOf(b).start # ExtentOf(c).start
    BY <1>3, <1>6 DEF ExtentOf
  <2>4. QED
    BY <2>2, <2>3
<1>7. QED
  BY <1>3, <1>5, <1>6 DEF ExtentsApart

LEMMA HeldExtentsNext == IInv' /\ RoomForRequest' => ExtentsApart'
BY HeldExtents, PTL

(* A block handed out to one more caller is an Allocate of Heap.           *)
LEMMA HandOutImplements ==
  ASSUME ExtentsApart', NEW b, NEW size \in Requests,
         b \notin Held, HandOut(b, size)
  PROVE  AbstractHeap!Next
<1> DEFINE owned == {ExtentOf(c) : c \in Held}
<1>1. /\ Held' = Held \cup {b} /\ live'[b] = size
      /\ \A c \in Held : live'[c] = live[c]
  BY DEF HandOut, Held
<1>2. PICK e : e = [start |-> b + HdrSize, end |-> b + HdrSize + size]
  OBVIOUS
<1>3. /\ \A c \in Held : [start |-> c + HdrSize, end |-> c + HdrSize + live'[c]] = ExtentOf(c)
      /\ [start |-> b + HdrSize, end |-> b + HdrSize + live'[b]] = e
  BY <1>1, <1>2 DEF ExtentOf
<1>4. owned' = owned \cup {e}
  BY <1>1, <1>3 DEF ExtentOf
<1>5. \A d \in owned : AbstractHeap!Disjoint(d, e) /\ d # e
  BY <1>1, <1>3 DEF ExtentsApart, AbstractHeap!Disjoint, ExtentOf
<1>6. AbstractHeap!Inside(e)
  BY <1>1, <1>3 DEF ExtentsApart, AbstractHeap!Inside, BlockLimit, ExtentOf
<1>7. AbstractHeap!Allocate(e)
  BY <1>4, <1>5, <1>6 DEF AbstractHeap!Allocate
<1>8. /\ e = AbstractHeap!Extent(b + HdrSize, size)
      /\ b + HdrSize \in Base .. BlockLimit
  <2>1. b \in Nat /\ size \in Nat /\ HdrSize \in Nat
    BY <1>1 DEF ExtentsApart
  <2>2. e.start = b + HdrSize /\ e.end = b + HdrSize + size
    BY <1>2
  <2>3. Base \in Nat /\ BlockLimit \in Int
    BY RegionAssumption DEF BlockLimit
  <2>4. QED
    BY <1>2, <1>6, <2>1, <2>2, <2>3 DEF AbstractHeap!Inside, AbstractHeap!Extent
<1>9. QED
  BY <1>7, <1>8 DEF AbstractHeap!Next

(* A block taken back is a Deallocate of Heap.                             *)
LEMMA DeallocateImplements ==
  ASSUME ExtentsApart, NEW b \in Held, Deallocate(b)
  PROVE  AbstractHeap!Next
<1> DEFINE owned == {ExtentOf(c) : c \in Held}
<1>1. Held' = Held \ {b} /\ \A c \in Held \ {b} : live'[c] = live[c]
  BY DEF Deallocate, Held
<1>2. PICK e : e = ExtentOf(b)
  OBVIOUS
<1>3. \A c \in Held \ {b} :
        /\ [start |-> c + HdrSize, end |-> c + HdrSize + live'[c]] = ExtentOf(c)
        /\ ExtentOf(c) # e
  BY <1>1, <1>2 DEF ExtentOf, ExtentsApart
<1>4. owned' = owned \ {e} /\ e \in owned
  BY <1>1, <1>2, <1>3 DEF ExtentOf
<1>5. QED
  BY <1>4 DEF AbstractHeap!Next, AbstractHeap!Deallocate

LEMMA StepImplements ==
  IInv /\ RoomForRequest /\ IInv' /\ RoomForRequest' /\ [Next]_vars
    => [AbstractHeap!Next]_{ExtentOf(b) : b \in Held}
<1> SUFFICES ASSUME IInv, RoomForRequest, IInv', RoomForRequest', [Next]_vars
             PROVE  [AbstractHeap!Next]_{ExtentOf(b) : b \in Held}
  OBVIOUS
<1> DEFINE owned == {ExtentOf(b) : b \in Held}
<1>1. ExtentsApart /\ ExtentsApart'
  BY HeldExtents, HeldExtentsNext
<1>2. ASSUME NEW size \in Requests, Recycle(size) PROVE AbstractHeap!Next
  <2>1. PICK b : b = FreeHeadFor(size)
    OBVIOUS
  <2>2. b \notin Held /\ HandOut(b, size)
    BY <1>2, <2>1, RecycledSize DEF Recycle, Freed
  <2>3. QED
    BY <1>1, <2>2, HandOutImplements
<1>3. ASSUME NEW size \in Requests, Carve(size) PROVE AbstractHeap!Next
  <2>1. PICK b : b = nextBlock
    OBVIOUS
  <2>2. b \notin Carved
    BY <2>1, FootprintType DEF IInv, BlocksDisjoint, EndOf, TypeOK, Addr
  <2>3. b \notin Held /\ HandOut(b, size)
    BY <1>3, <2>1, <2>2 DEF Carve, IInv, TypeOK
  <2>4. QED
    BY <1>1, <2>3, HandOutImplements
<1>4. ASSUME NEW size \in Requests, Refuse(size) PROVE UNCHANGED owned
  BY <1>4 DEF Refuse, Held, ExtentOf
<1>5. ASSUME NEW b \in Held, Deallocate(b) PROVE AbstractHeap!Next
  BY <1>1, <1>5, DeallocateImplements
<1>6. CASE UNCHANGED vars
  BY <1>6 DEF vars, Held, ExtentOf
<1>7. QED
  BY <1>2, <1>3, <1>4, <1>5, <1>6 DEF Next

(* mem_allocate and mem_deallocate implement the abstract heap, for every  *)
(* region, bucket table and set of requests none of which wraps.           *)
THEOREM AllocatorImplementsHeap ==
  ASSUME NoRequestWraps
  PROVE  Spec => ImplementsHeap
<1>1. Init => AbstractHeap!Init
  BY DEF Init, AbstractHeap!Init, Held
<1>2. QED
  BY <1>1, StepImplements, InvariantHolds, RoomGiven, PTL
     DEF Spec, ImplementsHeap, AbstractHeap!Spec
-----------------------------------------------------------------------------
(* The free blocks of bucket k, and what it is for the pointers of its     *)
(* list to run through s, of m blocks, and end: every free block of the    *)
(* bucket is met, and met once.                                            *)
FreeOf(k) == {b \in Freed : header[b].size = BucketSizes[k]}

ListOf(k, m, s) ==
  /\ m \in Nat /\ s \in [0 .. m -> Addr]
  /\ s[0] = freeHead[k] /\ s[m] = 0
  /\ \A i \in 0 .. m - 1 : s[i] \in FreeOf(k) /\ header[s[i]].next = s[i + 1]
  /\ \A i, j \in 0 .. m - 1 : s[i] = s[j] => i = j
  /\ \A b \in FreeOf(k) : \E i \in 0 .. m - 1 : s[i] = b

Listed == \A k \in Buckets : \E m \in Nat : \E s \in [0 .. m -> Addr] : ListOf(k, m, s)

ListsInv == Listed /\ IsFiniteSet(Carved)

LEMMA ListsHoldFirst == Init => ListsInv
<1> SUFFICES ASSUME Init PROVE ListsInv
  OBVIOUS
<1>1. Carved = {} /\ Freed = {} /\ 0 \in Addr
  BY SizesAssumption, RegionAssumption DEF Init, Carved, Freed, Addr
<1>2. IsFiniteSet(Carved)
  BY <1>1, FS_EmptySet
<1>3. ASSUME NEW k \in Buckets
      PROVE  \E m \in Nat : \E s \in [0 .. m -> Addr] : ListOf(k, m, s)
  <2> DEFINE s == [i \in 0 .. 0 |-> 0]
  <2>1. s \in [0 .. 0 -> Addr] /\ s[0] = 0 /\ freeHead[k] = 0 /\ FreeOf(k) = {}
    BY <1>1 DEF Init, FreeOf
  <2> HIDE DEF s
  <2>2. ListOf(k, 0, s)
    BY <2>1 DEF ListOf
  <2>3. \E t \in [0 .. 0 -> Addr] : ListOf(k, 0, t)
    BY <2>1, <2>2
  <2> QED
    BY <2>3
<1> QED
  BY <1>2, <1>3 DEF ListsInv, Listed

(* A list that nothing is done to stays.                                   *)
LEMMA ListStays ==
  ASSUME NEW k \in Buckets, NEW m, NEW s, ListOf(k, m, s),
         FreeOf(k)' = FreeOf(k), freeHead'[k] = freeHead[k],
         \A b \in FreeOf(k) : header'[b].next = header[b].next
  PROVE  ListOf(k, m, s)'
<1>1. \A i \in 0 .. m - 1 : s[i] \in FreeOf(k)' /\ header'[s[i]].next = s[i + 1]
  BY DEF ListOf
<1> QED
  BY <1>1 DEF ListOf

LEMMA CarveKeepsLists ==
  ASSUME IInv, ListsInv, NEW size \in Requests, Carve(size)
  PROVE  ListsInv'
<1>1. \A c \in Carved : c # nextBlock
  <2>1. ASSUME NEW c \in Carved PROVE c # nextBlock
    <3>1. c \in Nat /\ Footprint(header[c].size) \in Nat /\ nextBlock \in Nat
      BY FootprintType DEF IInv, TypeOK, Addr
    <3> QED
      BY <3>1 DEF IInv, BlocksDisjoint, EndOf
  <2> QED
    BY <2>1
<1>2. /\ header' = [x \in Carved \cup {nextBlock} |->
                      IF x = nextBlock THEN [size |-> Rounded(size), next |-> 0] ELSE header[x]]
      /\ live' = [x \in Held \cup {nextBlock} |-> IF x = nextBlock THEN size ELSE live[x]]
      /\ freeHead' = freeHead
  BY DEF Carve, HandOut
<1>3. /\ Carved' = Carved \cup {nextBlock} /\ Freed' = Freed
      /\ \A c \in Carved : header'[c] = header[c]
  BY <1>1, <1>2 DEF Carved, Held, Freed
<1>4. ASSUME NEW k \in Buckets
      PROVE  \E m \in Nat : \E s \in [0 .. m -> Addr] : ListOf(k, m, s)'
  <2>1. PICK m \in Nat : \E s \in [0 .. m -> Addr] : ListOf(k, m, s)
    BY DEF ListsInv, Listed
  <2>2. PICK s \in [0 .. m -> Addr] : ListOf(k, m, s)
    BY <2>1
  <2>3. FreeOf(k)' = FreeOf(k) /\ \A b \in FreeOf(k) : header'[b].next = header[b].next
    BY <1>3 DEF FreeOf, Freed
  <2>4. ListOf(k, m, s)'
    BY <1>2, <2>2, <2>3, ListStays
  <2> QED
    BY <2>2, <2>4
<1>5. IsFiniteSet(Carved')
  BY <1>3, FS_AddElement DEF ListsInv
<1> QED
  BY <1>4, <1>5 DEF ListsInv, Listed, Buckets, Addr

(* Recycling takes the first block off its bucket's list.                  *)
LEMMA RecycleKeepsLists ==
  ASSUME IInv, ListsInv, NEW size \in Requests, Recycle(size)
  PROVE  ListsInv'
<1> DEFINE k == BucketFor(size)
           b == freeHead[k]
<1>1. size \in Addr
  BY SizesAssumption
<1>2. k \in Buckets /\ b # 0 /\ b \in Carved
  BY <1>1, BucketForFits DEF Recycle, FreeHeadFor, HasMagic
<1>3. b \in FreeOf(k)
  BY <1>2 DEF IInv, FreePointersSound, FreeOf
<1>4. /\ freeHead' = [freeHead EXCEPT ![k] = header[b].next]
      /\ header' = [header EXCEPT ![b].next = 0]
      /\ live' = [x \in Held \cup {b} |-> IF x = b THEN size ELSE live[x]]
  BY <1>2 DEF Recycle, FreeHeadFor, HandOut
<1> HIDE DEF k, b
<1>5. /\ Carved' = Carved /\ Freed' = Freed \ {b}
      /\ \A c \in Carved \ {b} : header'[c] = header[c]
      /\ \A c \in Carved : header'[c].size = header[c].size
      /\ freeHead'[k] = header[b].next
      /\ \A j \in Buckets \ {k} : freeHead'[j] = freeHead[j]
  BY <1>2, <1>3, <1>4 DEF IInv, TypeOK, Carved, Held, Freed
<1>6. \A j \in Buckets : FreeOf(j)' = FreeOf(j) \ {b}
  BY <1>5 DEF FreeOf, Freed
<1>7. ASSUME NEW j \in Buckets
      PROVE  \E n \in Nat : \E t \in [0 .. n -> Addr] : ListOf(j, n, t)'
  <2>1. PICK m \in Nat : \E s \in [0 .. m -> Addr] : ListOf(j, m, s)
    BY DEF ListsInv, Listed
  <2>2. PICK s \in [0 .. m -> Addr] : ListOf(j, m, s)
    BY <2>1
  <2>3. CASE j # k
    <3>1. b \notin FreeOf(j)
      BY <1>2, <1>3, <2>3, BucketsDiffer DEF FreeOf
    <3>2. FreeOf(j)' = FreeOf(j) /\ \A c \in FreeOf(j) : header'[c].next = header[c].next
      BY <1>5, <1>6, <3>1 DEF FreeOf, Freed
    <3>3. ListOf(j, m, s)'
      BY <1>5, <2>2, <2>3, <3>2, ListStays
    <3> QED
      BY <2>2, <3>3
  <2>4. CASE j = k
    <3>1. s[0] = b /\ m \in Nat \ {0} /\ header[b].next = s[1]
      BY <1>2, <2>2, <2>4 DEF ListOf, b
    <3> DEFINE n == m - 1
               t == [i \in 0 .. n |-> s[i + 1]]
    <3>2. n \in Nat /\ t \in [0 .. n -> Addr] /\ \A i \in 0 .. n : t[i] = s[i + 1] /\ i + 1 \in 0 .. m
      BY <2>2, <3>1
    <3> HIDE DEF t
    <3>3. t[0] = freeHead'[k] /\ t[n] = 0
      BY <1>5, <2>2, <3>1, <3>2 DEF ListOf
    <3>4. ASSUME NEW i \in 0 .. n - 1
          PROVE  t[i] \in FreeOf(k)' /\ header'[t[i]].next = t[i + 1]
      <4>1. t[i] = s[i + 1] /\ i + 1 \in 0 .. m - 1 /\ i + 1 # 0 /\ t[i + 1] = s[(i + 1) + 1]
        BY <3>1, <3>2
      <4>2. s[i + 1] \in FreeOf(k) /\ header[s[i + 1]].next = s[(i + 1) + 1]
        BY <2>2, <2>4, <4>1 DEF ListOf
      <4>3. s[i + 1] # b
        BY <2>2, <3>1, <4>1 DEF ListOf
      <4> QED
        BY <1>2, <1>5, <1>6, <4>1, <4>2, <4>3 DEF FreeOf, Freed
    <3>5. ASSUME NEW i \in 0 .. n - 1, NEW h \in 0 .. n - 1, t[i] = t[h]
          PROVE  i = h
      <4>1. s[i + 1] = s[h + 1] /\ i + 1 \in 0 .. m - 1 /\ h + 1 \in 0 .. m - 1
        BY <3>1, <3>2, <3>5
      <4>2. i + 1 = h + 1
        BY <2>2, <4>1 DEF ListOf
      <4> QED
        BY <4>2
    <3>6. ASSUME NEW c \in FreeOf(k)'
          PROVE  \E i \in 0 .. n - 1 : t[i] = c
      <4>1. c \in FreeOf(k) /\ c # b
        BY <1>2, <1>6, <3>6
      <4>2. PICK i \in 0 .. m - 1 : s[i] = c
        BY <2>2, <2>4, <4>1 DEF ListOf
      <4>3. i # 0 /\ i - 1 \in 0 .. n - 1 /\ (i - 1) + 1 = i
        BY <3>1, <4>1, <4>2
      <4>4. t[i - 1] = c
        BY <3>2, <4>2, <4>3
      <4> QED
        BY <4>3, <4>4
    <3>7. ListOf(k, n, t)'
      BY <3>2, <3>3, <3>4, <3>5, <3>6 DEF ListOf, Addr
    <3> QED
      BY <2>4, <3>2, <3>7
  <2> QED
    BY <2>3, <2>4
<1> QED
  BY <1>5, <1>7 DEF ListsInv, Listed, Buckets, Addr

(* A block that is given back becomes the first of its bucket's list.      *)
LEMMA DeallocateKeepsLists ==
  ASSUME IInv, ListsInv, NEW b \in Held, Deallocate(b)
  PROVE  ListsInv'
<1>k. PICK k : k = BucketOfSize(header[b].size)
  OBVIOUS
<1>1. TypeOK /\ Release(b) /\ live' = [x \in Held \ {b} |-> live[x]]
  BY DEF IInv, Deallocate
<1>2. b \in Carved /\ b \in Addr /\ b # 0 /\ b \notin Freed
  BY <1>1, RegionAssumption DEF IInv, TypeOK, BlocksDisjoint, Freed, Addr
<1>3. /\ Carved' = Carved /\ Freed' = Freed \cup {b}
      /\ \A c \in Carved \ {b} : header'[c] = header[c]
      /\ \A c \in Carved : header'[c].size = header[c].size
  BY <1>1, <1>2 DEF Release, TypeOK, Carved, Held, Freed
<1>4. \A j \in Buckets : b \notin FreeOf(j)
  BY <1>2 DEF FreeOf
<1>5. ASSUME NEW j \in Buckets
      PROVE  \E n \in Nat : \E t \in [0 .. n -> Addr] : ListOf(j, n, t)'
  <2>1. PICK m \in Nat : \E s \in [0 .. m -> Addr] : ListOf(j, m, s)
    BY DEF ListsInv, Listed
  <2>2. PICK s \in [0 .. m -> Addr] : ListOf(j, m, s)
    BY <2>1
  <2>3. CASE j # k
    <3>1. BucketSizes[j] # header[b].size
      <4>1. CASE \E h \in Buckets : BucketSizes[h] = header[b].size
        <5>1. k \in Buckets /\ BucketSizes[k] = header[b].size
          BY <1>k, <4>1 DEF BucketOfSize
        <5> QED
          BY <2>3, <5>1, BucketsDiffer
      <4>2. CASE ~\E h \in Buckets : BucketSizes[h] = header[b].size
        BY <4>2
      <4> QED
        BY <4>1, <4>2
    <3>2. FreeOf(j)' = FreeOf(j) /\ \A c \in FreeOf(j) : header'[c].next = header[c].next
      BY <1>2, <1>3, <3>1 DEF FreeOf, Freed
    <3>3. freeHead'[j] = freeHead[j]
      BY <1>1, <1>k, <2>3 DEF Release, TypeOK
    <3>4. ListOf(j, m, s)'
      BY <2>2, <3>2, <3>3, ListStays
    <3> QED
      BY <2>2, <3>4
  <2>4. CASE j = k
    <3>1. k \in Buckets /\ k # 0 /\ BucketSizes[k] = header[b].size
      BY <1>k, <2>4, BucketOfSizeFinds DEF Buckets
    <3>2. /\ freeHead'[k] = b /\ header'[b].next = freeHead[k]
          /\ FreeOf(k)' = FreeOf(k) \cup {b}
      <4>1. /\ header' = [header EXCEPT ![b].next = freeHead[k]]
            /\ freeHead' = [freeHead EXCEPT ![k] = b]
        BY <1>1, <1>k, <3>1 DEF Release
      <4>2. freeHead'[k] = b /\ header'[b].next = freeHead[k]
        BY <1>1, <1>2, <3>1, <4>1 DEF TypeOK
      <4>3. FreeOf(k)' = FreeOf(k) \cup {b}
        BY <1>2, <1>3, <3>1 DEF FreeOf, Freed
      <4> QED
        BY <4>2, <4>3
    <3> DEFINE n == m + 1
               t == [i \in 0 .. n |-> IF i = 0 THEN b ELSE s[i - 1]]
    <3>3. /\ n \in Nat /\ t \in [0 .. n -> Addr] /\ t[0] = b
          /\ \A i \in 0 .. m : t[i + 1] = s[i]
      BY <1>2, <2>1, <2>2
    <3> HIDE DEF t
    <3>4. t[n] = 0
      BY <2>1, <2>2, <3>3 DEF ListOf
    <3>5. ASSUME NEW i \in 0 .. n - 1
          PROVE  t[i] \in FreeOf(k)' /\ header'[t[i]].next = t[i + 1]
      <4>1. CASE i = 0
        <5>1. t[1] = s[0]
          BY <2>1, <3>3
        <5> QED
          BY <2>2, <2>4, <3>2, <3>3, <4>1, <5>1 DEF ListOf
      <4>2. CASE i # 0
        <5>1. i - 1 \in 0 .. m - 1 /\ t[i] = s[i - 1] /\ t[i + 1] = s[(i - 1) + 1]
          BY <2>1, <3>3, <4>2
        <5>2. s[i - 1] \in FreeOf(k) /\ header[s[i - 1]].next = s[(i - 1) + 1]
          BY <2>2, <2>4, <5>1 DEF ListOf
        <5> QED
          BY <1>3, <1>4, <3>1, <3>2, <5>1, <5>2 DEF FreeOf, Freed
      <4> QED
        BY <4>1, <4>2
    <3>6. ASSUME NEW i \in 0 .. n - 1, NEW h \in 0 .. n - 1, t[i] = t[h]
          PROVE  i = h
      <4>1. \A g \in 0 .. n - 1 : g # 0 => g - 1 \in 0 .. m - 1 /\ t[g] = s[g - 1]
        BY <2>1, <3>3
      <4>2. \A g \in 0 .. n - 1 : g # 0 => t[g] # b
        BY <1>4, <2>2, <2>4, <4>1 DEF ListOf
      <4>3. CASE i = 0 \/ h = 0
        BY <3>3, <3>6, <4>2, <4>3
      <4>4. CASE i # 0 /\ h # 0
        <5>1. \A g, a \in 0 .. m - 1 : s[g] = s[a] => g = a
          BY <2>2, <2>4 DEF ListOf
        <5>2. i - 1 \in 0 .. m - 1 /\ h - 1 \in 0 .. m - 1 /\ s[i - 1] = s[h - 1]
          BY <3>6, <4>1, <4>4
        <5>3. i - 1 = h - 1
          BY <5>1, <5>2
        <5> QED
          BY <2>1, <5>3
      <4> QED
        BY <4>3, <4>4
    <3>7. ASSUME NEW c \in FreeOf(k)'
          PROVE  \E i \in 0 .. n - 1 : t[i] = c
      <4>1. CASE c = b
        BY <2>1, <3>3, <4>1
      <4>2. CASE c # b
        <5>1. PICK i \in 0 .. m - 1 : s[i] = c
          BY <2>2, <2>4, <3>2, <4>2 DEF ListOf
        <5>2. i + 1 \in 0 .. n - 1 /\ t[i + 1] = c
          BY <2>1, <3>3, <5>1
        <5> QED
          BY <5>2
      <4> QED
        BY <4>1, <4>2
    <3> HIDE DEF n
    <3>8. ListOf(k, n, t)'
      BY <3>2, <3>3, <3>4, <3>5, <3>6, <3>7 DEF ListOf, Addr
    <3> QED
      BY <2>4, <3>3, <3>8
  <2> QED
    BY <2>3, <2>4
<1> QED
  BY <1>3, <1>5 DEF ListsInv, Listed, Buckets, Addr

LEMMA StepKeepsLists == IInv /\ ListsInv /\ [Next]_vars => ListsInv'
<1> SUFFICES ASSUME IInv, ListsInv, [Next]_vars PROVE ListsInv'
  OBVIOUS
<1>1. ASSUME NEW size \in Requests, Recycle(size) PROVE ListsInv'
  BY <1>1, RecycleKeepsLists
<1>2. ASSUME NEW size \in Requests, Carve(size) PROVE ListsInv'
  BY <1>2, CarveKeepsLists
<1>3. ASSUME UNCHANGED <<freeHead, header, live>> PROVE ListsInv'
  BY <1>3 DEF ListsInv, Listed, ListOf, FreeOf, Freed, Carved, Held
<1>4. ASSUME NEW size \in Requests, Refuse(size) PROVE ListsInv'
  BY <1>3, <1>4 DEF Refuse
<1>5. ASSUME NEW b \in Held, Deallocate(b) PROVE ListsInv'
  BY <1>5, DeallocateKeepsLists
<1>6. CASE UNCHANGED vars
  BY <1>3, <1>6 DEF vars
<1> QED
  BY <1>1, <1>2, <1>4, <1>5, <1>6 DEF Next

(* A walk of as many steps as there are blocks meets the whole list: the   *)
(* walk is the list as long as that is, and 0 from there on.               *)
LEMMA WalkMeetsList ==
  ASSUME IInv, IsFiniteSet(Carved), NEW k \in Buckets, NEW m \in Nat, NEW s \in [0 .. m -> Addr], ListOf(k, m, s)
  PROVE  Walk(k) = FreeOf(k)
<1> DEFINE G(f) == [n \in Nat |-> IF n = 0 THEN freeHead[k]
                                  ELSE IF f[n-1] = 0 THEN 0 ELSE header[f[n-1]].next]
           g == [n \in Nat |-> IF n <= m THEN s[n] ELSE 0]
<1>1. \A i \in 0 .. m - 1 : s[i] # 0
  BY RegionAssumption DEF ListOf, FreeOf, Freed, IInv, BlocksDisjoint
<1>2. g = G(g)
  <2>1. ASSUME NEW n \in Nat
        PROVE  g[n] = IF n = 0 THEN freeHead[k] ELSE IF g[n-1] = 0 THEN 0 ELSE header[g[n-1]].next
    <3>1. CASE n = 0
      BY <3>1 DEF ListOf
    <3>2. CASE n # 0 /\ n <= m
      <4>1. n - 1 \in 0 .. m - 1 /\ g[n] = s[n] /\ g[n-1] = s[n-1] /\ (n - 1) + 1 = n
        BY <3>2
      <4>2. header[s[n-1]].next = s[(n - 1) + 1]
        BY <4>1 DEF ListOf
      <4> QED
        BY <1>1, <3>2, <4>1, <4>2
    <3>3. CASE n = m + 1
      <4>1. g[n] = 0 /\ g[n-1] = s[m] /\ s[m] = 0 /\ n # 0
        BY <3>3 DEF ListOf
      <4> QED
        BY <4>1
    <3>4. CASE n > m + 1
      <4>1. g[n] = 0 /\ g[n-1] = 0 /\ n # 0
        BY <3>4
      <4> QED
        BY <4>1
    <3> QED
      BY <3>1, <3>2, <3>3, <3>4
  <2> QED
    BY <2>1
<1>3. ASSUME NEW f, f = G(f)
      PROVE  f = g
  <2> DEFINE Differ == {n \in Nat : f[n] # g[n]}
  <2>1. f = [n \in Nat |-> f[n]] /\ g = [n \in Nat |-> g[n]]
    BY <1>3
  <2>2. /\ \A n \in Nat : f[n] = IF n = 0 THEN freeHead[k] ELSE IF f[n-1] = 0 THEN 0 ELSE header[f[n-1]].next
        /\ \A n \in Nat : g[n] = IF n = 0 THEN freeHead[k] ELSE IF g[n-1] = 0 THEN 0 ELSE header[g[n-1]].next
    BY <1>2, <1>3
  <2> HIDE DEF g
  <2>3. ASSUME Differ # {} PROVE FALSE
    <3>1. PICK n \in Differ : \A j \in Differ : n <= j
      BY <2>3, LeastElement
    <3>2. n \in Nat /\ f[n] # g[n] /\ n # 0
      BY <2>2, <3>1
    <3>3. n - 1 \in Nat /\ f[n-1] = g[n-1]
      BY <3>1, <3>2
    <3> QED
      BY <2>2, <3>2, <3>3
  <2>4. \A n \in Nat : f[n] = g[n]
    BY <2>3
  <2> QED
    BY <2>1, <2>4
<1>4. Walk(k) = {g[n] : n \in 0 .. Cardinality(Carved)} \ {0}
  <2> DEFINE node == CHOOSE f : f = G(f)
  <2>1. node = G(node)
    BY <1>2
  <2>2. node = g
    BY <1>3, <2>1
  <2>3. Walk(k) = {node[n] : n \in 0 .. Cardinality(Carved)} \ {0}
    BY DEF Walk
  <2> HIDE DEF node, g
  <2> QED
    BY <2>2, <2>3
<1>5. m <= Cardinality(Carved) /\ Cardinality(Carved) \in Nat
  <2> DEFINE h == [i \in 1 .. m |-> s[i - 1]]
  <2>1. h \in [1 .. m -> Carved]
    BY DEF ListOf, FreeOf, Freed
  <2>2. \A i, j \in 1 .. m : h[i] = h[j] => i = j
    <3>1. ASSUME NEW i \in 1 .. m, NEW j \in 1 .. m, h[i] = h[j] PROVE i = j
      <4>1. i - 1 \in 0 .. m - 1 /\ j - 1 \in 0 .. m - 1 /\ s[i - 1] = s[j - 1]
        BY <3>1
      <4>2. i - 1 = j - 1
        BY <4>1 DEF ListOf
      <4> QED
        BY <4>2
    <3> QED
      BY <3>1
  <2> HIDE DEF h
  <2>3. h \in Injection(1 .. m, Carved)
    BY <2>1, <2>2 DEF Injection, IsInjective
  <2>4. Cardinality(1 .. m) <= Cardinality(Carved)
    BY <2>3, FS_Injection
  <2>5. Cardinality(1 .. m) = m
    BY FS_Interval
  <2> QED
    BY <2>4, <2>5, FS_CardinalityType
<1>6. \A n \in Nat : g[n] = IF n <= m THEN s[n] ELSE 0
  OBVIOUS
<1> HIDE DEF g
<1>7. ASSUME NEW b \in FreeOf(k) PROVE b \in Walk(k)
  <2>1. PICK i \in 0 .. m - 1 : s[i] = b
    BY DEF ListOf
  <2>2. g[i] = b /\ i \in 0 .. Cardinality(Carved) /\ b # 0
    BY <1>1, <1>5, <1>6, <2>1
  <2> QED
    BY <1>4, <2>2
<1>8. ASSUME NEW b \in Walk(k) PROVE b \in FreeOf(k)
  <2>1. PICK n \in 0 .. Cardinality(Carved) : g[n] = b /\ b # 0
    BY <1>4, <1>8
  <2>2. n \in Nat /\ n <= m /\ s[n] = b
    BY <1>5, <1>6, <2>1
  <2>3. n \in 0 .. m - 1
    BY <2>1, <2>2 DEF ListOf
  <2> QED
    BY <2>2, <2>3 DEF ListOf
<1> QED
  BY <1>7, <1>8

(* Nothing that is given back is lost: at any time each bucket's list      *)
(* holds all of the bucket's free blocks, however often mem_allocate took  *)
(* from it and mem_deallocate put on it.                                   *)
THEOREM FreeListsAreComplete == Spec => []FreeListsComplete
<1>1. IInv /\ ListsInv => FreeListsComplete
  BY WalkMeetsList DEF ListsInv, Listed, FreeListsComplete, FreeOf
<1>2. Spec => []ListsInv
  BY ListsHoldFirst, StepKeepsLists, InvariantHolds, PTL DEF Spec
<1> QED
  BY <1>1, <1>2, InvariantHolds, PTL
=============================================================================
