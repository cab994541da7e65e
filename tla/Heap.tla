-------------------------------- MODULE Heap --------------------------------
(***************************************************************************)
(* What both allocators of the kernel promise their callers, whatever they *)
(* keep in order to do so: an allocation is an interval of addresses that  *)
(* lies inside the heap and overlaps no other outstanding allocation, it   *)
(* stays where it is until it is given back, and nothing else moves.       *)
(*                                                                         *)
(* KernelAlloc (mem/kernel_alloc.c) is shown to implement this module.     *)
(***************************************************************************)
EXTENDS Integers

CONSTANTS
  Lo,        \* first address of the heap
  Hi,        \* first address past the heap
  Lengths    \* the sizes that are asked for

VARIABLE
  owned      \* the outstanding allocations, each a half-open interval

Extent(start, length) == [start |-> start, end |-> start + length]

Disjoint(d, e) == d.end <= e.start \/ e.end <= d.start

Inside(e) == Lo <= e.start /\ e.start <= e.end /\ e.end <= Hi

Init == owned = {}

(* A successful allocation: room that nobody owns.                         *)
Allocate(e) ==
  /\ Inside(e)
  /\ \A d \in owned : Disjoint(d, e) /\ d # e
  /\ owned' = owned \cup {e}

Deallocate(e) ==
  /\ e \in owned
  /\ owned' = owned \ {e}

Next ==
  \/ \E start \in Lo .. Hi, length \in Lengths : Allocate(Extent(start, length))
  \/ \E e \in owned : Deallocate(e)

Spec == Init /\ [][Next]_owned
=============================================================================
