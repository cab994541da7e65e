---------------------------- MODULE MCKernelAlloc ----------------------------
(***************************************************************************)
(* A 256-byte address space: two buckets, a region of 144 bytes of which   *)
(* 48 are the page reserve and 32 the emergency reserve.  The requests     *)
(* include both bucket bounds, a size beyond the largest bucket and one    *)
(* whose header and rounding wrap the address space.                       *)
(***************************************************************************)
EXTENDS KernelAlloc

MCW              == 256
MCBase           == 16
MCSize           == 144
MCPageReserve    == 48
MCInitialReserve == 32
MCHdrSize        == 8
MCBlockAlign     == 8
MCBucketSizes    == <<8, 24>>
MCRequests       == {0, 8, 9, 25, 242}
=============================================================================
