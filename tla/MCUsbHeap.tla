----------------------------- MODULE MCUsbHeap -----------------------------
(***************************************************************************)
(* A heap of 32 bytes in an address space of 104, three table entries, and *)
(* requests that round to none, one, two and three units of 8 bytes: the   *)
(* table and the byte limit can both be the first to run out, and gaps of  *)
(* every size arise between allocations.  The largest never fits.          *)
(***************************************************************************)
EXTENDS UsbHeap

MCW          == 104
MCHeapBase   == 16
MCHeapSize   == 32
MCNumEntries == 3
MCRequests   == {0, 5, 16, 24, 64}
=============================================================================
