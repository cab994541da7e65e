----------------------------- MODULE MCSysTimer -----------------------------
(***************************************************************************)
(* Halves of two bits: the low half rolls over twice before the            *)
(* horizon, so that every read of every call can straddle a roll-over.     *)
(***************************************************************************)
EXTENDS SysTimer

MCW       == 4
MCHorizon == 11
MCDelays  == {0, 1, 3, 4}
=============================================================================
