-------------------------------- MODULE MCDma --------------------------------
(***************************************************************************)
(* The two channels of show_dma_demo with their interrupts, its three      *)
(* areas, and enough calls for each channel to be started again after it   *)
(* was used.                                                               *)
(***************************************************************************)
EXTENDS Dma

MCChannels == {4, 5}
MCLineOf   == [c \in MCChannels |-> 16 + c]
MCIrqs     == {20, 21}
MCNumIrqs  == 72
MCPages    == {"source", "dest1", "dest2"}
=============================================================================
