----------------------------- MODULE MCUsbTree -----------------------------
(***************************************************************************)
(* One port on the root hub, as roothub.c has; on it a hub with two ports, *)
(* one of them for a hub of one more port: a hub below a hub, siblings,    *)
(* and devices that go with the hub they are on; and memory for one device *)
(* less than there may be.  MCChain is the instance with one device on     *)
(* each hub.  MCFragile is every request whose failure the program         *)
(* survives: not the clearing of a port's connection change, nor the       *)
(* reading of a changed port's status.                                     *)
(***************************************************************************)
EXTENDS UsbTree, TLC

MCWide      == <<>> :> 1 @@ <<1>> :> 2 @@ <<1, 1>> :> 1 @@ <<1, 2>> :> 0 @@ <<1, 1, 1>> :> 0
MCChain     == <<>> :> 1 @@ <<1>> :> 1 @@ <<1, 1>> :> 1 @@ <<1, 1, 1>> :> 0
MCLeafOnly  == <<>> :> 1 @@ <<1>> :> 0
MCFourIds   == 1 .. 4
MCTwoIds    == 1 .. 2
MCFragile   == GivesUp \cup {"port_status", "clear_enable", "clear_change", "reset", "port_disable",
                             "string", "configuration", "hub_descriptor", "hub_status", "port_power"}
=============================================================================
