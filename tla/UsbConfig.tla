------------------------------ MODULE UsbConfig ------------------------------
(***************************************************************************)
(* What UsbConfigure, kernel/device/usbd.c, keeps of a configuration: the  *)
(* interfaces and the endpoints it finds in the full descriptor, walked    *)
(* header by header; and where HidAttach finds the descriptor of its       *)
(* interface.  A configuration is a sequence of descriptors, each with its *)
(* DescriptorType, the configuration's own left out.                       *)
(***************************************************************************)
EXTENDS Integers, SequencesExt, Walk

MaxInterfacesPerDevice == 8

InterfaceHeader(walk, interface) ==
  IF walk.lastInterface = interface.Number THEN [walk EXCEPT !.isAlternate = TRUE]
  ELSE [walk EXCEPT !.lastInterface = interface.Number, !.lastEndpoint = 0, !.isAlternate = FALSE,
          !.Interfaces = (interface.Number :> interface) @@ @]

EndpointHeader(walk, endpoint) ==
  IF \/ walk.isAlternate
     \/ walk.lastInterface = MaxInterfacesPerDevice
     \/ walk.lastEndpoint >= walk.Interfaces[walk.lastInterface].EndpointCount
  THEN walk
  ELSE [walk EXCEPT !.lastEndpoint = @ + 1,
          !.Endpoints = (<<walk.lastInterface, walk.lastEndpoint>> :> endpoint) @@ @]

Header(walk, header) ==
  CASE header.DescriptorType = "Interface" -> InterfaceHeader(walk, header)
    [] header.DescriptorType = "Endpoint"  -> EndpointHeader(walk, header)
    [] OTHER -> walk

(* The two reads of the descriptor and the request itself may fail: that   *)
(* is for the caller; this is what a device has once they did not.         *)
UsbConfigure(fullDescriptor) ==
  LET found == Walk(Header, [lastInterface |-> MaxInterfacesPerDevice, lastEndpoint |-> 0,
                                isAlternate |-> FALSE, Interfaces |-> << >>, Endpoints |-> << >>],
                       fullDescriptor)
  IN [Interfaces |-> found.Interfaces, Endpoints |-> found.Endpoints, FullConfiguration |-> fullDescriptor]

(* The HID descriptors that belong to an interface: HidAttach takes the    *)
(* first, and when there is none looks on in the memory that follows.      *)
HidDescriptors(device, interface) ==
  LET of == device.FullConfiguration
      under(k) == {i \in 1 .. k : of[i].DescriptorType = "Interface"}
  IN {k \in DOMAIN of : /\ of[k].DescriptorType = "Hid"
                        /\ \E i \in under(k) : /\ of[i].Number = interface
                                               /\ \A j \in under(k) : j <= i}
=============================================================================
