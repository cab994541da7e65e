-------------------------------- MODULE MCHcd --------------------------------
(***************************************************************************)
(* The messages the program sends: below a hub descriptors of three        *)
(* packets, reports of one packet to and from a device; at high speed what *)
(* fits two packets of 64 bytes, and requests without data.  Messages to a *)
(* device start from a port nothing happens to: what a device pulled out   *)
(* shows the driver, any other may.                                        *)
(***************************************************************************)
EXTENDS Hcd

M(split, dir, length, poll) ==
  [split |-> split, dir |-> dir, length |-> length, poll |-> poll]

MCMessages == {M(TRUE, "In", 3, FALSE), M(TRUE, "Out", 1, FALSE), M(TRUE, "In", 1, TRUE),
               M(FALSE, "In", 3, FALSE), M(FALSE, "Out", 1, FALSE), M(FALSE, "Out", 0, FALSE)}

MCLengths   == {8, 64}
MCAddresses == {1}

Settled ==
  /\ port = {"Connect", "Enable", "Power"} /\ portCopy = port /\ rootHubNumber # 0
  /\ request = NoPortRequest /\ hubTransfer = 4 /\ portEvents <= 1

MCNext ==
  \/ Start \/ Handle \/ WireStep
  \/ outcome = "none" /\ (HubStep \/ (operation = "none" /\ Environment))
  \/ Settled /\ \E m \in Messages : Submit(m)

MCSpec == Init /\ [][MCNext]_vars /\ Fairness
=============================================================================
