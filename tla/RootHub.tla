------------------------------- MODULE RootHub -------------------------------
(***************************************************************************)
(* The fake root hub of kernel/device/roothub.c and the register copies it *)
(* works on, kernel/device/hcd.c.                                          *)
(*                                                                         *)
(* The driver keeps a copy of every register in memory; a register is read *)
(* by ReadBackReg into the copy and written by WriteThroughReg from it.    *)
(* The port register is the one where this is delicate: some bits are set  *)
(* by the hardware and cleared by writing 1, and one of those, Enable,     *)
(* turns the port off.  A register is the set of its bits that are 1.      *)
(***************************************************************************)
EXTENDS Naturals, FiniteSets

CONSTANTS
  Lengths,       \* the buffer lengths of requests
  Addresses,     \* the addresses SetAddress may give the root hub
  MaxPortEvents  \* how often something happens at the port by itself

VARIABLES
  port,          \* Host->Port in the hardware
  portCopy,      \* Host->Port in memory
  rootHubNumber, \* RootHubDeviceNumber
  request,       \* the port request that is served, or was served last
  serving,       \* whether it is, in a MicroDelay between its two writes
  hubError,      \* Error and
  hubTransfer,   \* LastTransfer of the root hub's device
  portEvents

rootHubVars == <<port, portCopy, rootHubNumber, request, serving, hubError,
                 hubTransfer, portEvents>>

Changes == {"ConnectDetected", "EnableChanged", "OverCurrentChanged"}
Bits    == Changes \cup {"Connect", "Enable", "OverCurrent", "Resume", "Suspend", "Reset", "Power"}

-----------------------------------------------------------------------------
(* What the hardware makes of a written value: the change bits and Enable  *)
(* are cleared by 1, Suspend is set by 1, three bits take the value; the   *)
(* end of a reset enables a connected port, without power nothing runs.    *)
Acknowledged == Changes \cup {"Enable"}
Plain        == {"Resume", "Reset", "Power"}

PortAfterWrite(old, written) ==
  LET new == (old \ (Plain \cup (written \cap Acknowledged)))
               \cup (written \cap (Plain \cup {"Suspend"}))
      enabled == /\ "Reset" \in old \ new
                 /\ {"Connect", "Power"} \subseteq new
      stopped == IF "Power" \notin new THEN {"Enable", "Suspend"}
                 ELSE IF "Reset" \in new THEN {"Enable"}
                 ELSE IF "Resume" \in old \ new THEN {"Suspend"} ELSE {}
  IN (new \ stopped) \cup (IF enabled THEN {"Enable", "EnableChanged"} ELSE {})

(* Mutant of PortMask: the port is written like any other register.        *)
PortMask_All(maskOr) == Bits

(* WriteThroughRegMask: of Host->Port only these bits are written as they  *)
(* are in the copy, and the ones the caller names.                         *)
PortMask(maskOr) == Plain \cup maskOr

(* A read of the register, an assignment to the copy, and its write.       *)
Modify(old, set, cleared, maskOr) ==
  LET copy == (old \cup set) \ cleared IN
  /\ portCopy' = copy
  /\ port' = PortAfterWrite(port, copy \cap PortMask(maskOr))

-----------------------------------------------------------------------------
(* The lengths of what the tables of roothub.c hold.                       *)
DescriptorLength(kind) ==
  CASE kind = "Device" -> 18 [] kind = "Configuration" -> 25
    [] kind = "String0" -> 4 [] kind = "String1" -> 90 [] kind = "Hub" -> 9
    [] OTHER -> 0

Descriptors == {"Device", "Configuration", "String0", "String1", "Hub", "OtherString"}

PortFeatures == {"Enable", "Suspend", "Power", "ConnectDetected", "EnableChanged",
                 "OverCurrentChanged", "Reset"}

Kinds == {"GetDeviceStatus", "GetInterfaceStatus", "GetHubStatus", "GetPortStatus",
          "ClearFeature", "SetFeature", "SetAddress", "GetDescriptor",
          "GetConfiguration", "SetConfiguration", "Interrupt", "Unknown"}

ASSUME RootHubAssumption ==
  Lengths \subseteq Nat /\ Addresses \subseteq Nat /\ MaxPortEvents \in Nat

Requests == [kind : Kinds \ {"ClearFeature", "SetFeature", "SetAddress", "GetDescriptor"}]
       \cup [kind : {"ClearFeature", "SetFeature"}, feature : PortFeatures]
       \cup [kind : {"SetAddress"}, value : Addresses]
       \cup [kind : {"GetDescriptor"}, descriptor : Descriptors, length : Lengths]

NoPortRequest == [kind |-> "SetConfiguration"]

Least(a, b) == IF a <= b THEN a ELSE b

(* replyLength, as the branches of the switch leave it.                    *)
ReplyLength(r) ==
  CASE r.kind \in {"GetDeviceStatus", "GetInterfaceStatus"} -> 2
    [] r.kind \in {"GetHubStatus", "GetPortStatus"} -> 4
    [] r.kind = "GetDescriptor" -> Least(DescriptorLength(r.descriptor), r.length)
    [] r.kind = "GetConfiguration" -> 1
    [] OTHER -> 0

Answered(r) ==
  /\ hubError' = IF r.kind \in {"Interrupt", "Unknown"} THEN "Stall" ELSE "NoError"
  /\ hubTransfer' = IF r.kind = "Interrupt" THEN hubTransfer ELSE ReplyLength(r)

(* The requests that are one write of the port, and what they write.       *)
ClearPortFeature(f) ==
  CASE f = "Enable" -> Modify(port, {"Enable"}, {}, {"Enable"})
    [] f = "Power" -> Modify(port, {}, {"Power"}, {"Power"})
    [] f \in Changes -> Modify(port, {f}, {}, {f})
    [] f = "Suspend" -> Modify(port, {"Resume"}, {}, {"Resume"})
    [] OTHER -> UNCHANGED <<port, portCopy>>

SetPortFeature(f) ==
  CASE f = "Reset" -> Modify(port, {"Reset", "Power"}, {"Suspend"}, {"Power", "Reset", "Suspend"})
    [] f = "Power" -> Modify(port, {"Power"}, {}, {"Power"})
    [] OTHER -> UNCHANGED <<port, portCopy>>

(* Requests that go on after a MicroDelay, with the copy they made before. *)
Delayed(r) == \/ r.kind = "ClearFeature" /\ r.feature = "Suspend"
              \/ r.kind = "SetFeature" /\ r.feature = "Reset"

(* HcdProcessRootHubMessage, up to its return or to the delay.             *)
ProcessRootHubMessage(r) ==
  /\ ~serving
  /\ request' = IF r.kind \in {"ClearFeature", "SetFeature"} THEN r ELSE NoPortRequest
  /\ serving' = Delayed(r)
  /\ CASE r.kind = "ClearFeature" -> ClearPortFeature(r.feature)
       [] r.kind = "SetFeature" -> SetPortFeature(r.feature)
       [] r.kind = "GetPortStatus" -> portCopy' = port /\ UNCHANGED port
       [] OTHER -> UNCHANGED <<port, portCopy>>
  /\ rootHubNumber' = IF r.kind = "SetAddress" THEN r.value ELSE rootHubNumber
  /\ IF Delayed(r) THEN hubError' = "Processing" /\ UNCHANGED hubTransfer
                   ELSE Answered(r)
  /\ UNCHANGED portEvents

(* The second write: the copy is not read again.                           *)
AfterDelay ==
  IF request.kind = "SetFeature"
  THEN Modify(portCopy, {}, {"Reset"}, {"Power"})
  ELSE Modify(portCopy, {}, {"Resume", "Suspend"}, {"Resume", "Suspend"})

FinishRootHubMessage ==
  /\ serving
  /\ serving' = FALSE
  /\ AfterDelay
  /\ Answered(request)
  /\ UNCHANGED <<rootHubNumber, request, portEvents>>

-----------------------------------------------------------------------------
(* The port by itself: devices come and go, and draw too much current.     *)
PortEvent ==
  /\ portEvents < MaxPortEvents
  /\ portEvents' = portEvents + 1
  /\ \/ /\ {"Connect", "Power"} \cap port = {"Power"}
        /\ port' = port \cup {"Connect", "ConnectDetected"}
     \/ /\ "Connect" \in port
        /\ port' = (port \ {"Connect", "Enable", "Suspend"}) \cup {"ConnectDetected"}
             \cup (IF "Enable" \in port THEN {"EnableChanged"} ELSE {})
     \/ /\ "Power" \in port /\ "OverCurrent" \notin port
        /\ port' = port \cup {"OverCurrent", "OverCurrentChanged"}
     \/ /\ "OverCurrent" \in port
        /\ port' = (port \ {"OverCurrent"}) \cup {"OverCurrentChanged"}
  /\ UNCHANGED <<portCopy, rootHubNumber, request, serving, hubError, hubTransfer>>

RootHubInit ==
  /\ port \in {{}, {"Connect", "ConnectDetected", "Power"}}
  /\ portCopy = port
  /\ rootHubNumber = 0
  /\ request = NoPortRequest
  /\ serving = FALSE
  /\ hubError = "NoError"
  /\ hubTransfer = 0
  /\ portEvents = 0

RootHubTypeOK ==
  /\ port \subseteq Bits /\ portCopy \subseteq Bits
  /\ rootHubNumber \in Addresses \cup {0}
  /\ request \in Requests /\ serving \in BOOLEAN
  /\ hubError \in {"NoError", "Stall", "Processing"} /\ hubTransfer \in 0 .. 90
  /\ portEvents \in 0 .. MaxPortEvents

(* Reading, changing and writing back the port register disturbs nothing   *)
(* else: a change the hardware reported goes only when a request asked for *)
(* exactly that, power only when power was to be turned off, and the port  *)
(* is disabled only on request, by a reset, or because the device is gone. *)
Asked(kind, feature) == request' = [kind |-> kind, feature |-> feature]

PortUndisturbed ==
  [][/\ \A c \in Changes : c \in port \ port' => Asked("ClearFeature", c)
     /\ "Power" \in port \ port' => Asked("ClearFeature", "Power")
     /\ "Enable" \in port \ port' =>
          \/ Asked("ClearFeature", "Enable") \/ Asked("ClearFeature", "Power")
          \/ "Reset" \in port' \/ "Connect" \notin port'
    ]_rootHubVars
=============================================================================
