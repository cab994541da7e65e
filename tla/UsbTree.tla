------------------------------- MODULE UsbTree -------------------------------
(***************************************************************************)
(* The USB device tree: device/usbd.c and device/hub.c over the root hub   *)
(* of device/roothub.c.                                                    *)
(*                                                                         *)
(* Hubs find devices on their ports, usbd.c gives each a number and a slot *)
(* of Devices, reads its descriptors and starts its driver; for a hub the  *)
(* driver looks at its ports in turn.  Every one of these functions sends  *)
(* control messages, and a message that fails makes UsbControlMessage ask  *)
(* the parent hub whether the device is still there, which may take away   *)
(* the device, and devices above it, from under the calls that are being   *)
(* made.  The calls in progress are therefore a stack: frames, innermost   *)
(* last, each with the function (proc), the place it is at, the device it  *)
(* works on, a port, and a counter or a saved address n.                   *)
(*                                                                         *)
(* A position is the path of ports from the root hub; <<>> is the root hub *)
(* itself, whose messages are answered by roothub.c and do not fail.       *)
(***************************************************************************)
EXTENDS Integers, Sequences, FiniteSets, SequencesExt

CONSTANTS
  PortCount,     \* positions of devices: the number of ports, 0 if no hub
  DevIds,        \* memory for devices: 1 .. n
  MaxDevices,    \* MaximumDevices
  Fragile,       \* the requests that may fail though the device is there
  MayVanish,     \* ports change while the program runs, not only in between
  MayBounce,     \* a port may lose a device that the program has none for
  MaxChanges,    \* bound on the changes of ports
  MaxFailures    \* bound on such failures

Positions == DOMAIN PortCount
Ports     == {p \in Positions : p # <<>>}
PortNums  == {Last(p) : p \in Ports}
Null      == 0
Slots     == 1 .. MaxDevices

ASSUME TopologyAssumption ==
  /\ <<>> \in Positions /\ Positions \subseteq Seq(Nat \ {0})
  /\ \A p \in Positions : PortCount[p] \in Nat /\ \A i \in 1 .. PortCount[p] : Append(p, i) \in Positions
  /\ \A p \in Ports : Front(p) \in Positions /\ Last(p) \in 1 .. PortCount[Front(p)]

ASSUME BoundsAssumption ==
  /\ IsFiniteSet(DevIds) /\ DevIds # {} /\ DevIds = 1 .. Cardinality(DevIds)
  /\ MaxDevices \in Nat \ {0} /\ MaxChanges \in Nat /\ MaxFailures \in Nat
  /\ MayVanish \in BOOLEAN /\ MayBounce \in BOOLEAN

VARIABLES
  dev,            \* the struct UsbDevice in memory, with HubDevice's fields
  devices,        \* Devices
  status,         \* PortStatus: what the program last read of each port
  plugged, enabled,          \* the ports themselves: connected, enabled
  connChange, enableChange,  \* their change bits
  frames,         \* the calls in progress
  result,         \* what the last call returned
  changes, failures,         \* how many there have been
  gaveUp          \* history: a failure made the program give a device up

hardware == <<plugged, enabled, connChange, enableChange>>
counts   == <<changes, failures, gaveUp>>
vars     == <<dev, devices, status, hardware, frames, result, counts>>

Free == [status |-> "Free", number |-> 0, parent |-> Null, port |-> 0, pos |-> <<>>,
         hub |-> FALSE, maxChildren |-> 0, children |-> [i \in PortNums |-> Null]]

Live == {d \in DevIds : dev[d].status # "Free"}

Frame(proc, at, d, port) == [proc |-> proc, at |-> at, dev |-> d, port |-> port, n |-> 0]

(* UsbAttachRootHub, up to its call of UsbAttachDevice, with any devices   *)
(* already on the ports.                                                   *)
Init ==
  /\ dev = [d \in DevIds |-> IF d = 1 THEN [Free EXCEPT !.status = "Powered", !.number = 1]
                                      ELSE Free]
  /\ devices = [s \in Slots |-> IF s = 1 THEN 1 ELSE Null]
  /\ status = [p \in Ports |-> [conn |-> FALSE, connCh |-> FALSE, en |-> FALSE, enCh |-> FALSE]]
  /\ plugged \in {S \in SUBSET Ports : \A p \in S : Front(p) \in S \cup {<<>>}}
  /\ connChange = plugged /\ enabled = {} /\ enableChange = {}
  /\ frames = <<Frame("Attach", "begin", 1, 0)>>
  /\ result = "ok"
  /\ changes = 0 /\ failures = 0 /\ gaveUp = FALSE

-----------------------------------------------------------------------------
(* External: the ports.                                                    *)
Below(p) == {q \in Ports : Len(q) > Len(p) /\ SubSeq(q, 1, Len(p)) = p}

MayChange(p) ==
  /\ changes < MaxChanges
  /\ MayVanish \/ frames = <<>>
  /\ MayBounce \/ p \notin connChange
  /\ changes' = changes + 1
  /\ UNCHANGED <<dev, devices, status, frames, result, failures, gaveUp>>

Plug(p) ==
  /\ p \notin plugged /\ Front(p) \in plugged \cup {<<>>}
  /\ MayChange(p)
  /\ plugged' = plugged \cup {p}
  /\ connChange' = connChange \cup {p}
  /\ UNCHANGED <<enabled, enableChange>>

(* With a hub go the devices behind it.                                    *)
Unplug(p) ==
  /\ p \in plugged
  /\ MayBounce \/ \E d \in Live : dev[d].pos = p
  /\ MayChange(p)
  /\ plugged' = plugged \ ({p} \cup Below(p))
  /\ enabled' = enabled \ ({p} \cup Below(p))
  /\ connChange' = (connChange \ Below(p)) \cup {p}
  /\ enableChange' = enableChange \ ({p} \cup Below(p))

(* Interference: the port is disabled with its device connected.           *)
Disable(p) ==
  /\ p \in plugged /\ p \in enabled
  /\ MayChange(p)
  /\ enabled' = enabled \ {p}
  /\ enableChange' = enableChange \cup {p}
  /\ UNCHANGED <<plugged, connChange>>

(* A device answers when every port on the way to it is enabled.           *)
Reachable(p) == \A k \in 1 .. Len(p) : SubSeq(p, 1, k) \in enabled

-----------------------------------------------------------------------------
(* The calls.                                                              *)
Top == Last(frames)

At(proc, at) ==
  /\ frames # <<>> /\ Top.proc = proc /\ Top.at = at
  /\ Top.dev \in Live

Goto(at)        == frames' = Append(Front(frames), [Top EXCEPT !.at = at])
GotoWith(at, n) == frames' = Append(Front(frames), [Top EXCEPT !.at = at, !.n = n])
Call(at, f)     == frames' = Append(Append(Front(frames), [Top EXCEPT !.at = at]), f)
Return(r)       == frames' = Front(frames) /\ result' = r

Here  == dev[Top.dev]
Child == Here.children[Top.port]
PortPos == Append(Here.pos, Top.port)

(* The requests: the function that sends one and the place it does it at,  *)
(* the kind of request, and where it goes on with the result.              *)
Requests ==
  { <<"CheckConnection",   "status",       "port_status",       "got">>,
    <<"CheckConnection",   "clear_enable", "clear_enable",      "interference">>,
    <<"CheckConnection",   "clear",        "clear_change",      "done">>,
    <<"ConnectionChanged", "status",       "port_status_changed", "got">>,
    <<"ConnectionChanged", "clear",        "clear_connection",  "decide">>,
    <<"ConnectionChanged", "status_new",   "port_status_new",   "got_new">>,
    <<"ConnectionChanged", "disable",      "port_disable",      "failed">>,
    <<"PortReset",         "set",          "port_reset",        "was_set">>,
    <<"PortReset",         "wait",         "port_status_reset", "look">>,
    <<"PortReset",         "clear",        "clear_change",      "done">>,
    <<"Attach",            "describe",     "device_descriptor", "described">>,
    <<"Attach",            "address",      "set_address",       "addressed">>,
    <<"Attach",            "describe2",    "device_descriptor2", "described2">>,
    <<"Attach",            "strings",      "string",            "configure">>,
    <<"Attach",            "configure",    "configuration",     "configured">>,
    <<"Attach",            "strings2",     "string",            "driver">>,
    <<"HubAttach",         "describe",     "hub_descriptor",    "described">>,
    <<"HubAttach",         "status",       "hub_status",        "got">>,
    <<"HubAttach",         "power",        "port_power",        "status_again">>,
    <<"HubAttach",         "status_again", "hub_status",        "got_again">> }

(* The requests whose failure makes the program give a device up.          *)
GivesUp == {"port_reset", "port_status_reset", "port_status_new", "device_descriptor",
            "set_address", "device_descriptor2"}

Sending == frames # <<>> /\ \E q \in Requests : q[1] = Top.proc /\ q[2] = Top.at

Request == CHOOSE q \in Requests : q[1] = Top.proc /\ q[2] = Top.at

(* What a request that is answered does to what the program keeps of a     *)
(* port and, as hubs do, to the port: a hub behind a port that is reset    *)
(* starts over, and reports the devices it finds.  A reset may leave the   *)
(* port disabled, or take so long that the program gives it up.            *)
PortStatus(p) == [conn |-> p \in plugged, connCh |-> p \in connChange,
                  en |-> p \in enabled, enCh |-> p \in enableChange]

Reset(p, works) ==
  /\ enabled' = (enabled \ ({p} \cup Below(p))) \cup (IF works THEN {p} \cap plugged ELSE {})
  /\ connChange' = (connChange \ Below(p)) \cup (Below(p) \cap plugged)
  /\ enableChange' = enableChange \ Below(p)
  /\ IF works THEN UNCHANGED failures
              ELSE /\ "reset" \in Fragile /\ failures < MaxFailures
                   /\ failures' = failures + 1

Answer ==
  /\ Sending /\ Top.dev \in Live
  /\ Reachable(Here.pos)
  /\ LET kind == Request[3] p == PortPos IN
     /\ status' = IF kind \in {"port_status", "port_status_changed", "port_status_reset", "port_status_new"}
                  THEN [status EXCEPT ![p] = PortStatus(p)] ELSE status
     /\ IF kind = "port_reset" THEN \E works \in BOOLEAN : Reset(p, works)
        ELSE /\ connChange' = connChange \ (IF kind = "clear_connection" THEN {p} ELSE {})
             /\ enableChange' = enableChange \ (IF kind = "clear_enable" THEN {p} ELSE {})
             /\ enabled' = enabled \ (IF kind = "port_disable" THEN {p} ELSE {})
             /\ UNCHANGED failures
  /\ result' = "ok"
  /\ Goto(Request[4])
  /\ UNCHANGED <<dev, devices, plugged, changes, gaveUp>>

(* A request that fails.  When the device reported an error and it has a   *)
(* parent, the parent is asked; a request that could not be sent or timed  *)
(* out just fails.                                                         *)
Fail ==
  /\ Sending /\ Top.dev \in Live
  /\ Here.pos # <<>>
  /\ \/ ~Reachable(Here.pos) /\ UNCHANGED <<failures, gaveUp>>
     \/ /\ Reachable(Here.pos) /\ Request[3] \in Fragile
        /\ failures < MaxFailures /\ failures' = failures + 1
        /\ gaveUp' = (gaveUp \/ Request[3] \in GivesUp)
  /\ \/ Goto(Request[4]) /\ result' = "error"
     \/ /\ Here.parent # Null /\ dev[Here.parent].hub
        /\ Call(Request[4], [Frame("Verify", "check", Here.parent, Here.port) EXCEPT !.n = Top.dev])
        /\ UNCHANGED result
  /\ UNCHANGED <<dev, devices, status, hardware, changes>>

(* HubCheckConnectionDevice for UsbControlMessage, which never returns OK  *)
(* after it.                                                               *)
VerifyCheck ==
  /\ At("Verify", "check")
  /\ IF Child = Top.n
     THEN Call("checked", Frame("CheckConnection", "status", Top.dev, Top.port)) /\ UNCHANGED result
     ELSE Return("disconnected")
  /\ UNCHANGED <<dev, devices, status, hardware, counts>>

VerifyChecked ==
  /\ At("Verify", "checked")
  /\ Return(IF result = "ok" /\ Child = Top.n THEN "error" ELSE "disconnected")
  /\ UNCHANGED <<dev, devices, status, hardware, counts>>
-----------------------------------------------------------------------------
(* UsbAllocateDevice, UsbDeallocateDevice.                                 *)
FreeSlots == {s \in Slots : devices[s] = Null}

Least(S) == CHOOSE x \in S : \A y \in S : x <= y

(* Mutant of Numbers: numbered by how many there are.                      *)
Numbers_Count == {Cardinality(Slots \ FreeSlots) + 1}

(* With the table full the number stays what the memory held.              *)
Numbers == IF FreeSlots = {} THEN 0 .. MaxDevices + 1 ELSE {Least(FreeSlots)}

(* Mutant of Family: the driver of a hub leaves the devices behind it.     *)
Family_Alone(d) == {d}

(* A device with the devices behind it, which HubDeallocate takes along.   *)
Family(d) ==
  LET reached[k \in 0 .. Cardinality(DevIds)] ==
        IF k = 0 THEN {d}
        ELSE reached[k - 1] \cup UNION {{dev[e].children[i] : i \in 1 .. dev[e].maxChildren}
                                       : e \in reached[k - 1] \ {Null}}
  IN  reached[Cardinality(DevIds)] \ {Null}

(* Mutants of SlotGivenUp: the slot is never given up; only when the       *)
(* device was configured.                                                  *)
SlotGivenUp_Never(s, gone) == FALSE

SlotGivenUp_Configured(s, gone) ==
  LET d == devices[s] IN
  d \in gone /\ dev[d].number = s /\ dev[d].status = "Configured"

(* The slot is given up only when the device got as far as its address.    *)
SlotGivenUp(s, gone) ==
  LET d == devices[s] IN
  d \in gone /\ dev[d].number = s /\ dev[d].status \in {"Addressed", "Configured"}

Deallocate(gone) ==
  /\ devices' = [s \in Slots |-> IF SlotGivenUp(s, gone) THEN Null ELSE devices[s]]
  /\ dev' = [d \in DevIds |->
       IF d \in gone THEN Free
       ELSE [dev[d] EXCEPT !.children = [i \in PortNums |-> IF @[i] \in gone THEN Null ELSE @[i]]]]

-----------------------------------------------------------------------------
(* Mutant of Changed: the bit next to it.                                  *)
Changed_Connected == status[PortPos].conn

Changed == status[PortPos].connCh

(* A port that is disabled with its device there.                          *)
Interference == ~status[PortPos].en /\ status[PortPos].conn /\ Child # Null

(* HubCheckConnection.  Suspended, OverCurrentChanged and ResetChanged are *)
(* not kept: there may be something of them to clear.                      *)
CheckConnection ==
  /\ \/ /\ At("CheckConnection", "got") /\ result # "ok"
        /\ Return(result)
     \/ /\ At("CheckConnection", "got") /\ result = "ok"
        /\ IF Changed
           THEN Call("enable", Frame("ConnectionChanged", "status", Top.dev, Top.port))
           ELSE Goto("enable")
        /\ UNCHANGED result
     \/ /\ At("CheckConnection", "enable")
        /\ IF status[PortPos].enCh THEN Goto("clear_enable") ELSE Goto("others")
        /\ UNCHANGED result
     \/ /\ At("CheckConnection", "interference")
        /\ IF Interference
           THEN Call("others", Frame("ConnectionChanged", "status", Top.dev, Top.port))
           ELSE Goto("others")
        /\ UNCHANGED result
     \/ /\ At("CheckConnection", "others")
        /\ Goto("clear") \/ Goto("done")
        /\ UNCHANGED result
     \/ /\ At("CheckConnection", "done")
        /\ Return("ok")
  /\ UNCHANGED <<dev, devices, status, hardware, counts>>

(* HubPortReset.  The readings of one wait are one; with n the resets done.*)
PortReset ==
  /\ \/ /\ At("PortReset", "was_set")
        /\ IF result = "ok" THEN Goto("wait") /\ UNCHANGED result ELSE Return("error")
        /\ UNCHANGED gaveUp
     \/ /\ At("PortReset", "look")
        /\ LET st == status[PortPos] IN
           IF result # "ok" \/ st.connCh \/ ~st.conn THEN Return("error")
           ELSE /\ Goto(IF st.en THEN "clear" ELSE "retry")
                /\ UNCHANGED result
        /\ UNCHANGED gaveUp
     \/ /\ At("PortReset", "retry")
        /\ IF Top.n + 1 < 3 THEN GotoWith("set", Top.n + 1) /\ UNCHANGED <<result, gaveUp>>
                            ELSE Return("error") /\ gaveUp' = TRUE
     \/ /\ At("PortReset", "done")
        /\ Return("ok")
        /\ UNCHANGED gaveUp
  /\ UNCHANGED <<dev, devices, status, hardware, changes, failures>>

(* Mutant of Departed: an old device makes room for a new one only.        *)
Departed_Replaced == Child # Null /\ status[PortPos].conn

(* HubPortConnectionChanged, in its parts.                                 *)
Departed == (~status[PortPos].conn /\ ~status[PortPos].en) \/ Child # Null

StatusRead ==
  /\ At("ConnectionChanged", "got")
  /\ IF result = "ok" THEN Goto("clear") /\ UNCHANGED result ELSE Return("error")
  /\ UNCHANGED <<dev, devices, status, hardware, counts>>

DropOld ==
  /\ At("ConnectionChanged", "decide")
  /\ IF Departed
     THEN /\ Child # Null
          /\ Deallocate(Family(Child))
          /\ IF status[PortPos].conn THEN Goto("reset") /\ UNCHANGED result ELSE Return("ok")
     ELSE Goto("reset") /\ UNCHANGED <<dev, devices, result>>
  /\ UNCHANGED <<status, hardware, counts>>

ResetNew ==
  /\ \/ /\ At("ConnectionChanged", "reset")
        /\ Call("was_reset", Frame("PortReset", "set", Top.dev, Top.port))
        /\ UNCHANGED result
     \/ /\ At("ConnectionChanged", "was_reset")
        /\ IF result = "ok" THEN Goto("allocate") /\ UNCHANGED result ELSE Return("error")
  /\ UNCHANGED <<dev, devices, status, hardware, counts>>

(* The call of UsbAllocateDevice: the memory is the first that is free.    *)
AllocateNew ==
  /\ At("ConnectionChanged", "allocate")
  /\ IF Live = DevIds
     THEN /\ dev' = [dev EXCEPT ![Top.dev].children[Top.port] = Null]
          /\ Return("error")
          /\ gaveUp' = TRUE
          /\ UNCHANGED devices
     ELSE LET d == Least(DevIds \ Live) IN
          /\ \E number \in Numbers :
               /\ dev' = [dev EXCEPT
                    ![d] = [Free EXCEPT !.status = "Attached", !.number = number, !.pos = PortPos],
                    ![Top.dev].children[Top.port] = d]
               /\ devices' = IF FreeSlots = {} THEN devices ELSE [devices EXCEPT ![number] = d]
          /\ Goto("status_new")
          /\ UNCHANGED <<result, gaveUp>>
  /\ UNCHANGED <<status, hardware, changes, failures>>

AttachNew ==
  /\ At("ConnectionChanged", "got_new")
  /\ IF result = "ok"
     THEN /\ Child # Null
          /\ dev' = [dev EXCEPT ![Child].parent = Top.dev, ![Child].port = Top.port]
          /\ Call("attached", Frame("Attach", "begin", Child, 0))
          /\ UNCHANGED result
     ELSE Return("error") /\ UNCHANGED dev
  /\ UNCHANGED <<devices, status, hardware, counts>>

(* Mutant of NewAttached: what did not attach is kept.                     *)
NewAttached_Kept ==
  /\ At("ConnectionChanged", "attached") \/ At("ConnectionChanged", "failed")
  /\ Return(result)
  /\ UNCHANGED <<dev, devices, status, hardware, counts>>

NewAttached ==
  /\ \/ /\ At("ConnectionChanged", "attached") /\ result = "ok"
        /\ Return("ok")
        /\ UNCHANGED <<dev, devices>>
     \/ /\ At("ConnectionChanged", "attached") /\ result # "ok"
        /\ Child # Null
        /\ Deallocate(Family(Child))
        /\ Goto("disable")
        /\ UNCHANGED result
     \/ /\ At("ConnectionChanged", "failed")
        /\ Return("error")
        /\ UNCHANGED <<dev, devices>>
  /\ UNCHANGED <<status, hardware, counts>>

-----------------------------------------------------------------------------
(* UsbAttachDevice.  While a device has no address yet its Number is 0 and *)
(* the one it is to have is kept, as n.                                    *)
SetHere(r) == dev' = [dev EXCEPT ![Top.dev] = r]

BeginAttach ==
  /\ At("Attach", "begin")
  /\ GotoWith("describe", Here.number)
  /\ SetHere([Here EXCEPT !.number = 0])
  /\ UNCHANGED <<devices, status, hardware, result, counts>>

GiveUp == SetHere([Here EXCEPT !.number = Top.n]) /\ Return("error")

(* HubChildReset of the parent resets the port if the child is on it.      *)
Orphan ==
  \/ Here.port > dev[Here.parent].maxChildren
  \/ dev[Here.parent].children[Here.port] # Top.dev

Described ==
  /\ At("Attach", "described")
  /\ LET asks == Here.parent # Null /\ dev[Here.parent].hub IN
     IF result # "ok" THEN GiveUp
     ELSE IF asks /\ Orphan
     THEN /\ SetHere([Here EXCEPT !.status = "Default", !.number = Top.n])
          /\ Return("error")
     ELSE /\ SetHere([Here EXCEPT !.status = "Default"])
          /\ IF asks THEN Call("rereset", Frame("PortReset", "set", Here.parent, Here.port))
                     ELSE Goto("address")
          /\ UNCHANGED result
  /\ UNCHANGED <<devices, status, hardware, counts>>

ResetAgain ==
  /\ At("Attach", "rereset")
  /\ IF result = "ok" THEN Goto("address") /\ UNCHANGED <<dev, result>> ELSE GiveUp
  /\ UNCHANGED <<devices, status, hardware, counts>>

WasAddressed ==
  /\ At("Attach", "addressed")
  /\ IF result = "ok"
     THEN /\ SetHere([Here EXCEPT !.number = Top.n, !.status = "Addressed"])
          /\ Goto("describe2") /\ UNCHANGED result
     ELSE GiveUp
  /\ UNCHANGED <<devices, status, hardware, counts>>

DescribedAgain ==
  /\ At("Attach", "described2")
  /\ IF result = "ok" THEN Goto("strings") /\ UNCHANGED result ELSE Return("error")
  /\ UNCHANGED <<dev, devices, status, hardware, counts>>

(* A device that cannot be configured stays, without a driver.             *)
Configured ==
  /\ At("Attach", "configured")
  /\ IF result = "ok"
     THEN /\ SetHere([Here EXCEPT !.status = "Configured"])
          /\ Goto("strings2") /\ UNCHANGED result
     ELSE Return("ok") /\ UNCHANGED dev
  /\ UNCHANGED <<devices, status, hardware, counts>>

StartDriver ==
  /\ At("Attach", "driver")
  /\ IF PortCount[Here.pos] > 0 THEN Call("end", Frame("HubAttach", "begin", Top.dev, 1))
                                ELSE Goto("end")
  /\ UNCHANGED <<dev, devices, status, hardware, result, counts>>

EndAttach ==
  /\ At("Attach", "end")
  /\ Return("ok")
  /\ UNCHANGED <<dev, devices, status, hardware, counts>>

-----------------------------------------------------------------------------
(* HubAttach.  A hub whose descriptor cannot be read keeps its handlers,   *)
(* with MaxChildren as the memory held it (values over PortCount, for      *)
(* ports that no hub answers for, are left out).  That there is memory for *)
(* its struct HubDevice is assumed: without it the hub would keep its      *)
(* handlers, too (hub.c:536), and the next pass follow its null data.      *)
BeginHub ==
  /\ At("HubAttach", "begin")
  /\ SetHere([Here EXCEPT !.hub = TRUE])
  /\ Goto("describe")
  /\ UNCHANGED <<devices, status, hardware, result, counts>>

HubDescribed ==
  /\ At("HubAttach", "described")
  /\ \E max \in 0 .. PortCount[Here.pos] :
       /\ SetHere([Here EXCEPT !.maxChildren = max])
       /\ IF result = "ok" THEN max = PortCount[Here.pos] /\ Goto("status") /\ UNCHANGED result
                           ELSE Return("error")
  /\ UNCHANGED <<devices, status, hardware, counts>>

(* The second reading that fails takes the driver away again.              *)
HubStatusRead ==
  /\ \/ At("HubAttach", "got") /\ result = "ok" /\ Goto("power") /\ UNCHANGED <<dev, result>>
     \/ At("HubAttach", "got") /\ result # "ok" /\ Return("error") /\ UNCHANGED dev
     \/ At("HubAttach", "got_again") /\ result = "ok" /\ Goto("port") /\ UNCHANGED <<dev, result>>
     \/ /\ At("HubAttach", "got_again") /\ result # "ok"
        /\ SetHere([Here EXCEPT !.hub = FALSE])
        /\ Return("error")
  /\ UNCHANGED <<devices, status, hardware, counts>>

(* The loops over the ports: HubAttach's, and HubCheckForChange's, which   *)
(* goes on into the hubs it finds.                                         *)
NextPort(proc, after, next) ==
  /\ At(proc, "port")
  /\ IF Top.port <= Here.maxChildren
     THEN /\ frames' = Append(Append(Front(frames), [Top EXCEPT !.at = after, !.port = @ + next]),
                              Frame("CheckConnection", "status", Top.dev, Top.port))
          /\ UNCHANGED result
     ELSE Return("ok")
  /\ UNCHANGED <<dev, devices, status, hardware, counts>>

HubAttachPort      == NextPort("HubAttach", "port", 1)
CheckForChangePort == NextPort("CheckForChange", "checked", 0)

(* Mutant of CheckForChangeBelow: the port is not left when there is a hub *)
(* on it.                                                                  *)
CheckForChangeBelow_Again ==
  /\ At("CheckForChange", "checked")
  /\ frames' =
       IF result = "ok" /\ Child # Null /\ dev[Child].hub
       THEN Append(Append(Front(frames), [Top EXCEPT !.at = "port"]),
                   Frame("CheckForChange", "port", Child, 1))
       ELSE Append(Front(frames), [Top EXCEPT !.at = "port", !.port = @ + 1])
  /\ UNCHANGED <<dev, devices, status, hardware, result, counts>>

CheckForChangeBelow ==
  /\ At("CheckForChange", "checked")
  /\ LET on == Append(Front(frames), [Top EXCEPT !.at = "port", !.port = @ + 1]) IN
     frames' = IF result = "ok" /\ Child # Null /\ dev[Child].hub
               THEN Append(on, Frame("CheckForChange", "port", Child, 1)) ELSE on
  /\ UNCHANGED <<dev, devices, status, hardware, result, counts>>

(* UsbCheckForChange.                                                      *)
StartPass ==
  /\ frames = <<>>
  /\ devices[1] # Null /\ dev[devices[1]].hub
  /\ frames' = <<Frame("CheckForChange", "port", devices[1], 1)>>
  /\ UNCHANGED <<dev, devices, status, hardware, result, counts>>

-----------------------------------------------------------------------------
Steps ==
  \/ Answer \/ Fail \/ VerifyCheck \/ VerifyChecked
  \/ CheckConnection \/ PortReset
  \/ StatusRead \/ DropOld \/ ResetNew \/ AllocateNew \/ AttachNew \/ NewAttached
  \/ BeginAttach \/ Described \/ ResetAgain \/ WasAddressed \/ DescribedAgain
  \/ Configured \/ StartDriver \/ EndAttach
  \/ BeginHub \/ HubDescribed \/ HubStatusRead \/ HubAttachPort
  \/ CheckForChangePort \/ CheckForChangeBelow

Next == Steps \/ StartPass \/ \E p \in Ports : Plug(p) \/ Unplug(p) \/ Disable(p)

Spec == Init /\ [][Next]_vars

(* The processor goes on with the call it is in.                           *)
FairSpec == Spec /\ WF_vars(Steps)

-----------------------------------------------------------------------------
DeviceType == [status : {"Free", "Attached", "Powered", "Default", "Addressed", "Configured"},
               number : 0 .. MaxDevices, parent : DevIds \cup {Null}, port : PortNums \cup {0},
               pos : Positions, hub : BOOLEAN, maxChildren : Nat, children : [PortNums -> DevIds \cup {Null}]]

(* Every number fits the table, and no hub has more ports than there are.  *)
TypeOK ==
  /\ dev \in [DevIds -> DeviceType]
  /\ \A d \in DevIds : dev[d].maxChildren <= PortCount[dev[d].pos]
  /\ devices \in [Slots -> DevIds \cup {Null}]
  /\ status \in [Ports -> [conn : BOOLEAN, connCh : BOOLEAN, en : BOOLEAN, enCh : BOOLEAN]]
  /\ plugged \subseteq Ports /\ enabled \subseteq plugged
  /\ connChange \subseteq Ports /\ enableChange \subseteq enabled \cup plugged
  /\ result \in {"ok", "error", "disconnected"}

(* No two devices answer to one address, address 0 of a device that is     *)
(* being attached included (usbd.c stores the number away and sets it 0).  *)
UniqueAddress ==
  \A d, e \in Live : d # e => dev[d].number # dev[e].number

(* Devices holds every device in memory in one slot, which is its number   *)
(* once it is addressed, and nothing that was freed, unless an attach was  *)
(* given up.  Even then no device loses its slot to another.               *)
TableAgrees ==
  /\ \A d \in Live : dev[d].number # 0 => devices[dev[d].number] = d
  /\ ~gaveUp => /\ \A d \in Live : Cardinality({s \in Slots : devices[s] = d}) = 1
                /\ \A s \in Slots : devices[s] \in Live \cup {Null}

(* The links of the tree agree both ways, and no link leads to a device    *)
(* that was freed, while calls that change the tree are under way.         *)
TreeAgrees ==
  /\ \A d \in Live, i \in PortNums :
        dev[d].children[i] # Null =>
          LET c == dev[d].children[i] IN
          /\ c \in Live /\ dev[c].pos = Append(dev[d].pos, i)
          /\ dev[c].status # "Attached" => dev[c].parent = d /\ dev[c].port = i
  /\ \A c \in Live :
        dev[c].parent # Null =>
          dev[c].parent \in Live /\ dev[dev[c].parent].children[dev[c].port] = c

(* No request is sent for a device that was deallocated: what the comment  *)
(* on DeviceDetached asks of drivers, of every caller (usbd.h:291).        *)
NoFurtherRequests == Sending => Top.dev \in Live

(* The table, the tree and the calls under way agree on which devices      *)
(* there are.                                                              *)
TreeSound == TypeOK /\ UniqueAddress /\ TableAgrees /\ TreeAgrees /\ NoFurtherRequests

(* When no call is under way, a hub with its driver has a device on each   *)
(* port where one is plugged, unless one was given up, and on no other;    *)
(* but for ports with a change that is still to be seen.  Whatever came,   *)
(* went, was reset or failed, HubCheckConnection has done its work.        *)
PassSeesAll ==
  frames = <<>> =>
    \A d \in Live : dev[d].hub /\ Reachable(dev[d].pos) =>
      \A i \in 1 .. dev[d].maxChildren :
        LET p == Append(dev[d].pos, i) IN
        p \notin connChange =>
          /\ dev[d].children[i] # Null => p \in plugged
          /\ p \in plugged /\ ~gaveUp => dev[d].children[i] # Null

(* When no call is under way every device got as far as its address; what  *)
(* did not is gone, but for the entry of a port that could not be read     *)
(* after the allocation, which never got a parent.                         *)
SettledDevices ==
  frames = <<>> =>
    \A d \in Live : \/ dev[d].status \in {"Addressed", "Configured"}
                   \/ (dev[d].status = "Attached" /\ dev[d].parent = Null)

(* A pass over the ports leaves the tree as the ports are, and no device   *)
(* half attached.                                                          *)
PassDone == PassSeesAll /\ SettledDevices

(* Every attach and every pass over the ports comes to its end.            *)
CallsReturn == []<>(frames = <<>>)
=============================================================================
