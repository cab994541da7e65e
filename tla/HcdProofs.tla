------------------------------ MODULE HcdProofs ------------------------------
(***************************************************************************)
(* Theorems about the host controller driver and the root hub, for every   *)
(* set of messages, of any number of packets, and every set of requests    *)
(* the assumptions of modules Hcd and RootHub allow.                       *)
(*                                                                         *)
(* Of the port: HubInv is types and what a delayed request finds when it   *)
(* goes on with a copy it made before its delay.                           *)
(*                                                                         *)
(* Of a message: CallInv relates three counters that nothing keeps in      *)
(* step, what the channel has counted (Passed), what the device has given  *)
(* or taken (at, got), and the PID and the toggle by which each side knows *)
(* a repetition.  While data comes in the device is where the host is, or  *)
(* one packet behind it, when it did not see that the packet arrived; then *)
(* what arrived is good.  Or it is ahead of the host: then the host has    *)
(* lost packets of this stage for good, and the device runs out of data    *)
(* before the channel's count ends, so that the stage cannot come to a     *)
(* good end.  The parities are what keeps a device that is one packet      *)
(* ahead from falling in with the host again.                              *)
(***************************************************************************)
EXTENDS Hcd, SequenceTheorems, TLAPS

-----------------------------------------------------------------------------
(* The root hub.  What AfterDelay relies on: nothing but the two delayed   *)
(* requests is served across a delay, the port keeps no Enable without     *)
(* Power, and the copy that the second write is made from has Power        *)
(* whenever the port has.                                                  *)
PortInv ==
  /\ "Enable" \in port => "Power" \in port
  /\ serving => Delayed(request) /\ phase = "running"
  /\ serving \/ phase = "port_reset" => ("Power" \in port => "Power" \in portCopy)

HubInv == RootHubTypeOK /\ PortInv

-----------------------------------------------------------------------------
(* The message in progress.                                                *)
MessageKnown ==
  /\ message.length \in Nat /\ message.dir \in {"In", "Out"}
  /\ message.poll => message.dir = "In"
  /\ ~message.split /\ message.dir = "Out" => message.length <= 1

DeviceKnown ==
  /\ device.toggle \in {0, 1} /\ device.has \in Nat /\ device.at \in Nat
  /\ device.got \in Seq(Nat)
  /\ DOMAIN device = {"toggle", "has", "at", "got", "done"}
  /\ message.dir = "In" => device.has \in 1 .. message.length

StartKnown ==
  /\ phase \in {"off", "loaded", "unusable", "reset", "configured", "halting", "port",
                "port_reset", "running"}
  /\ databuffer \in BOOLEAN /\ phy \in BOOLEAN

CallKnown ==
  /\ stage \in {"idle", "setup", "data", "status", "poll"}
  /\ operation \in {"none", "whole", "start", "complete"}
  /\ event \in Events /\ error \in Errors
  /\ outcome \in {"none", "ok", "timeout", "error", "nack", "nyet"}
  /\ tries \in 0 .. 3 /\ globalTries \in 0 .. 2 /\ actualTries \in 0 .. 9
  /\ splitTries \in 0 .. 2

ChannelKnown ==
  /\ channel \in ChannelType /\ packets \in Nat
  /\ buffer \in [1 .. message.length -> Nat]

(* The call and the channel agree on what they are about.                  *)
CallSound ==
  /\ stage = "idle" => operation = "none"
  /\ stage # "idle" =>
       /\ operation \in (IF message.split THEN {"start", "complete"} ELSE {"whole"})
       /\ outcome = "none" /\ error # "NoError" /\ tries > 0
       /\ (stage = "poll" <=> message.poll)
       /\ stage = "data" => message.length > 0
       /\ packets > 0 /\ channel.left <= packets
       /\ operation = "start" => channel.left = packets
       /\ operation = "complete" =>
            channel.left = IF event = "ack" THEN packets - 1 ELSE packets
       /\ operation = "whole" /\ event # "complete" => channel.left > 0

-----------------------------------------------------------------------------
(* How far the host, the channel and the device are with the data: Passed  *)
(* is what the channel has counted in this stage, Counted(n) what a device *)
(* holds that got n packets once each.                                     *)
Odd(n) == n % 2
Passed == message.length - channel.left
Counted(n) == [i \in 1 .. n |-> i]
Arrived(n) == \A i \in 1 .. n : buffer[i] = i

SetupSound ==
  stage = "setup" /\ channel.left = 0 => device.toggle = 1 /\ device.at = 0 /\ device.got = <<>>

InSound ==
  stage = "data" /\ message.dir = "In" =>
    /\ channel.left <= message.length
    /\ Toggle = 1 - Odd(Passed)
    /\ device.toggle = 1 - Odd(device.at)
    /\ device.at <= message.length /\ device.at <= device.has + 1
    /\ \/ device.at > Passed
       \/ /\ device.at \in {Passed, Passed - 1}
          /\ channel.at = Least(Passed, device.has)
          /\ Arrived(channel.at)

OutSound ==
  stage = "data" /\ message.dir = "Out" =>
    /\ channel.left <= message.length
    /\ Toggle = 1 - Odd(Passed)
    /\ channel.at = Passed
    /\ device.got = Counted(Len(device.got))
    /\ device.toggle = 1 - Odd(Len(device.got))
    /\ Len(device.got) \in {Passed, Passed + 1}
    /\ channel.left = 0 => Len(device.got) = Passed

StatusSound ==
  stage = "status" =>
    /\ message.dir = "In" => lastTransfer = device.has /\ Arrived(lastTransfer)
    /\ message.dir = "Out" => device.got = Counted(message.length)
    /\ channel.left = 0 => device.done

DataSound == SetupSound /\ InSound /\ OutSound /\ StatusSound

CallInv ==
  /\ MessageKnown /\ DeviceKnown /\ CallKnown /\ ChannelKnown
  /\ CallSound /\ DataSound /\ GoodIsWhole
-----------------------------------------------------------------------------
(* The port register.  What a write leaves of the port: reported changes   *)
(* go only where 1 is written, power is what is written, and Enable needs  *)
(* power and ends with a 1, without power, or in a reset.                  *)
LEMMA WriteLeaves ==
  ASSUME NEW old \in SUBSET Bits, NEW written \in SUBSET Bits
  PROVE  LET new == PortAfterWrite(old, written) IN
           /\ new \subseteq Bits
           /\ \A c \in Changes : c \in old \ new => c \in written
           /\ "Power" \in new <=> "Power" \in written
           /\ "Enable" \in new => "Power" \in new
           /\ "Enable" \in old \ new =>
                "Enable" \in written \/ "Power" \notin new \/ "Reset" \in new
  BY DEF PortAfterWrite, Bits, Changes, Plain, Acknowledged

(* The same for a read, a change of the copy and its write.                *)
LEMMA ModifyLeaves ==
  ASSUME port \subseteq Bits,
         NEW old \in SUBSET Bits, NEW set \in SUBSET Bits, NEW cleared,
         NEW maskOr, Modify(old, set, cleared, maskOr)
  PROVE  /\ port' \subseteq Bits /\ portCopy' \subseteq Bits
         /\ portCopy' = (old \cup set) \ cleared
         /\ \A c \in Changes : c \in port \ port' => c \in portCopy' \cap maskOr
         /\ "Power" \in port' <=> "Power" \in portCopy'
         /\ "Enable" \in port' => "Power" \in port'
         /\ "Enable" \in port \ port' =>
              "Enable" \in portCopy' \cap maskOr \/ "Power" \notin port' \/ "Reset" \in port'
<1> DEFINE copy == (old \cup set) \ cleared
           written == copy \cap PortMask(maskOr)
<1>1. portCopy' = copy /\ port' = PortAfterWrite(port, written)
  BY DEF Modify
<1>2. copy \subseteq Bits /\ written \subseteq Bits
  OBVIOUS
<1>3. /\ "Power" \in written <=> "Power" \in copy
      /\ \A c \in Changes \cup {"Enable"} : c \in written => c \in copy \cap maskOr
  BY DEF PortMask, Plain, Changes
<1> HIDE DEF written, copy
<1>4. QED
  BY <1>1, <1>2, <1>3, WriteLeaves DEF copy

(* A request that clears or sets a feature of the port names one.          *)
LEMMA FeatureRequests ==
  ASSUME NEW r \in Requests, r.kind \in {"ClearFeature", "SetFeature"}
  PROVE  r = [kind |-> r.kind, feature |-> r.feature] /\ r.feature \in PortFeatures
  BY DEF Requests

(* What a step may do to the port: the action of PortUndisturbed.          *)
PortKept ==
  /\ \A c \in Changes : c \in port \ port' => Asked("ClearFeature", c)
  /\ "Power" \in port \ port' => Asked("ClearFeature", "Power")
  /\ "Enable" \in port \ port' =>
       \/ Asked("ClearFeature", "Enable") \/ Asked("ClearFeature", "Power")
       \/ "Reset" \in port' \/ "Connect" \notin port'

(* The one write or the first of two that a request makes.                 *)
LEMMA ClearingKeeps ==
  ASSUME port \subseteq Bits, "Enable" \in port => "Power" \in port,
         portCopy \subseteq Bits,
         NEW r \in Requests, r.kind = "ClearFeature", request' = r,
         ClearPortFeature(r.feature)
  PROVE  /\ port' \subseteq Bits /\ portCopy' \subseteq Bits
         /\ "Enable" \in port' => "Power" \in port'
         /\ Delayed(r) => ("Power" \in port' => "Power" \in portCopy')
         /\ PortKept
<1> DEFINE f == r.feature
<1>1. request' = [kind |-> "ClearFeature", feature |-> f] /\ f \in PortFeatures
  BY FeatureRequests
<1>2. \A g : g = f => Asked("ClearFeature", g)
  BY <1>1 DEF Asked
<1>3. ASSUME NEW set \in SUBSET Bits, NEW cleared, Modify(port, set, cleared, set \cup cleared),
             set \cap (Changes \cup {"Enable"}) \subseteq {f},
             "Power" \in cleared => f = "Power",
             cleared \cap Changes = {}, "Enable" \notin cleared
      PROVE  /\ port' \subseteq Bits /\ portCopy' \subseteq Bits
             /\ "Enable" \in port' => "Power" \in port'
             /\ "Power" \in port' => "Power" \in portCopy'
             /\ PortKept
  <2>1. /\ port' \subseteq Bits /\ portCopy' \subseteq Bits
        /\ portCopy' = (port \cup set) \ cleared
        /\ \A c \in Changes : c \in port \ port' => c \in portCopy' \cap (set \cup cleared)
        /\ "Power" \in port' <=> "Power" \in portCopy'
        /\ "Enable" \in port' => "Power" \in port'
        /\ "Enable" \in port \ port' =>
             "Enable" \in portCopy' \cap (set \cup cleared) \/ "Power" \notin port' \/ "Reset" \in port'
    BY <1>3, ModifyLeaves, ZenonT(30)
  <2>2. \A c \in Changes : c \in port \ port' => c = f
    BY <2>1, <1>3
  <2>3. "Power" \in port \ port' => f = "Power"
    BY <2>1, <1>3
  <2>4. "Enable" \in port \ port' => f = "Enable" \/ f = "Power" \/ "Reset" \in port'
    BY <2>1, <1>3
  <2>5. PortKept
    BY <2>2, <2>3, <2>4, <1>2 DEF PortKept
  <2>6. QED
    BY <2>1, <2>5
<1>4. CASE f = "Enable"
  <2>1. Modify(port, {"Enable"}, {}, {"Enable"} \cup {})
    BY <1>4 DEF ClearPortFeature
  <2>2. QED
    BY <2>1, <1>4, <1>3 DEF Bits, Changes
<1>5. CASE f = "Power"
  <2> DEFINE none == {}
             power == {"Power"}
  <2>1. Modify(port, none, power, power)
    BY <1>5 DEF ClearPortFeature, Changes
  <2>2. none \cup power = power
    OBVIOUS
  <2>3. Modify(port, none, power, none \cup power)
    BY <2>1, <2>2, Zenon
  <2>4. QED
    BY <2>3, <1>5, <1>3 DEF Bits, Changes
<1>6. CASE f \in Changes
  <2>1. Modify(port, {f}, {}, {f} \cup {})
    BY <1>6 DEF ClearPortFeature, Changes
  <2>2. QED
    BY <2>1, <1>6, <1>3 DEF Bits, Changes
<1>7. CASE f = "Suspend"
  <2>1. Modify(port, {"Resume"}, {}, {"Resume"} \cup {})
    BY <1>7 DEF ClearPortFeature, Changes
  <2>2. QED
    BY <2>1, <1>7, <1>3 DEF Bits, Changes
<1>8. CASE f \notin Changes \cup {"Enable", "Power", "Suspend"}
  <2>1. UNCHANGED <<port, portCopy>> /\ ~Delayed(r)
    BY <1>8 DEF ClearPortFeature, Delayed
  <2>2. QED
    BY <2>1 DEF PortKept
<1>9. QED
  BY <1>4, <1>5, <1>6, <1>7, <1>8

LEMMA SettingKeeps ==
  ASSUME port \subseteq Bits, "Enable" \in port => "Power" \in port,
         portCopy \subseteq Bits, NEW f, SetPortFeature(f)
  PROVE  /\ port' \subseteq Bits /\ portCopy' \subseteq Bits
         /\ "Enable" \in port' => "Power" \in port'
         /\ f = "Reset" => "Power" \in portCopy'
         /\ PortKept
<1>1. CASE f = "Reset"
  <2> DEFINE set == {"Reset", "Power"}
             cleared == {"Suspend"}
             maskOr == {"Power", "Reset", "Suspend"}
  <2>1. Modify(port, set, cleared, maskOr)
    BY <1>1 DEF SetPortFeature
  <2>2. /\ set \in SUBSET Bits /\ maskOr \cap Changes = {} /\ "Enable" \notin maskOr
        /\ "Power" \in (port \cup set) \ cleared
    BY DEF Bits, Changes
  <2> HIDE DEF set, cleared, maskOr
  <2>3. QED
    BY <2>1, <2>2, ModifyLeaves DEF PortKept
<1>2. CASE f = "Power"
  <2> DEFINE set == {"Power"}
             cleared == {}
             maskOr == {"Power"}
  <2>1. Modify(port, set, cleared, maskOr)
    BY <1>2 DEF SetPortFeature
  <2>2. /\ set \in SUBSET Bits /\ maskOr \cap Changes = {} /\ "Enable" \notin maskOr
        /\ "Power" \in (port \cup set) \ cleared
    BY DEF Bits, Changes
  <2> HIDE DEF set, cleared, maskOr
  <2>3. QED
    BY <1>2, <2>1, <2>2, ModifyLeaves DEF PortKept
<1>3. CASE f \notin {"Reset", "Power"}
  BY <1>3 DEF SetPortFeature, PortKept
<1>4. QED
  BY <1>1, <1>2, <1>3

(* The second write of a delayed request, from the copy of the first.      *)
LEMMA DelayKeeps ==
  ASSUME port \subseteq Bits, "Enable" \in port => "Power" \in port,
         portCopy \subseteq Bits, "Power" \in port => "Power" \in portCopy, AfterDelay
  PROVE  /\ port' \subseteq Bits /\ portCopy' \subseteq Bits
         /\ "Enable" \in port' => "Power" \in port'
         /\ PortKept
<1>1. PICK cleared, maskOr :
        /\ Modify(portCopy, {}, cleared, maskOr)
        /\ maskOr \cap Changes = {} /\ "Enable" \notin maskOr /\ "Power" \notin cleared
  <2>1. CASE request.kind = "SetFeature"
    <3>1. Modify(portCopy, {}, {"Reset"}, {"Power"})
      BY <2>1 DEF AfterDelay
    <3>2. {"Power"} \cap Changes = {} /\ "Enable" \notin {"Power"} /\ "Power" \notin {"Reset"}
      BY DEF Changes
    <3>3. QED
      BY <3>1, <3>2
  <2>2. CASE request.kind # "SetFeature"
    <3>1. Modify(portCopy, {}, {"Resume", "Suspend"}, {"Resume", "Suspend"})
      BY <2>2 DEF AfterDelay
    <3>2. /\ {"Resume", "Suspend"} \cap Changes = {} /\ "Enable" \notin {"Resume", "Suspend"}
          /\ "Power" \notin {"Resume", "Suspend"}
      BY DEF Changes
    <3>3. QED
      BY <3>1, <3>2
  <2>3. QED
    BY <2>1, <2>2
<1>2. /\ port' \subseteq Bits /\ portCopy' \subseteq Bits
      /\ portCopy' = (portCopy \cup {}) \ cleared
      /\ \A c \in Changes : c \in port \ port' => c \in portCopy' \cap maskOr
      /\ "Power" \in port' <=> "Power" \in portCopy'
      /\ "Enable" \in port' => "Power" \in port'
      /\ "Enable" \in port \ port' =>
           "Enable" \in portCopy' \cap maskOr \/ "Power" \notin port' \/ "Reset" \in port'
  BY <1>1, ModifyLeaves
<1>3. "Power" \in port => "Power" \in port'
  BY <1>1, <1>2
<1>4. QED
  BY <1>1, <1>2, <1>3 DEF PortKept

(* An answer is within the longest descriptor's length.                    *)
LEMMA AnswerKnown ==
  ASSUME NEW r \in Requests, hubTransfer \in 0 .. 90, Answered(r)
  PROVE  hubError' \in {"NoError", "Stall", "Processing"} /\ hubTransfer' \in 0 .. 90
<1>1. ReplyLength(r) \in 0 .. 90
  <2>1. CASE r.kind = "GetDescriptor"
    <3>1. r.length \in Nat
      BY <2>1, RootHubAssumption DEF Requests
    <3>2. DescriptorLength(r.descriptor) \in 0 .. 90
      BY DEF DescriptorLength
    <3>3. ReplyLength(r) = Least(DescriptorLength(r.descriptor), r.length)
      BY <2>1 DEF ReplyLength
    <3>4. QED
      BY <3>1, <3>2, <3>3 DEF Least
  <2>2. CASE r.kind # "GetDescriptor"
    BY <2>2 DEF ReplyLength
  <2>3. QED
    BY <2>1, <2>2
<1>2. QED
  BY <1>1 DEF Answered

-----------------------------------------------------------------------------
(* Every step keeps HubInv, and does to the port what PortKept allows.     *)
LEMMA HubInitially == Init => HubInv
<1> SUFFICES ASSUME Init PROVE HubInv
  OBVIOUS
<1>1. NoPortRequest \in Requests
  BY DEF NoPortRequest, Requests, Kinds
<1>2. RootHubTypeOK
  <2>1. port \subseteq Bits /\ portCopy \subseteq Bits
    BY DEF Init, RootHubInit, Bits, Changes
  <2>2. serving \in BOOLEAN /\ request \in Requests
    BY <1>1 DEF Init, RootHubInit
  <2>3. /\ rootHubNumber \in Addresses \cup {0} /\ portEvents \in 0 .. MaxPortEvents
        /\ hubError \in {"NoError", "Stall", "Processing"} /\ hubTransfer \in 0 .. 90
    BY RootHubAssumption DEF Init, RootHubInit
  <2>4. QED
    BY <2>1, <2>2, <2>3, Zenon DEF RootHubTypeOK
<1>3. PortInv
  BY DEF Init, RootHubInit, PortInv
<1>4. QED
  BY <1>2, <1>3 DEF HubInv

LEMMA StartKeepsHub ==
  ASSUME HubInv, Start
  PROVE  HubInv' /\ (PortKept \/ UNCHANGED rootHubVars)
<1> USE DEF HubInv
<1>1. UNCHANGED <<rootHubNumber, request, serving, hubError, hubTransfer, portEvents>>
  BY DEF Start
<1>2. ~serving
  BY DEF Start, PortInv, HcdInitialize, AllocateBuffer, ResetCore, FlushFifos, HaltChannels,
         PowerPort, EndPortReset
<1>3. CASE UNCHANGED <<port, portCopy>> /\ phase' # "port_reset"
  BY <1>1, <1>2, <1>3 DEF RootHubTypeOK, PortInv, rootHubVars
<1>4. CASE PowerPort
  <2> DEFINE set == {"Power", "Reset"}
             none == {}
  <2>1. Modify(port, set, none, set)
    BY <1>4 DEF PowerPort
  <2>2. /\ set \in SUBSET Bits /\ set \cap Changes = {} /\ "Enable" \notin set
        /\ "Power" \in (port \cup set) \ none
    BY DEF Bits, Changes
  <2> HIDE DEF set, none
  <2>3. /\ port' \subseteq Bits /\ portCopy' \subseteq Bits
        /\ "Enable" \in port' => "Power" \in port'
        /\ "Power" \in portCopy' /\ PortKept
    BY <2>1, <2>2, ModifyLeaves DEF PortKept, RootHubTypeOK
  <2>4. QED
    BY <2>3, <1>1, <1>2 DEF RootHubTypeOK, PortInv
<1>5. CASE EndPortReset
  <2> DEFINE written == (portCopy \ {"Reset"}) \cap PortMask({"Reset"})
  <2>1. /\ phase = "port_reset" /\ phase' = "running"
        /\ port' = PortAfterWrite(port, written) /\ portCopy' = port'
    BY <1>5 DEF EndPortReset
  <2>2. /\ written \in SUBSET Bits /\ written \cap Changes = {} /\ "Enable" \notin written
        /\ "Power" \in portCopy => "Power" \in written
    BY DEF PortMask, Plain, Bits, Changes, RootHubTypeOK
  <2> HIDE DEF written
  <2>3. /\ port' \subseteq Bits
        /\ \A c \in Changes : c \in port \ port' => c \in written
        /\ "Power" \in port' <=> "Power" \in written
        /\ "Enable" \in port' => "Power" \in port'
        /\ "Enable" \in port \ port' =>
             "Enable" \in written \/ "Power" \notin port' \/ "Reset" \in port'
    BY <2>1, <2>2, WriteLeaves DEF RootHubTypeOK
  <2>4. "Power" \in port => "Power" \in port'
    BY <2>1, <2>2, <2>3 DEF PortInv
  <2>5. PortKept
    BY <2>2, <2>3, <2>4 DEF PortKept, PortInv
  <2>6. QED
    BY <2>1, <2>3, <2>5, <1>1, <1>2 DEF RootHubTypeOK, PortInv
<1>6. QED
  BY <1>3, <1>4, <1>5 DEF Start, HcdInitialize, AllocateBuffer, ResetCore, FlushFifos,
                          HaltChannels, Abandon

LEMMA HubStepKeepsHub ==
  ASSUME HubInv, HubStep
  PROVE  HubInv' /\ (PortKept \/ UNCHANGED rootHubVars)
<1> USE DEF HubInv
<1>1. phase = "running" /\ phase' = "running"
  BY DEF HubStep, startVars
<1>2. ASSUME NEW r \in Requests, ProcessRootHubMessage(r)
      PROVE  HubInv' /\ PortKept
  <2>1. /\ request' = IF r.kind \in {"ClearFeature", "SetFeature"} THEN r ELSE NoPortRequest
        /\ serving' = Delayed(r) /\ UNCHANGED portEvents
        /\ rootHubNumber' = IF r.kind = "SetAddress" THEN r.value ELSE rootHubNumber
    BY <1>2 DEF ProcessRootHubMessage
  <2>2. request' \in Requests
    BY <2>1 DEF NoPortRequest, Requests, Kinds
  <2>3. rootHubNumber' \in Addresses \cup {0}
    BY <2>1 DEF RootHubTypeOK, Requests
  <2>4. hubError' \in {"NoError", "Stall", "Processing"} /\ hubTransfer' \in 0 .. 90
    <3>1. CASE Delayed(r)
      BY <3>1, <1>2 DEF ProcessRootHubMessage, RootHubTypeOK
    <3>2. CASE ~Delayed(r)
      <4>1. Answered(r)
        BY <3>2, <1>2 DEF ProcessRootHubMessage
      <4>2. QED
        BY <4>1, AnswerKnown DEF RootHubTypeOK
    <3>3. QED
      BY <3>1, <3>2
  <2>5. Delayed(r) => request' = r
    BY <2>1 DEF Delayed
  <2>6. /\ port' \subseteq Bits /\ portCopy' \subseteq Bits
        /\ "Enable" \in port' => "Power" \in port'
        /\ Delayed(r) => ("Power" \in port' => "Power" \in portCopy')
        /\ PortKept
    <3>1. CASE r.kind = "ClearFeature"
      <4>1. ClearPortFeature(r.feature)
        BY <3>1, <1>2 DEF ProcessRootHubMessage
      <4>2. request' = r
        BY <3>1, <2>1
      <4>3. QED
        BY <3>1, <4>1, <4>2, ClearingKeeps DEF RootHubTypeOK, PortInv
    <3>2. CASE r.kind = "SetFeature"
      <4>1. SetPortFeature(r.feature)
        BY <3>2, <1>2 DEF ProcessRootHubMessage
      <4>2. Delayed(r) => r.feature = "Reset"
        BY <3>2 DEF Delayed
      <4>3. QED
        BY <4>1, <4>2, SettingKeeps DEF RootHubTypeOK, PortInv
    <3>3. CASE r.kind \notin {"ClearFeature", "SetFeature"}
      <4>1. UNCHANGED port /\ portCopy' \in {port, portCopy}
        BY <3>3, <1>2 DEF ProcessRootHubMessage
      <4>2. ~Delayed(r)
        BY <3>3 DEF Delayed
      <4>3. QED
        BY <4>1, <4>2 DEF PortKept, RootHubTypeOK, PortInv
    <3>4. QED
      BY <3>1, <3>2, <3>3
  <2>7. serving' \in BOOLEAN
    BY <2>1 DEF Delayed
  <2>8. RootHubTypeOK'
    BY <2>1, <2>2, <2>3, <2>4, <2>6, <2>7, Zenon DEF RootHubTypeOK
  <2>9. PortInv'
    <3>1. serving' => Delayed(r)
      BY <2>1, Zenon
    <3>2. serving' => Delayed(request)'
      BY <3>1, <2>5 DEF Delayed
    <3>3. QED
      BY <3>1, <3>2, <2>6, <1>1 DEF PortInv
  <2>10. QED
    BY <2>6, <2>8, <2>9
<1>3. ASSUME FinishRootHubMessage
      PROVE  HubInv' /\ PortKept
  <2>1. /\ serving /\ serving' = FALSE /\ AfterDelay /\ Answered(request)
        /\ UNCHANGED <<rootHubNumber, request, portEvents>>
    BY <1>3 DEF FinishRootHubMessage
  <2>2. /\ port' \subseteq Bits /\ portCopy' \subseteq Bits
        /\ "Enable" \in port' => "Power" \in port'
        /\ PortKept
    BY <2>1, DelayKeeps DEF RootHubTypeOK, PortInv
  <2>3. hubError' \in {"NoError", "Stall", "Processing"} /\ hubTransfer' \in 0 .. 90
    BY <2>1, AnswerKnown DEF RootHubTypeOK
  <2>4. RootHubTypeOK'
    BY <2>1, <2>2, <2>3 DEF RootHubTypeOK
  <2>5. PortInv'
    BY <2>1, <2>2, <1>1 DEF PortInv
  <2>6. QED
    BY <2>2, <2>4, <2>5
<1>4. QED
  BY <1>2, <1>3 DEF HubStep

LEMMA EnvironmentKeepsHub ==
  ASSUME HubInv, Environment
  PROVE  HubInv' /\ (PortKept \/ UNCHANGED rootHubVars)
<1> USE DEF HubInv
<1>1. /\ UNCHANGED <<portCopy, rootHubNumber, request, serving, hubError, hubTransfer>>
      /\ UNCHANGED phase /\ portEvents < MaxPortEvents /\ portEvents' = portEvents + 1
  BY DEF Environment, PortEvent, startVars
<1>2. /\ port' \subseteq Bits
      /\ "Power" \in port' <=> "Power" \in port
      /\ "Enable" \in port' => "Enable" \in port
      /\ PortKept
  BY DEF Environment, PortEvent, PortKept, RootHubTypeOK, Bits, Changes
<1>3. RootHubTypeOK'
  <2>1. portEvents' \in 0 .. MaxPortEvents
    BY <1>1, RootHubAssumption DEF RootHubTypeOK
  <2>2. QED
    BY <1>1, <1>2, <2>1 DEF RootHubTypeOK
<1>4. PortInv'
  BY <1>1, <1>2 DEF PortInv, Delayed
<1>5. QED
  BY <1>2, <1>3, <1>4

LEMMA RestKeepsHub ==
  ASSUME HubInv, UNCHANGED <<rootHubVars, startVars>>
  PROVE  HubInv'
  BY DEF HubInv, RootHubTypeOK, PortInv, Delayed, rootHubVars, startVars

LEMMA NextKeepsHub ==
  ASSUME HubInv, [Next]_vars
  PROVE  HubInv' /\ (PortKept \/ UNCHANGED rootHubVars)
<1>1. CASE Start
  BY <1>1, StartKeepsHub
<1>2. CASE HubStep
  BY <1>2, HubStepKeepsHub
<1>3. CASE Environment
  BY <1>3, EnvironmentKeepsHub
<1>4. CASE (\E m \in Messages : Submit(m)) \/ Handle \/ WireStep \/ UNCHANGED vars
  <2>1. UNCHANGED <<rootHubVars, startVars>>
    BY <1>4 DEF Submit, Handle, WireStep, PacketMoves, PacketRepeated, PacketLost, ChannelHalts,
                Quiet, vars
  <2>2. QED
    BY <2>1, RestKeepsHub
<1>5. QED
  BY <1>1, <1>2, <1>3, <1>4 DEF Next

(* Whatever the root hub is asked, and whatever happens at the port in the *)
(* middle of it, a read, a change and a write of Host->Port disturb        *)
(* nothing else in it.                                                     *)
THEOREM PortIsUndisturbed == Spec => PortUndisturbed
<1>1. HubInv /\ [Next]_vars => HubInv'
  BY NextKeepsHub
<1>2. HubInv /\ [Next]_vars => [PortKept]_rootHubVars
  BY NextKeepsHub
<1>3. QED
  BY <1>1, <1>2, HubInitially, PTL DEF Spec, PortUndisturbed, PortKept
-----------------------------------------------------------------------------
(* Counting by twos, and the sequence of the first n packets.              *)
LEMMA Parity ==
  /\ Odd(0) = 0
  /\ \A n \in Nat : Odd(n) \in {0, 1} /\ Odd(n + 1) = 1 - Odd(n)
  BY DEF Odd

LEMMA CountedNothing == <<>> = Counted(Len(<<>>)) /\ <<>> = Counted(0)
  BY DEF Counted

LEMMA CountedOne ==
  ASSUME NEW s \in Seq(Nat), s = Counted(Len(s))
  PROVE  LET t == Append(s, Len(s) + 1) IN
           t \in Seq(Nat) /\ Len(t) = Len(s) + 1 /\ t = Counted(Len(t))
<1> DEFINE t == Append(s, Len(s) + 1)
           n == Len(s)
<1>1. n \in Nat
  OBVIOUS
<1>2. t \in Seq(Nat) /\ Len(t) = n + 1
  BY <1>1
<1>3. \A i \in 1 .. n + 1 : t[i] = i
  <2>1. \A i \in 1 .. n : s[i] = i
    BY DEF Counted
  <2>2. \A i \in 1 .. n : t[i] = s[i]
    BY <1>1
  <2>3. t[n + 1] = n + 1
    BY <1>1
  <2> HIDE DEF t, n
  <2>4. QED
    BY <2>1, <2>2, <2>3, <1>1
<1>4. t = [i \in 1 .. n + 1 |-> t[i]]
  BY <1>2
<1> HIDE DEF t, n
<1>5. t = [i \in 1 .. n + 1 |-> i]
  BY <1>3, <1>4
<1>6. QED
  BY <1>2, <1>5 DEF t, n, Counted

(* The direction of the data is the message's.                             *)
LEMMA Directions ==
  /\ Incoming <=> stage \in {"data", "poll"} /\ message.dir = "In"
  /\ Outgoing <=> stage = "data" /\ message.dir # "In"
  BY DEF Incoming, Outgoing, StageIn

-----------------------------------------------------------------------------
(* A call that returns without success keeps CallInv whatever was moved.   *)
LEMMA ReturnKeeps ==
  ASSUME CallInv, NEW result \in {"timeout", "error", "nack", "nyet"}, Return(result),
         error' \in Errors
  PROVE  CallInv'
<1> USE DEF CallInv
<1>1. /\ stage' = "idle" /\ operation' = "none" /\ event' = "none" /\ outcome' = result
      /\ UNCHANGED <<message, tries, globalTries, actualTries, splitTries, packets,
                     channel, buffer, device, lastTransfer>>
  BY DEF Return
<1>2. MessageKnown' /\ DeviceKnown' /\ ChannelKnown'
  BY <1>1 DEF MessageKnown, DeviceKnown, ChannelKnown
<1>3. CallKnown'
  BY <1>1 DEF CallKnown, Events
<1>4. CallSound' /\ DataSound' /\ GoodIsWhole'
  BY <1>1 DEF CallSound, DataSound, SetupSound, InSound, OutSound, StatusSound, GoodIsWhole
<1>5. QED
  BY <1>2, <1>3, <1>4

LEMMA FailKeeps ==
  ASSUME CallInv, NEW e \in Errors \ {"NoError"}, Fail(e)
  PROVE  CallInv'
<1>1. Verdict(e) \in {"timeout", "error", "nack", "nyet"} /\ error' \in Errors
  BY DEF Verdict, Fail
<1>2. QED
  BY <1>1, ReturnKeeps DEF Fail

LEMMA ErrorOfIs ==
  ASSUME CallInv, stage # "idle"
  PROVE  ErrorOf(event) \in Errors \ {"NoError"}
  BY DEF CallInv, CallKnown, CallSound, ErrorOf, Errors

(* A stage that begins, or begins again, with nothing moved yet.           *)
LEMMA BeginKeeps ==
  ASSUME CallInv, NEW s \in {"setup", "data", "status", "poll"},
         PrepareChannel(s), stage' = s, tries' \in 1 .. 3,
         error' \in Errors \ {"NoError"}, outcome = "none",
         UNCHANGED <<message, outcome, buffer, device>>,
         s = "poll" <=> message.poll,
         s = "data" => message.length > 0,
         s = "data" /\ message.dir = "In" =>
           /\ device.toggle = 1 - Odd(device.at)
           /\ device.at <= message.length /\ device.at <= device.has + 1,
         s = "data" /\ message.dir = "Out" =>
           /\ device.got = Counted(Len(device.got))
           /\ device.toggle = 1 - Odd(Len(device.got))
           /\ Len(device.got) \in {0, 1},
         s = "status" =>
           /\ message.dir = "In" => lastTransfer' = device.has /\ Arrived(device.has)
           /\ message.dir = "Out" => device.got = Counted(message.length)
  PROVE  CallInv'
<1> USE DEF CallInv
<1> DEFINE n == StagePackets(s)
<1>1. n \in Nat /\ n > 0 /\ (s = "data" => n = message.length)
  BY DEF StagePackets, MessageKnown, DeviceKnown
<1>2. /\ channel' = [pid |-> StagePid(s), left |-> n, at |-> 0] /\ packets' = n
      /\ globalTries' = 0 /\ actualTries' = 0 /\ splitTries' = 0
      /\ operation' = IF message.split THEN "start" ELSE "whole"
      /\ event' = "none"
  BY DEF PrepareChannel, FirstRound, Transmit
<1> HIDE DEF n
<1>3. /\ channel'.pid = StagePid(s) /\ channel'.left = n /\ channel'.at = 0
      /\ channel' \in ChannelType
  BY <1>1, <1>2 DEF ChannelType, StagePid
<1>4. MessageKnown' /\ DeviceKnown'
  BY DEF MessageKnown, DeviceKnown
<1>5. ChannelKnown'
  BY <1>1, <1>2, <1>3 DEF ChannelKnown
<1>6. CallKnown'
  BY <1>2 DEF CallKnown, Events
<1>7. CallSound'
  BY <1>1, <1>2, <1>3 DEF CallSound
<1>8. s = "data" => Passed' = 0 /\ Toggle' = 1 - Odd(0)
  BY <1>1, <1>3, Parity DEF Passed, Toggle, StagePid, MessageKnown
<1>9. SetupSound'
  BY <1>1, <1>3 DEF SetupSound
<1>10. InSound'
  <2>1. SUFFICES ASSUME s = "data", message.dir = "In"
                 PROVE  /\ channel'.left <= message.length
                        /\ Toggle' = 1 - Odd(Passed')
                        /\ device.toggle = 1 - Odd(device.at)
                        /\ device.at <= message.length /\ device.at <= device.has + 1
                        /\ \/ device.at > Passed'
                           \/ /\ device.at \in {Passed', Passed' - 1}
                              /\ channel'.at = Least(Passed', device.has)
                              /\ Arrived(channel.at)'
    BY DEF InSound
  <2>2. Passed' = 0 /\ Toggle' = 1 - Odd(0) /\ channel'.left = message.length
    BY <2>1, <1>1, <1>3, <1>8
  <2>3. channel'.at = Least(Passed', device.has) /\ Arrived(channel.at)'
    BY <2>1, <2>2, <1>3 DEF Least, Arrived, DeviceKnown
  <2>4. device.at > Passed' \/ device.at \in {Passed', Passed' - 1}
    BY <2>2 DEF DeviceKnown
  <2>5. QED
    BY <2>1, <2>2, <2>3, <2>4 DEF MessageKnown
<1>11. OutSound'
  <2>1. SUFFICES ASSUME s = "data", message.dir = "Out"
                 PROVE  /\ channel'.left <= message.length
                        /\ Toggle' = 1 - Odd(Passed')
                        /\ channel'.at = Passed'
                        /\ device.got = Counted(Len(device.got))
                        /\ device.toggle = 1 - Odd(Len(device.got))
                        /\ Len(device.got) \in {Passed', Passed' + 1}
                        /\ channel'.left = 0 => Len(device.got) = Passed'
    BY DEF OutSound
  <2>2. Passed' = 0 /\ Toggle' = 1 - Odd(0) /\ channel'.left = message.length
    BY <2>1, <1>1, <1>3, <1>8
  <2>3. QED
    BY <2>1, <2>2, <1>1, <1>3 DEF MessageKnown
<1>12. StatusSound'
  <2>1. CASE s = "status"
    BY <2>1, <1>1, <1>3 DEF StatusSound, Arrived
  <2>2. CASE s # "status"
    BY <2>2 DEF StatusSound
  <2>3. QED
    BY <2>1, <2>2
<1>13. GoodIsWhole'
  BY DEF GoodIsWhole
<1>14. QED
  BY <1>4, <1>5, <1>6, <1>7, <1>9, <1>10, <1>11, <1>12, <1>13 DEF DataSound

-----------------------------------------------------------------------------
(* The driver's steps.                                                     *)
LEMMA SubmitKeeps ==
  ASSUME CallInv, NEW m \in Messages, Submit(m)
  PROVE  CallInv'
<1>1. /\ message' = m /\ m.length \in Nat /\ m.dir \in {"In", "Out"}
      /\ m.poll => m.dir = "In"
      /\ ~m.split /\ m.dir = "Out" => m.length <= 1
  BY MessagesAssumption DEF Submit
<1>2. /\ device'.toggle \in {0, 1} /\ device'.has \in Nat /\ device'.at = 0
      /\ device'.got = <<>> /\ DOMAIN device' = {"toggle", "has", "at", "got", "done"}
      /\ m.dir = "In" => device'.has \in 1 .. m.length
  BY <1>1 DEF Submit
<1>3. /\ m.poll => m.length > 0
      /\ m.poll \in BOOLEAN /\ m.split \in BOOLEAN
  <2>1. m.poll \in BOOLEAN /\ m.split \in BOOLEAN
    BY MessagesAssumption
  <2>2. m.poll => m.length > 0
    BY <1>1, <1>2
  <2>3. QED
    BY <2>1, <2>2
<1> DEFINE n == IF m.poll THEN m.length ELSE 1
           s == IF m.poll THEN "poll" ELSE "setup"
<1>4. n \in Nat /\ n > 0
  BY <1>1, <1>3
<1>5. s \in {"poll", "setup"} /\ (s = "poll" <=> m.poll)
  OBVIOUS
<1>6. /\ stage' = s /\ packets' = n /\ channel'.left = n /\ channel' \in ChannelType
      /\ tries' = 1 /\ globalTries' = 0 /\ actualTries' = 0 /\ splitTries' = 0
      /\ error' = "Processing" /\ outcome' = "none" /\ event' = "none"
      /\ operation' = IF m.split THEN "start" ELSE "whole"
      /\ buffer' = [i \in 1 .. m.length |-> 0]
  BY <1>4 DEF Submit, FirstRound, Transmit, ChannelType
<1> HIDE DEF n, s
<1>7. MessageKnown' /\ DeviceKnown'
  <2>1. MessageKnown'
    BY <1>1 DEF MessageKnown
  <2>2. <<>> \in Seq(Nat)
    OBVIOUS
  <2>3. DeviceKnown'
    BY <1>1, <1>2, <2>2 DEF DeviceKnown
  <2>4. QED
    BY <2>1, <2>3
<1>8. CallKnown'
  BY <1>5, <1>6 DEF CallKnown, Events, Errors
<1>9. ChannelKnown'
  <2>1. buffer' \in [1 .. m.length -> Nat]
    BY <1>6
  <2>2. QED
    BY <2>1, <1>1, <1>4, <1>6 DEF ChannelKnown
<1>10. CallSound'
  BY <1>1, <1>4, <1>5, <1>6 DEF CallSound
<1>11. DataSound' /\ GoodIsWhole'
  BY <1>4, <1>5, <1>6 DEF DataSound, SetupSound, InSound, OutSound, StatusSound, GoodIsWhole
<1>12. QED
  BY <1>7, <1>8, <1>9, <1>10, <1>11 DEF CallInv

(* The last stage is over.                                                 *)
LEMMA DoneKeeps ==
  ASSUME CallInv,
         \/ stage = "status" /\ channel.left = 0 /\ Done(lastTransfer)
         \/ message.poll /\ Done(channel.at)
  PROVE  CallInv'
<1> USE DEF CallInv
<1>1. /\ stage' = "idle" /\ operation' = "none" /\ event' = "none" /\ outcome' = "ok"
      /\ error' = "NoError"
      /\ UNCHANGED <<message, tries, globalTries, actualTries, splitTries, packets,
                     channel, buffer, device>>
  BY DEF Done
<1>2. MessageKnown' /\ DeviceKnown' /\ ChannelKnown'
  BY <1>1 DEF MessageKnown, DeviceKnown, ChannelKnown
<1>3. CallKnown' /\ CallSound'
  BY <1>1 DEF CallKnown, CallSound, Events, Errors
<1>4. DataSound'
  BY <1>1 DEF DataSound, SetupSound, InSound, OutSound, StatusSound
<1>5. GoodIsWhole'
  <2>1. SUFFICES ASSUME ~message.poll
                 PROVE  /\ device.done
                        /\ message.dir = "In" => /\ lastTransfer' = device.has
                                                 /\ \A i \in 1 .. lastTransfer' : buffer[i] = i
                        /\ message.dir = "Out" => device.got = [i \in 1 .. message.length |-> i]
    BY <1>1 DEF GoodIsWhole
  <2>2. stage = "status" /\ channel.left = 0 /\ lastTransfer' = lastTransfer
    BY <2>1 DEF Done
  <2>3. QED
    BY <2>2 DEF DataSound, StatusSound, Arrived, Counted
<1>6. QED
  BY <1>2, <1>3, <1>4, <1>5

LEMMA StageDoneKeeps ==
  ASSUME CallInv, stage # "idle", channel.left = 0, StageDone
  PROVE  CallInv'
<1>0. DeviceKnown /\ MessageKnown /\ DataSound
  BY DEF CallInv
<1>1. /\ outcome = "none" /\ error \in Errors \ {"NoError"}
      /\ (stage = "poll" <=> message.poll)
      /\ stage \in {"setup", "data", "status", "poll"}
  BY DEF CallInv, CallKnown, CallSound
<1>2. CASE stage = "setup"
  <2> DEFINE s == IF message.length = 0 THEN "status" ELSE "data"
  <2>1. NextStage(s) /\ UNCHANGED <<error, lastTransfer>>
    BY <1>2 DEF StageDone
  <2>2. device.toggle = 1 /\ device.at = 0 /\ device.got = <<>>
    BY <1>0, <1>2 DEF DataSound, SetupSound
  <2>3. /\ PrepareChannel(s) /\ stage' = s /\ tries' = 1
        /\ UNCHANGED <<message, outcome, buffer, device>>
    BY <2>1 DEF NextStage
  <2>4. s \in {"setup", "data", "status", "poll"} /\ s # "poll"
    OBVIOUS
  <2>5. s = "data" => message.length > 0
    BY <1>0 DEF MessageKnown
  <2>6. s = "data" /\ message.dir = "In" =>
           /\ device.toggle = 1 - Odd(device.at)
           /\ device.at <= message.length /\ device.at <= device.has + 1
    BY <1>0, <2>2, Parity DEF MessageKnown, DeviceKnown
  <2>7. s = "data" /\ message.dir = "Out" =>
           /\ device.got = Counted(Len(device.got))
           /\ device.toggle = 1 - Odd(Len(device.got))
           /\ Len(device.got) \in {0, 1}
    BY <2>2, Parity, CountedNothing
  <2>8. s = "status" =>
           /\ message.dir = "In" => lastTransfer' = device.has /\ Arrived(device.has)
           /\ message.dir = "Out" => device.got = Counted(message.length)
    BY <1>0, <2>2, CountedNothing DEF DeviceKnown, MessageKnown
  <2> HIDE DEF s
  <2>9. tries' \in 1 .. 3 /\ error' \in Errors \ {"NoError"}
    BY <2>1, <2>3, <1>1
  <2>10. s = "poll" <=> message.poll
    BY <2>4, <1>1, <1>2
  <2>11. QED
    BY <2>3, <2>4, <2>5, <2>6, <2>7, <2>8, <2>9, <2>10, <1>1, BeginKeeps
<1>3. CASE stage = "data"
  <2>1. /\ NextStage("status") /\ UNCHANGED error
        /\ lastTransfer' = IF message.dir = "In" THEN channel.at ELSE message.length
    BY <1>3 DEF StageDone
  <2>2. /\ PrepareChannel("status") /\ stage' = "status" /\ tries' = 1
        /\ UNCHANGED <<message, outcome, buffer, device>>
    BY <2>1 DEF NextStage
  <2>3. Passed = message.length
    BY <1>0 DEF Passed, MessageKnown
  <2>4. message.dir = "In" => lastTransfer' = device.has /\ Arrived(device.has)
    <3>1. ASSUME message.dir = "In"
          PROVE  channel.at = device.has /\ Arrived(channel.at)
      <4>1. /\ device.at <= message.length
            /\ \/ device.at > Passed
               \/ channel.at = Least(Passed, device.has) /\ Arrived(channel.at)
        BY <1>0, <3>1, <1>3 DEF DataSound, InSound
      <4>2. device.has \in 1 .. message.length
        BY <1>0, <3>1 DEF DeviceKnown
      <4>3. QED
        BY <1>0, <4>1, <4>2, <2>3 DEF Least, DeviceKnown, MessageKnown
    <3>2. QED
      BY <3>1, <2>1
  <2>5. message.dir = "Out" => device.got = Counted(message.length)
    BY <1>0, <2>3, <1>3 DEF DataSound, OutSound
  <2>6. tries' \in 1 .. 3 /\ error' \in Errors \ {"NoError"}
    BY <2>1, <2>2, <1>1
  <2>7. QED
    BY <2>2, <2>4, <2>5, <2>6, <1>1, <1>3, BeginKeeps
<1>4. CASE stage = "status"
  <2>1. Done(lastTransfer)
    BY <1>4 DEF StageDone
  <2>2. QED
    BY <2>1, <1>4, DoneKeeps
<1>5. CASE stage = "poll"
  <2>1. Done(channel.at)
    BY <1>5 DEF StageDone
  <2>2. message.poll
    BY <1>1, <1>5
  <2>3. QED
    BY <2>1, <2>2, DoneKeeps
<1>6. QED
  BY <1>1, <1>2, <1>3, <1>4, <1>5

(* Another round, another attempt, another question: the driver's counters *)
(* and the operation change, nothing that was moved does.                  *)
LEMMA GoOnKeeps ==
  ASSUME CallInv, stage # "idle",
         UNCHANGED <<message, stage, tries, error, lastTransfer, outcome, channel, buffer, device>>,
         globalTries' \in 0 .. 2, actualTries' \in 0 .. 9, splitTries' \in 0 .. 2,
         event' = "none", packets' = channel.left, channel.left > 0,
         operation' \in (IF message.split THEN {"start", "complete"} ELSE {"whole"})
  PROVE  CallInv'
<1> USE DEF CallInv
<1>1. MessageKnown' /\ DeviceKnown'
  BY DEF MessageKnown, DeviceKnown
<1>2. CallKnown'
  BY DEF CallKnown, Events
<1>3. ChannelKnown'
  BY DEF ChannelKnown, ChannelType
<1>4. CallSound'
  BY DEF CallSound, ChannelKnown, ChannelType
<1>5. DataSound'
  BY DEF DataSound, SetupSound, InSound, OutSound, StatusSound, Toggle, Passed, Arrived
<1>6. GoodIsWhole'
  BY DEF GoodIsWhole
<1>7. QED
  BY <1>1, <1>2, <1>3, <1>4, <1>5, <1>6

(* What a busy call is known to be.                                        *)
LEMMA BusyCall ==
  ASSUME CallInv, operation # "none"
  PROVE  /\ stage \in {"setup", "data", "status", "poll"}
         /\ operation \in (IF message.split THEN {"start", "complete"} ELSE {"whole"})
         /\ outcome = "none" /\ error \in Errors \ {"NoError"} /\ tries \in 1 .. 3
         /\ globalTries \in 0 .. 2 /\ actualTries \in 0 .. 9 /\ splitTries \in 0 .. 2
         /\ packets \in Nat /\ packets > 0 /\ channel.left \in Nat /\ channel.left <= packets
         /\ operation = "start" => channel.left = packets
         /\ operation = "complete" =>
              channel.left = IF event = "ack" THEN packets - 1 ELSE packets
         /\ operation = "whole" /\ event # "complete" => channel.left > 0
         /\ stage = "poll" <=> message.poll
         /\ stage = "data" => message.length > 0
  BY DEF CallInv, CallKnown, CallSound, ChannelKnown, ChannelType

LEMMA RoundDoneKeeps ==
  ASSUME CallInv, operation # "none", RoundDone
  PROVE  CallInv'
<1>1. CASE Stuck
  <2>1. Fail("ConnectionError")
    BY <1>1 DEF RoundDone
  <2>2. "ConnectionError" \in Errors \ {"NoError"}
    BY DEF Errors
  <2>3. QED
    BY <2>1, <2>2, FailKeeps
<1>2. CASE ~Stuck /\ channel.left > 0
  <2>1. /\ packets' = channel.left /\ FirstRound /\ Transmit(message.split)
        /\ UNCHANGED <<message, stage, tries, error, lastTransfer, outcome, channel, buffer, device>>
    BY <1>2 DEF RoundDone
  <2>2. /\ globalTries' \in 0 .. 2 /\ actualTries' \in 0 .. 9 /\ splitTries' \in 0 .. 2
        /\ event' = "none" /\ stage # "idle"
        /\ operation' \in (IF message.split THEN {"start", "complete"} ELSE {"whole"})
    BY <2>1, BusyCall DEF FirstRound, Transmit
  <2>3. QED
    BY <2>1, <2>2, <1>2, GoOnKeeps
<1>3. CASE ~Stuck /\ ~(channel.left > 0)
  <2>1. StageDone /\ channel.left = 0 /\ stage # "idle"
    BY <1>3, BusyCall DEF RoundDone
  <2>2. QED
    BY <2>1, StageDoneKeeps
<1>4. QED
  BY <1>1, <1>2, <1>3

(* A stage that is tried again from its first packet: the device may be    *)
(* anywhere in it, ahead of the host.                                      *)
LEMMA RetryStageKeeps ==
  ASSUME CallInv, operation = "whole", event \notin {"none", "complete"}, RetryStage
  PROVE  CallInv'
<1>1. error' \in Errors \ {"NoError"}
  BY BusyCall, ErrorOfIs DEF RetryStage
<1>2. CASE tries = 3
  <2>1. Fail(ErrorOf(event))
    BY <1>2 DEF RetryStage, Fail
  <2>2. ErrorOf(event) \in Errors \ {"NoError"}
    BY BusyCall, ErrorOfIs
  <2>3. QED
    BY <2>1, <2>2, FailKeeps
<1>3. CASE tries # 3
  <2>1. /\ tries' = tries + 1 /\ PrepareChannel(stage)
        /\ UNCHANGED <<message, stage, lastTransfer, outcome, buffer, device>>
    BY <1>3 DEF RetryStage
  <2>2. /\ stage \in {"setup", "data", "status", "poll"} /\ outcome = "none"
        /\ tries' \in 1 .. 3 /\ channel.left > 0 /\ ~message.split
        /\ (stage = "poll" <=> message.poll) /\ (stage = "data" => message.length > 0)
    BY <2>1, <1>3, BusyCall
  <2>3. stage = "data" /\ message.dir = "In" =>
           /\ device.toggle = 1 - Odd(device.at)
           /\ device.at <= message.length /\ device.at <= device.has + 1
    BY DEF CallInv, DataSound, InSound
  <2>4. stage = "data" /\ message.dir = "Out" =>
           /\ device.got = Counted(Len(device.got))
           /\ device.toggle = 1 - Odd(Len(device.got))
           /\ Len(device.got) \in {0, 1}
    <3>1. SUFFICES ASSUME stage = "data", message.dir = "Out"
                   PROVE  /\ device.got = Counted(Len(device.got))
                          /\ device.toggle = 1 - Odd(Len(device.got))
                          /\ Len(device.got) \in {0, 1}
      OBVIOUS
    <3>2. message.length = 1 /\ channel.left = 1
      BY <3>1, <2>2 DEF CallInv, DataSound, OutSound, MessageKnown, ChannelKnown, ChannelType
    <3>3. Passed = 0
      BY <3>2 DEF Passed
    <3>4. QED
      BY <3>1, <3>3 DEF CallInv, DataSound, OutSound
  <2>5. stage = "status" =>
           /\ message.dir = "In" => lastTransfer' = device.has /\ Arrived(device.has)
           /\ message.dir = "Out" => device.got = Counted(message.length)
    BY <2>1 DEF CallInv, DataSound, StatusSound
  <2>6. stage' = stage
    BY <2>1
  <2>7. QED
    BY <2>1, <2>2, <2>3, <2>4, <2>5, <2>6, <1>1, BeginKeeps
<1>4. QED
  BY <1>2, <1>3

LEMMA RepeatKeeps ==
  ASSUME CallInv, operation \in {"start", "complete"}, event \notin {"none", "ack"},
         NEW g \in 0 .. 3, Repeat(g)
  PROVE  CallInv'
<1>1. CASE MayRepeat(g)
  <2>1. /\ globalTries' = g /\ actualTries' = actualTries + 1 /\ splitTries' = 0
        /\ operation' = "start" /\ event' = "none"
        /\ UNCHANGED <<message, stage, tries, packets, error, lastTransfer, outcome,
                       channel, buffer, device>>
    BY <1>1 DEF Repeat, Transmit
  <2>2. /\ globalTries' \in 0 .. 2 /\ actualTries' \in 0 .. 9 /\ splitTries' \in 0 .. 2
        /\ stage # "idle" /\ packets' = channel.left /\ channel.left > 0
        /\ operation' \in (IF message.split THEN {"start", "complete"} ELSE {"whole"})
    BY <2>1, <1>1, BusyCall DEF MayRepeat
  <2>3. QED
    BY <2>1, <2>2, GoOnKeeps
<1>2. CASE ~MayRepeat(g) /\ message.poll /\ event = "nyet"
  <2>1. Return("nyet") /\ error' \in Errors
    BY <1>2, BusyCall DEF Repeat
  <2>2. QED
    BY <2>1, ReturnKeeps
<1>3. CASE ~MayRepeat(g) /\ ~(message.poll /\ event = "nyet")
  <2>1. Fail(ErrorOf(event))
    BY <1>3 DEF Repeat
  <2>2. ErrorOf(event) \in Errors \ {"NoError"}
    BY BusyCall, ErrorOfIs
  <2>3. QED
    BY <2>1, <2>2, FailKeeps
<1>4. QED
  BY <1>1, <1>2, <1>3

LEMMA AskAgainKeeps ==
  ASSUME CallInv, operation = "complete", event = "nyet", splitTries < 2, AskAgain
  PROVE  CallInv'
<1>1. /\ splitTries' = splitTries + 1 /\ event' = "none"
      /\ UNCHANGED <<message, stage, tries, globalTries, actualTries, packets, error,
                     lastTransfer, outcome, channel, buffer, device, operation>>
  BY DEF AskAgain
<1>2. /\ globalTries' \in 0 .. 2 /\ actualTries' \in 0 .. 9 /\ splitTries' \in 0 .. 2
      /\ stage # "idle" /\ packets' = channel.left /\ channel.left > 0
      /\ operation' \in (IF message.split THEN {"start", "complete"} ELSE {"whole"})
  BY <1>1, BusyCall
<1>3. QED
  BY <1>1, <1>2, GoOnKeeps

LEMMA HandleKeeps ==
  ASSUME CallInv, Handle
  PROVE  CallInv'
<1>1. event # "none" /\ globalTries \in 0 .. 3 /\ globalTries + 1 \in 0 .. 3
  BY DEF Handle, CallInv, CallKnown
<1>2. "ConnectionError" \in Errors \ {"NoError"}
  BY DEF Errors
<1>3. ASSUME operation # "none" PROVE ErrorOf(event) \in Errors \ {"NoError"}
  BY <1>3, BusyCall, ErrorOfIs
<1>4. CASE HandleWhole
  <2>1. operation = "whole"
    BY <1>4 DEF HandleWhole
  <2>2. \/ event = "complete" /\ RoundDone
        \/ event = "never" /\ Fail("ConnectionError")
        \/ event \notin {"complete", "never"} /\ RetryStage
    BY <1>4 DEF HandleWhole
  <2>3. QED
    BY <2>1, <2>2, <1>1, <1>2, RoundDoneKeeps, FailKeeps, RetryStageKeeps
<1>5. CASE HandleStart
  <2>1. operation = "start"
    BY <1>5 DEF HandleStart
  <2>2. CASE event = "ack"
    <3>1. /\ operation' = "complete" /\ event' = "none" /\ splitTries' = 0
          /\ UNCHANGED <<message, stage, tries, globalTries, actualTries, packets, error,
                         lastTransfer, outcome, channel, buffer, device>>
      BY <1>5, <2>2 DEF HandleStart
    <3>2. /\ globalTries' \in 0 .. 2 /\ actualTries' \in 0 .. 9 /\ splitTries' \in 0 .. 2
          /\ stage # "idle" /\ packets' = channel.left /\ channel.left > 0
          /\ operation' \in (IF message.split THEN {"start", "complete"} ELSE {"whole"})
      BY <3>1, <2>1, BusyCall
    <3>3. QED
      BY <3>1, <3>2, GoOnKeeps
  <2>3. CASE event # "ack"
    <3>1. \/ event = "never" /\ Fail("ConnectionError")
          \/ Repeat(globalTries) \/ Repeat(globalTries + 1) \/ RoundDone
      BY <1>5, <2>3 DEF HandleStart
    <3>2. QED
      BY <3>1, <2>1, <2>3, <1>1, <1>2, FailKeeps, RepeatKeeps, RoundDoneKeeps
  <2>4. QED
    BY <2>2, <2>3
<1>6. CASE HandleComplete \/ HandlePollComplete
  <2>1. operation = "complete"
    BY <1>6 DEF HandleComplete, HandlePollComplete
  <2>2. \/ event = "nyet" /\ splitTries < 2 /\ AskAgain
        \/ event # "ack" /\ (Repeat(globalTries) \/ Repeat(globalTries + 1))
        \/ Return("nack") /\ UNCHANGED error
        \/ RoundDone
        \/ Fail("ConnectionError") \/ Fail(ErrorOf(event))
    BY <1>6 DEF HandleComplete, HandlePollComplete
  <2>3. CASE event = "nyet" /\ splitTries < 2 /\ AskAgain
    BY <2>1, <2>3, AskAgainKeeps
  <2>4. CASE event # "ack" /\ (Repeat(globalTries) \/ Repeat(globalTries + 1))
    BY <2>1, <2>4, <1>1, RepeatKeeps
  <2>5. CASE Return("nack") /\ UNCHANGED error
    <3>1. error' \in Errors
      BY <2>1, <2>5, BusyCall
    <3>2. QED
      BY <3>1, <2>5, ReturnKeeps
  <2>6. CASE RoundDone
    BY <2>1, <2>6, RoundDoneKeeps
  <2>7. CASE Fail("ConnectionError") \/ Fail(ErrorOf(event))
    BY <2>1, <2>7, <1>2, <1>3, FailKeeps
  <2>8. QED
    BY <2>2, <2>3, <2>4, <2>5, <2>6, <2>7
<1>7. QED
  BY <1>4, <1>5, <1>6 DEF Handle

-----------------------------------------------------------------------------
(* The wire.  What the device makes of an exchange it saw through.         *)
LEMMA DeviceMovesTo ==
  ASSUME CallInv, operation # "none", DeviceMoves
  PROVE  /\ device'.toggle \in {0, 1} /\ device'.has = device.has /\ device'.at \in Nat
         /\ device'.got \in Seq(Nat)
         /\ DOMAIN device' = {"toggle", "has", "at", "got", "done"}
         /\ stage = "setup" => device'.toggle = 1 /\ device'.at = 0 /\ device'.got = <<>>
         /\ stage = "status" => device'.done /\ device'.got = device.got
         /\ Incoming => /\ device'.toggle = 1 - device.toggle /\ device'.at = device.at + 1
                        /\ device'.got = device.got
         /\ Outgoing => IF Toggle # device.toggle THEN device' = device
                        ELSE /\ device'.toggle = 1 - device.toggle
                             /\ device'.got = Append(device.got, channel.at + 1)
<1> DEFINE dom == {"toggle", "has", "at", "got", "done"}
<1>1. /\ device.toggle \in {0, 1} /\ device.has \in Nat /\ device.at \in Nat
      /\ device.got \in Seq(Nat) /\ DOMAIN device = dom
      /\ channel.at \in Nat
  BY DEF CallInv, DeviceKnown, ChannelKnown, ChannelType
<1>2. stage \in {"setup", "data", "status", "poll"} /\ message.dir \in {"In", "Out"}
      /\ (stage = "poll" => message.dir = "In")
  BY BusyCall DEF CallInv, MessageKnown
<1>3. CASE stage = "setup"
  <2>1. device' = [device EXCEPT !.toggle = 1, !.at = 0, !.got = <<>>]
    <3>1. ~Incoming /\ ~Outgoing /\ stage # "status"
      BY <1>3, Directions
    <3>2. QED
      BY <3>1, <1>3 DEF DeviceMoves
  <2>2. /\ device'.toggle = 1 /\ device'.at = 0 /\ device'.got = <<>> /\ device'.has = device.has
        /\ DOMAIN device' = dom
    BY <2>1, <1>1
  <2>3. ~Incoming /\ ~Outgoing
    BY <1>3, Directions
  <2>4. <<>> \in Seq(Nat)
    OBVIOUS
  <2>5. QED
    BY <2>2, <2>3, <2>4, <1>1, <1>3
<1>4. CASE stage = "status"
  <2>1. device' = [device EXCEPT !.done = TRUE]
    <3>1. ~Incoming /\ ~Outgoing /\ stage # "setup"
      BY <1>4, Directions
    <3>2. QED
      BY <3>1, <1>4 DEF DeviceMoves
  <2>2. /\ device'.toggle = device.toggle /\ device'.at = device.at /\ device'.got = device.got
        /\ device'.has = device.has /\ DOMAIN device' = dom
    BY <2>1, <1>1
  <2>3. device'.done
    BY <2>1, <1>1, Zenon
  <2>4. ~Incoming /\ ~Outgoing
    BY <1>4, Directions
  <2>5. QED
    BY <2>2, <2>3, <2>4, <1>1, <1>4
<1>5. CASE Incoming
  <2>1. stage # "setup" /\ stage # "status" /\ ~Outgoing
    BY <1>5, Directions
  <2>2. device' = [device EXCEPT !.toggle = 1 - @, !.at = @ + 1]
    BY <2>1, <1>5 DEF DeviceMoves
  <2>3. /\ device'.toggle = 1 - device.toggle /\ device'.at = device.at + 1
        /\ device'.got = device.got /\ device'.has = device.has /\ DOMAIN device' = dom
    BY <2>2, <1>1
  <2>4. QED
    BY <2>1, <2>3, <1>1
<1>6. CASE Outgoing
  <2>1. stage # "setup" /\ stage # "status" /\ ~Incoming
    BY <1>6, Directions
  <2>2. device' = IF Toggle # device.toggle THEN device
                  ELSE [device EXCEPT !.toggle = 1 - @, !.got = Append(@, channel.at + 1)]
    BY <2>1, <1>6 DEF DeviceMoves
  <2>3. CASE Toggle # device.toggle
    BY <2>1, <2>2, <2>3, <1>1
  <2>4. CASE ~(Toggle # device.toggle)
    <3> DEFINE more == Append(device.got, channel.at + 1)
    <3>1. more \in Seq(Nat)
      BY <1>1
    <3>2. device' = [device EXCEPT !.toggle = 1 - device.toggle, !.got = more]
      BY <2>2, <2>4
    <3> HIDE DEF more
    <3>3. /\ device'.toggle = 1 - device.toggle /\ device'.at = device.at
          /\ device'.got = more /\ device'.has = device.has /\ DOMAIN device' = dom
      BY <3>2, <1>1
    <3>4. QED
      BY <2>1, <2>4, <3>1, <3>3, <1>1 DEF more
  <2>5. QED
    BY <2>3, <2>4
<1>7. QED
  BY <1>2, <1>3, <1>4, <1>5, <1>6, Directions

(* What everything on the wire leaves alone.                               *)
LEMMA QuietKeeps ==
  ASSUME CallInv, operation # "none", Quiet, event' \in Events,
         device' = device \/ DeviceMoves,
         channel' \in ChannelType, buffer' \in [1 .. message.length -> Nat]
  PROVE  MessageKnown' /\ DeviceKnown' /\ CallKnown' /\ ChannelKnown' /\ GoodIsWhole'
<1>1. UNCHANGED <<message, stage, tries, globalTries, actualTries, splitTries, packets,
                  error, lastTransfer, outcome, operation>>
  BY DEF Quiet, driverVars
<1>2. MessageKnown' /\ ChannelKnown'
  BY <1>1 DEF CallInv, MessageKnown, ChannelKnown
<1>3. DeviceKnown'
  BY <1>1, DeviceMovesTo DEF CallInv, DeviceKnown
<1>4. CallKnown'
  BY <1>1 DEF CallInv, CallKnown
<1>5. GoodIsWhole'
  BY <1>1, BusyCall DEF GoodIsWhole
<1>6. QED
  BY <1>2, <1>3, <1>4, <1>5

(* The host learns nothing new, the device may have moved on.              *)
LEMMA HostWaits ==
  ASSUME CallInv, operation # "none", event = "none", Quiet, event' \in Events,
         event' \in {"complete", "ack"} => operation = "start",
         device' = device \/ (Ready /\ DeviceMoves),
         UNCHANGED <<channel, buffer>>
  PROVE  CallInv'
<1>1. UNCHANGED <<message, stage, tries, globalTries, actualTries, splitTries, packets,
                  error, lastTransfer, outcome, operation>>
  BY DEF Quiet, driverVars
<1>2. MessageKnown' /\ DeviceKnown' /\ CallKnown' /\ ChannelKnown' /\ GoodIsWhole'
  BY QuietKeeps DEF CallInv, ChannelKnown
<1>3. CallSound' /\ channel.left > 0 /\ channel.left \in Nat
  <2>1. channel.left > 0 /\ channel.left \in Nat
    BY BusyCall
  <2>2. CallSound'
    BY <1>1, BusyCall DEF CallSound
  <2>3. QED
    BY <2>1, <2>2
<1>4. SetupSound'
  BY <1>1, <1>3 DEF SetupSound
<1>5. Passed' = Passed /\ Toggle' = Toggle
  BY <1>1 DEF Passed, Toggle
<1>6. Passed \in Int
  BY <1>3 DEF Passed, CallInv, MessageKnown
<1>7. InSound'
  <2>1. SUFFICES ASSUME stage = "data", message.dir = "In"
                 PROVE  /\ channel.left <= message.length
                        /\ Toggle = 1 - Odd(Passed)
                        /\ device'.toggle = 1 - Odd(device'.at)
                        /\ device'.at <= message.length /\ device'.at <= device'.has + 1
                        /\ \/ device'.at > Passed
                           \/ /\ device'.at \in {Passed, Passed - 1}
                              /\ channel.at = Least(Passed, device'.has)
                              /\ Arrived(channel.at)
    BY <1>1, <1>5 DEF InSound, Arrived
  <2>2. /\ channel.left <= message.length
        /\ Toggle = 1 - Odd(Passed)
        /\ device.toggle = 1 - Odd(device.at)
        /\ device.at <= message.length /\ device.at <= device.has + 1
        /\ \/ device.at > Passed
           \/ /\ device.at \in {Passed, Passed - 1}
              /\ channel.at = Least(Passed, device.has)
              /\ Arrived(channel.at)
    BY <2>1 DEF CallInv, DataSound, InSound
  <2>3. CASE device' = device
    BY <2>2, <2>3
  <2>4. CASE Ready /\ DeviceMoves
    <3>1. Incoming
      BY <2>1, Directions
    <3>2. /\ device'.toggle = 1 - device.toggle /\ device'.at = device.at + 1
          /\ device'.has = device.has
      BY <2>4, <3>1, DeviceMovesTo
    <3>3. /\ device.at \in Nat /\ device.has \in Nat /\ message.length \in Nat
          /\ device.has <= message.length
      BY <2>1 DEF CallInv, DeviceKnown, MessageKnown
    <3>4. \/ device.at < device.has
          \/ device.at = device.has /\ device.has < message.length
      BY <2>4, <3>1 DEF Ready
    <3>5. device'.toggle = 1 - Odd(device'.at)
      BY <3>2, <3>3, <2>2, Parity
    <3>6. device'.at <= message.length /\ device'.at <= device'.has + 1
      BY <3>2, <3>3, <3>4
    <3>7. \/ device'.at > Passed
          \/ device'.at = Passed /\ device.at = Passed - 1
      BY <3>2, <3>3, <2>2, <1>6
    <3>8. QED
      BY <2>2, <3>2, <3>3, <3>5, <3>6, <3>7, <1>6
  <2>5. QED
    BY <2>3, <2>4
<1>8. OutSound'
  <2>1. SUFFICES ASSUME stage = "data", message.dir = "Out"
                 PROVE  /\ channel.left <= message.length
                        /\ Toggle = 1 - Odd(Passed)
                        /\ channel.at = Passed
                        /\ device'.got = Counted(Len(device'.got))
                        /\ device'.toggle = 1 - Odd(Len(device'.got))
                        /\ Len(device'.got) \in {Passed, Passed + 1}
                        /\ channel.left = 0 => Len(device'.got) = Passed
    BY <1>1, <1>5 DEF OutSound
  <2>2. /\ channel.left <= message.length
        /\ Toggle = 1 - Odd(Passed)
        /\ channel.at = Passed
        /\ device.got = Counted(Len(device.got))
        /\ device.toggle = 1 - Odd(Len(device.got))
        /\ Len(device.got) \in {Passed, Passed + 1}
    BY <2>1 DEF CallInv, DataSound, OutSound
  <2>3. CASE device' = device
    BY <2>2, <2>3, <1>3
  <2>4. CASE DeviceMoves /\ device' # device
    <3>1. Outgoing
      BY <2>1, Directions
    <3>2. /\ Toggle = device.toggle /\ device'.toggle = 1 - device.toggle
          /\ device'.got = Append(device.got, channel.at + 1)
      BY <2>4, <3>1, DeviceMovesTo
    <3>3. device.got \in Seq(Nat) /\ Len(device.got) \in Nat
      BY DEF CallInv, DeviceKnown
    <3>4. Passed \in Nat
      BY <2>2, <3>3, <1>6, <1>3 DEF Passed, CallInv, MessageKnown
    <3>5. Len(device.got) = Passed
      <4>1. 1 - Odd(Passed) = 1 - Odd(Len(device.got))
        BY <2>2, <3>2
      <4>2. Odd(Passed + 1) = 1 - Odd(Passed) /\ Odd(Passed) \in {0, 1}
        BY <3>4, Parity
      <4>3. Len(device.got) # Passed + 1
        BY <4>1, <4>2
      <4>4. QED
        BY <4>3, <2>2
    <3>6. /\ Len(device'.got) = Passed + 1
          /\ device'.got = Counted(Len(device'.got))
      BY <2>2, <3>2, <3>3, <3>5, CountedOne
    <3>7. device'.toggle = 1 - Odd(Passed + 1)
      BY <2>2, <3>2, <3>4, Parity
    <3>8. QED
      BY <2>2, <3>6, <3>7, <1>3
  <2>5. QED
    BY <2>3, <2>4
<1>9. StatusSound'
  <2>1. stage = "status" => device'.has = device.has /\ device'.got = device.got
    BY DeviceMovesTo
  <2>2. QED
    BY <2>1, <1>1, <1>3 DEF CallInv, DataSound, StatusSound, Arrived
<1>10. QED
  BY <1>2, <1>3, <1>4, <1>7, <1>8, <1>9 DEF CallInv, DataSound

(* A packet goes through: the host counts it, the device too or, where its *)
(* acknowledgement may be lost, not.                                       *)
LEMMA HostCounts ==
  ASSUME CallInv, PacketMoves
  PROVE  CallInv'
<1> DEFINE dir == message.dir
           length == message.length
           has == device.has
<1>1. /\ operation \in {"whole", "complete"} /\ event = "none" /\ Ready /\ Expected
      /\ HostMoves /\ Quiet
      /\ DeviceMoves \/ (operation = "whole" /\ Incoming /\ device' = device)
      /\ event' = IF operation = "complete" THEN "ack"
                  ELSE IF channel.left = 1 \/ Short THEN "complete" ELSE "none"
  BY DEF PacketMoves, Exchange, Wire
<1>2. UNCHANGED <<message, stage, tries, globalTries, actualTries, splitTries, packets,
                  error, lastTransfer, outcome, operation>>
  BY <1>1 DEF Quiet, driverVars
<1>3. /\ channel \in ChannelType /\ channel.left \in Nat /\ channel.at \in Nat
      /\ channel.left > 0 /\ channel.left <= packets /\ packets \in Nat
      /\ buffer \in [1 .. length -> Nat]
      /\ device.at \in Nat /\ has \in Nat /\ length \in Nat /\ dir \in {"In", "Out"}
      /\ dir = "In" => has \in 1 .. length
  BY <1>1, BusyCall DEF CallInv, ChannelKnown, ChannelType, DeviceKnown, MessageKnown
<1>4. /\ channel'.left = channel.left - 1 /\ channel'.pid = Flipped(channel.pid)
      /\ channel'.at = IF GivesData \/ Outgoing THEN channel.at + 1 ELSE channel.at
      /\ channel' \in ChannelType
  BY <1>1, <1>3 DEF HostMoves, ChannelType, Flipped
<1>5. /\ Toggle' = 1 - Toggle /\ Toggle \in {0, 1}
      /\ Passed' = Passed + 1 /\ Passed \in Int
  BY <1>2, <1>3, <1>4 DEF Toggle, Passed, Flipped
<1>6. buffer' \in [1 .. length -> Nat]
  <2>1. CASE GivesData /\ channel.at < length
    <3>1. buffer' = [buffer EXCEPT ![channel.at + 1] = device.at + 1]
      BY <1>1, <2>1 DEF HostMoves
    <3>2. device.at + 1 \in Nat
      BY <1>3
    <3>3. QED
      BY <3>1, <3>2, <1>3
  <2>2. CASE ~(GivesData /\ channel.at < length)
    BY <2>2, <1>1, <1>3 DEF HostMoves
  <2>3. QED
    BY <2>1, <2>2
<1>7. event' \in Events /\ (device' = device \/ DeviceMoves) /\ operation # "none"
  BY <1>1 DEF Events
<1>8. MessageKnown' /\ DeviceKnown' /\ CallKnown' /\ ChannelKnown' /\ GoodIsWhole'
  BY <1>1, <1>4, <1>6, <1>7, QuietKeeps
<1>9. CallSound'
  <2>1. /\ stage # "idle" /\ (operation = "complete" => channel.left = packets)
        /\ operation \in (IF message.split THEN {"start", "complete"} ELSE {"whole"})
        /\ outcome = "none" /\ error # "NoError" /\ tries > 0 /\ packets > 0
        /\ (stage = "poll" <=> message.poll) /\ (stage = "data" => length > 0)
    BY <1>1, <1>7, BusyCall
  <2>2. /\ operation = "complete" => event' = "ack" /\ channel'.left = packets - 1
        /\ operation = "whole" /\ event' # "complete" => channel'.left > 0
        /\ channel'.left <= packets
    BY <1>1, <1>3, <1>4, <2>1, BusyCall
  <2>3. QED
    BY <1>1, <1>2, <2>1, <2>2 DEF CallSound
<1>10. SetupSound'
  <2>1. stage = "setup" => device'.toggle = 1 /\ device'.at = 0 /\ device'.got = <<>>
    BY <1>1, <1>7, DeviceMovesTo, Directions
  <2>2. QED
    BY <2>1, <1>2 DEF SetupSound
<1>11. StatusSound'
  <2>1. SUFFICES ASSUME stage = "status"
                 PROVE  /\ dir = "In" => lastTransfer = device'.has /\ Arrived(lastTransfer)'
                        /\ dir = "Out" => device'.got = Counted(length)
                        /\ device'.done
    BY <1>2 DEF StatusSound, Arrived
  <2>2. ~Incoming /\ ~Outgoing /\ ~GivesData
    BY <2>1, Directions DEF GivesData
  <2>3. device'.done /\ device'.got = device.got /\ device'.has = has
    BY <2>1, <2>2, <1>1, <1>7, DeviceMovesTo
  <2>4. buffer' = buffer
    BY <2>2, <1>1 DEF HostMoves
  <2>5. /\ dir = "In" => lastTransfer = has /\ Arrived(lastTransfer)
        /\ dir = "Out" => device.got = Counted(length)
    BY <2>1 DEF CallInv, DataSound, StatusSound
  <2>6. QED
    BY <2>3, <2>4, <2>5, <1>2 DEF Arrived
<1>12. InSound'
  <2> DEFINE h == Passed
             a == device.at
  <2>1. SUFFICES ASSUME stage = "data", dir = "In"
                 PROVE  /\ channel'.left <= length
                        /\ Toggle' = 1 - Odd(Passed')
                        /\ device'.toggle = 1 - Odd(device'.at)
                        /\ device'.at <= length /\ device'.at <= device'.has + 1
                        /\ \/ device'.at > Passed'
                           \/ /\ device'.at \in {Passed', Passed' - 1}
                              /\ channel'.at = Least(Passed', device'.has)
                              /\ Arrived(channel.at)'
    BY <1>2 DEF InSound
  <2>2. /\ channel.left <= length
        /\ Toggle = 1 - Odd(h)
        /\ device.toggle = 1 - Odd(a)
        /\ a <= length /\ a <= has + 1
        /\ \/ a > h
           \/ a \in {h, h - 1} /\ channel.at = Least(h, has) /\ Arrived(channel.at)
    BY <2>1 DEF CallInv, DataSound, InSound
  <2>3. Incoming /\ ~Outgoing
    BY <2>1, Directions
  <2>4. /\ a < has \/ (a = has /\ has < length)
        /\ Toggle = device.toggle
    BY <2>3, <1>1 DEF Ready, Expected
  <2>5. h \in Nat
    BY <2>2, <1>3 DEF Passed
  <2>6. /\ device'.has = has /\ device'.at \in {a, a + 1}
        /\ device'.toggle = 1 - Odd(device'.at)
    <3>1. CASE DeviceMoves
      <4>1. device'.has = has /\ device'.toggle = 1 - device.toggle /\ device'.at = a + 1
        BY <3>1, <2>3, <1>7, DeviceMovesTo
      <4>2. QED
        BY <4>1, <2>2, <1>3, Parity
    <3>2. CASE device' = device
      BY <3>2, <2>2
    <3>3. QED
      BY <3>1, <3>2, <1>7
  <2>7. Odd(h) = Odd(a)
    <3>1. 1 - Odd(h) = 1 - Odd(a) /\ Odd(h) \in {0, 1} /\ Odd(a) \in {0, 1}
      BY <2>2, <2>4, <2>5, <1>3, Parity
    <3>2. QED
      BY <3>1
  <2>8. a # h + 1 /\ a # h - 1
    <3>1. Odd(h + 1) # Odd(h) /\ Odd(a + 1) # Odd(a)
      <4>1. \A n \in Nat : Odd(n + 1) # Odd(n)
        BY Parity
      <4>2. h \in Nat /\ a \in Nat
        BY <2>5, <1>3
      <4>3. QED
        BY <4>1, <4>2
    <3>2. ASSUME a = h - 1 PROVE a + 1 = h
      BY <3>2, <2>5
    <3>3. QED
      BY <3>1, <3>2, <2>7
  <2>9. Toggle' = 1 - Odd(Passed')
    BY <1>5, <2>2, <2>5, Parity
  <2>10. channel'.left <= length /\ device'.at <= length /\ device'.at <= device'.has + 1
    BY <1>3, <1>4, <2>1, <2>2, <2>4, <2>6
  <2>11. CASE a > h
    BY <2>11, <2>5, <2>6, <2>8, <2>9, <2>10, <1>3, <1>5
  <2>12. CASE ~(a > h)
    <3>1. a = h /\ channel.at = Least(h, has) /\ Arrived(channel.at)
      BY <2>2, <2>8, <2>12, <2>5, <1>3
    <3>2. device'.at \in {Passed', Passed' - 1}
      BY <3>1, <2>5, <2>6, <1>5
    <3>3. CASE a < has
      <4>1. channel.at = h /\ channel.at < length /\ GivesData
        BY <3>1, <3>3, <2>1, <2>3, <2>5, <1>3 DEF Least, GivesData
      <4>2. channel'.at = h + 1 /\ buffer' = [buffer EXCEPT ![h + 1] = h + 1]
        BY <4>1, <3>1, <1>1, <1>4 DEF HostMoves
      <4>3. Least(Passed', device'.has) = h + 1
        BY <3>1, <3>3, <1>5, <1>3, <2>5, <2>6 DEF Least
      <4>4. \A i \in 1 .. h + 1 : buffer'[i] = i
        <5>1. \A i \in 1 .. h : buffer[i] = i
          BY <3>1, <4>1 DEF Arrived
        <5>2. h + 1 \in 1 .. length
          BY <4>1, <2>5, <1>3
        <5> HIDE DEF h
        <5>3. \A i \in 1 .. h + 1 : i \in 1 .. length /\ (i # h + 1 => i \in 1 .. h)
          BY <5>2, <2>5, <1>3
        <5>4. QED
          BY <5>1, <5>2, <5>3, <4>2, <1>3
      <4>5. Arrived(channel.at)'
        BY <4>2, <4>4 DEF Arrived
      <4>6. QED
        BY <3>2, <4>2, <4>3, <4>5, <2>6, <2>9, <2>10
    <3>4. CASE ~(a < has)
      <4>1. a = has /\ ~GivesData
        BY <3>4, <2>4, <1>3 DEF GivesData
      <4>2. channel'.at = channel.at /\ buffer' = buffer
        BY <4>1, <2>3, <1>1, <1>4 DEF HostMoves
      <4>3. channel.at = has /\ Least(Passed', device'.has) = has
        <5>1. h = has /\ Passed' = has + 1 /\ device'.has = has
          BY <3>1, <4>1, <1>5, <2>6
        <5>2. Least(has, has) = has /\ Least(has + 1, has) = has
          BY <1>3 DEF Least
        <5>3. QED
          BY <3>1, <5>1, <5>2
      <4>4. Arrived(channel.at)'
        BY <3>1, <4>2 DEF Arrived
      <4>5. QED
        BY <3>2, <4>2, <4>3, <4>4, <2>6, <2>9, <2>10
    <3>5. QED
      BY <3>3, <3>4
  <2>13. QED
    BY <2>11, <2>12
<1>13. OutSound'
  <2> DEFINE h == Passed
             g == Len(device.got)
  <2>1. SUFFICES ASSUME stage = "data", dir = "Out"
                 PROVE  /\ channel'.left <= length
                        /\ Toggle' = 1 - Odd(Passed')
                        /\ channel'.at = Passed'
                        /\ device'.got = Counted(Len(device'.got))
                        /\ device'.toggle = 1 - Odd(Len(device'.got))
                        /\ Len(device'.got) = Passed'
    BY <1>2, <1>5 DEF OutSound
  <2>2. /\ channel.left <= length
        /\ Toggle = 1 - Odd(h)
        /\ channel.at = h
        /\ device.got = Counted(g)
        /\ device.toggle = 1 - Odd(g)
        /\ g \in {h, h + 1}
    BY <2>1 DEF CallInv, DataSound, OutSound
  <2>3. Outgoing /\ ~Incoming
    BY <2>1, Directions
  <2>4. h \in Nat
    BY <2>2, <1>3 DEF Passed
  <2>5. channel'.left <= length /\ Toggle' = 1 - Odd(Passed') /\ channel'.at = Passed'
    <3>1. Toggle' = 1 - Odd(h + 1)
      BY <1>5, <2>2, <2>4, Parity
    <3>2. QED
      BY <3>1, <1>3, <1>4, <1>5, <2>2, <2>3
  <2>6. Odd(h + 1) = 1 - Odd(h) /\ Odd(h) \in {0, 1}
    BY <2>4, Parity
  <2>7. DeviceMoves
    BY <1>1, <2>3
  <2>8. CASE Toggle # device.toggle
    <3>1. device' = device /\ g = h + 1
      BY <2>2, <2>3, <2>7, <2>8, <1>7, DeviceMovesTo
    <3>2. QED
      BY <3>1, <2>2, <2>5, <1>5
  <2>9. CASE ~(Toggle # device.toggle)
    <3>1. /\ device'.toggle = 1 - device.toggle
          /\ device'.got = Append(device.got, channel.at + 1)
      BY <2>3, <2>7, <2>9, <1>7, DeviceMovesTo
    <3>2. g = h
      <4>1. 1 - Odd(h) = 1 - Odd(g)
        BY <2>2, <2>9
      <4>2. g # h + 1
        BY <4>1, <2>6
      <4>3. QED
        BY <4>2, <2>2
    <3>3. /\ Len(device'.got) = h + 1 /\ device'.got = Counted(Len(device'.got))
      <4>1. device.got \in Seq(Nat)
        BY DEF CallInv, DeviceKnown
      <4>2. QED
        BY <4>1, <3>1, <3>2, <2>2, CountedOne
    <3>4. device'.toggle = 1 - Odd(h + 1)
      BY <3>1, <3>2, <2>2, <2>6
    <3>5. QED
      BY <3>3, <3>4, <2>5, <1>5
  <2>10. QED
    BY <2>8, <2>9
<1>14. QED
  BY <1>8, <1>9, <1>10, <1>11, <1>12, <1>13 DEF CallInv, DataSound

LEMMA WireKeeps ==
  ASSUME CallInv, WireStep
  PROVE  CallInv'
<1>1. CASE PacketMoves
  BY <1>1, HostCounts
<1>2. CASE PacketRepeated
  <2>1. /\ operation # "none" /\ event = "none" /\ Ready /\ DeviceMoves /\ Quiet
        /\ event' = "toggle" /\ UNCHANGED <<channel, buffer>>
    BY <1>2 DEF PacketRepeated, Exchange, Wire
  <2>2. QED
    BY <2>1, HostWaits DEF Events
<1>3. CASE PacketLost
  <2>1. /\ operation # "none" /\ event = "none" /\ Quiet
        /\ event' \in {"xact", "nyet"} /\ UNCHANGED <<channel, buffer>>
        /\ device' = device \/ (Ready /\ DeviceMoves)
    BY <1>3 DEF PacketLost, Wire
  <2>2. QED
    BY <2>1, HostWaits DEF Events
<1>4. CASE ChannelHalts
  <2>1. /\ operation # "none" /\ event = "none" /\ Quiet
        /\ event' \in Events /\ (event' \in {"complete", "ack"} => operation = "start")
        /\ UNCHANGED <<channel, buffer, device>>
    BY <1>4 DEF ChannelHalts, Wire, Events
  <2>2. QED
    BY <2>1, HostWaits
<1>5. QED
  BY <1>1, <1>2, <1>3, <1>4 DEF WireStep

-----------------------------------------------------------------------------
LEMMA RestKeepsCall ==
  ASSUME CallInv, UNCHANGED <<driverVars, channelVars>>
  PROVE  CallInv'
  BY DEF CallInv, MessageKnown, DeviceKnown, CallKnown, ChannelKnown, CallSound, DataSound,
         SetupSound, InSound, OutSound, StatusSound, Toggle, Passed, Arrived, GoodIsWhole,
         driverVars, channelVars

LEMMA CallInitially == Init => CallInv
<1> SUFFICES ASSUME Init PROVE CallInv
  OBVIOUS
<1>1. MessageKnown /\ CallKnown
  BY DEF Init, MessageKnown, CallKnown, Events, Errors
<1>2. DeviceKnown
  <2>1. <<>> \in Seq(Nat)
    OBVIOUS
  <2>2. QED
    BY <2>1 DEF Init, DeviceKnown
<1>3. ChannelKnown
  <2>1. <<>> \in [1 .. 0 -> Nat]
    OBVIOUS
  <2>2. QED
    BY <2>1 DEF Init, ChannelKnown, ChannelType
<1>4. CallSound /\ DataSound /\ GoodIsWhole
  BY DEF Init, CallSound, DataSound, SetupSound, InSound, OutSound, StatusSound, GoodIsWhole
<1>5. QED
  BY <1>1, <1>2, <1>3, <1>4 DEF CallInv

LEMMA NextKeepsCall ==
  ASSUME CallInv, [Next]_vars
  PROVE  CallInv'
<1>1. CASE Start \/ HubStep \/ Environment \/ UNCHANGED vars
  <2>1. UNCHANGED <<driverVars, channelVars>>
    BY <1>1 DEF Start, HubStep, Environment, vars
  <2>2. QED
    BY <2>1, RestKeepsCall
<1>2. ASSUME NEW m \in Messages, Submit(m) PROVE CallInv'
  BY <1>2, SubmitKeeps
<1>3. CASE Handle
  BY <1>3, HandleKeeps
<1>4. CASE WireStep
  BY <1>4, WireKeeps
<1>5. QED
  BY <1>1, <1>2, <1>3, <1>4 DEF Next

(* How far the driver is up.                                               *)
LEMMA NextKeepsStart ==
  ASSUME StartKnown, [Next]_vars
  PROVE  StartKnown'
<1>1. CASE Start
  <2>1. phase' \in {"off", "loaded", "unusable", "reset", "configured", "halting", "port",
                    "port_reset", "running"}
    BY <1>1 DEF StartKnown, Start, HcdInitialize, AllocateBuffer, ResetCore, FlushFifos,
                HaltChannels, PowerPort, EndPortReset, Abandon
  <2>2. databuffer' \in BOOLEAN /\ phy' \in BOOLEAN
    <3>1. databuffer' \in {TRUE, FALSE, databuffer} /\ phy' \in {TRUE, phy}
      BY <1>1 DEF Start, HcdInitialize, AllocateBuffer, ResetCore, FlushFifos,
                  HaltChannels, PowerPort, EndPortReset, Abandon
    <3>2. QED
      BY <3>1 DEF StartKnown
  <2>3. QED
    BY <2>1, <2>2, Zenon DEF StartKnown
<1>2. CASE HubStep \/ Environment \/ Handle \/ WireStep \/ UNCHANGED vars
           \/ \E m \in Messages : Submit(m)
  <2>1. UNCHANGED startVars
    BY <1>2 DEF HubStep, Environment, Handle, WireStep, PacketMoves, PacketRepeated,
                PacketLost, ChannelHalts, Quiet, Submit, vars
  <2>2. QED
    BY <2>1 DEF StartKnown, startVars
<1>3. QED
  BY <1>1, <1>2 DEF Next

(* A control message reported as done was done, whatever was lost,         *)
(* repeated, stalled or not ready on the way, for messages of any number   *)
(* of packets; and the driver stays within its rounds and attempts.        *)
THEOREM MessageIsSound == Spec => []MessageSound
<1> DEFINE All == HubInv /\ CallInv /\ StartKnown
<1>1. Init => All
  <2>1. Init => StartKnown
    BY DEF Init, StartKnown
  <2>2. QED
    BY <2>1, HubInitially, CallInitially
<1>2. All /\ [Next]_vars => All'
  BY NextKeepsHub, NextKeepsCall, NextKeepsStart
<1>3. All => MessageSound
  <2>1. SUFFICES ASSUME All PROVE MessageSound
    OBVIOUS
  <2>2. (operation = "none") = (stage = "idle")
    BY <2>1 DEF CallInv, CallKnown, CallSound
  <2>3. stage # "idle" => channel.left <= packets /\ packets > 0
    BY <2>1 DEF CallInv, CallSound
  <2>4. TypeOK
    BY <2>1, <2>2, <2>3, Zenon DEF TypeOK, HubInv, CallInv, CallKnown, ChannelKnown, StartKnown
  <2>5. QED
    BY <2>1, <2>4 DEF MessageSound, CallInv
<1>4. QED
  BY <1>1, <1>2, <1>3, PTL DEF Spec
=============================================================================
