--------------------------------- MODULE Hcd ---------------------------------
(***************************************************************************)
(* The host controller driver, kernel/device/hcd.c: bringing the core up,  *)
(* control messages with their three stages, polls of interrupt endpoints, *)
(* and their retries, over the channel of a DesignWare core and a device   *)
(* that follows the USB rules: it alternates DATA0 and DATA1, takes a      *)
(* packet with the wrong one for a repetition, and starts over on SETUP.   *)
(*                                                                         *)
(* Lengths are counted in packets; a packet is its place in the data.  At  *)
(* high speed the channel moves the packets of a stage on its own; below a *)
(* hub with a transaction translator every packet is a start-split and up  *)
(* to three complete-splits.  A message for the root hub's number never    *)
(* reaches the channel: it is module RootHub's.                            *)
(***************************************************************************)
EXTENDS RootHub, Sequences

CONSTANTS
  Messages      \* what is sent: split or not, direction, packets, poll or not

(* HcdInterruptPoll only asks; and what the program writes to a device is  *)
(* the report of a keyboard's lamps: at high speed, where a stage is tried *)
(* again as a whole, it writes no more than a packet.                      *)
ASSUME MessagesAssumption ==
  /\ Messages \subseteq [split : BOOLEAN, dir : {"In", "Out"}, length : Nat, poll : BOOLEAN]
  /\ \A m \in Messages : m.poll => m.dir = "In"
  /\ \A m \in Messages : ~m.split /\ m.dir = "Out" => m.length <= 1

VARIABLES
  (* hcd_start *)
  phase,        \* how far the driver is up
  databuffer,   \* whether databuffer is allocated
  phy,          \* PhyInitialised
  (* the call in progress, or the last one *)
  message, stage, tries, globalTries, actualTries, splitTries,
  packets,      \* PacketCount before this round of the loop
  error, lastTransfer, outcome,
  (* the channel's registers, its memory, and how it halted *)
  channel, buffer, operation, event,
  (* the device *)
  device

driverVars  == <<message, stage, tries, globalTries, actualTries, splitTries, packets,
                 error, lastTransfer, outcome>>
channelVars == <<channel, buffer, operation, event, device>>
startVars   == <<phase, databuffer, phy>>
vars        == <<rootHubVars, startVars, driverVars, channelVars>>

-----------------------------------------------------------------------------
(* HcdInitialize: an incompatible core ends it, the copies are given back. *)
HcdInitialize ==
  /\ phase = "off"
  /\ phase' \in {"loaded", "unusable"}
  /\ UNCHANGED <<databuffer, phy>>

(* hcd_start up to the first reset, with or without memory for databuffer. *)
AllocateBuffer ==
  /\ phase = "loaded"
  /\ \/ phase' = "reset" /\ databuffer' = TRUE
     \/ phase' = "unusable" /\ UNCHANGED databuffer
  /\ UNCHANGED phy

(* A poll of a reset bit that never ends: "Device Hang!".  The label       *)
(* deallocate returns 0, which HcdStart takes for OK.                      *)
Abandon ==
  /\ phase' = "running"
  /\ databuffer' = FALSE

(* What these come to: the bits they poll change, or the count of polls    *)
(* ends the wait.                                                          *)
HcdReset             == {"OK", "ErrorDevice"}
HcdTransmitFifoFlush == {"OK", "ErrorDevice"}
HcdReceiveFifoFlush  == {"OK", "ErrorDevice"}

(* After the first reset ever the PHY is set up and a second one follows,  *)
(* whose result is not looked at.                                          *)
ResetCore ==
  /\ phase = "reset"
  /\ \E result \in HcdReset :
       \/ result = "OK" /\ phase' = "configured" /\ phy' = TRUE /\ UNCHANGED databuffer
       \/ result # "OK" /\ Abandon /\ UNCHANGED phy

(* The configuration of DMA, clocks and the three FIFOs, and the flushes.  *)
FlushFifos ==
  /\ phase = "configured"
  /\ \E transmit \in HcdTransmitFifoFlush, receive \in HcdReceiveFifoFlush :
       \/ transmit = "OK" /\ receive = "OK" /\ phase' = "halting" /\ UNCHANGED databuffer
       \/ (transmit # "OK" \/ receive # "OK") /\ Abandon
  /\ UNCHANGED phy

(* Every channel is disabled and halted: the loop reports a channel that   *)
(* takes too long but waits for it all the same.                           *)
HaltChannels ==
  /\ phase = "halting"
  /\ phase' = "port"
  /\ UNCHANGED <<databuffer, phy>>

PowerPort ==
  /\ phase = "port"
  /\ phase' = "port_reset"
  /\ Modify(port, {"Power", "Reset"}, {}, {"Power", "Reset"})
  /\ UNCHANGED <<databuffer, phy>>

EndPortReset ==
  /\ phase = "port_reset"
  /\ phase' = "running"
  /\ port' = PortAfterWrite(port, (portCopy \ {"Reset"}) \cap PortMask({"Reset"}))
  /\ portCopy' = port'
  /\ UNCHANGED <<databuffer, phy>>

Start ==
  /\ \/ /\ HcdInitialize \/ AllocateBuffer \/ ResetCore \/ FlushFifos \/ HaltChannels
        /\ UNCHANGED <<port, portCopy>>
     \/ PowerPort \/ EndPortReset
  /\ UNCHANGED <<rootHubNumber, request, serving, hubError, hubTransfer, portEvents,
                 driverVars, channelVars>>

-----------------------------------------------------------------------------
(* What HcdChannelSendWait is called with in each stage.                   *)
StageIn(s) ==
  CASE s = "setup" -> FALSE
    [] s = "status" -> message.length = 0 \/ message.dir = "Out"
    [] OTHER -> message.dir = "In"

StagePid(s) == IF s = "setup" THEN "Setup" ELSE "Data1"

StagePackets(s) == IF s \in {"setup", "status"} \/ message.length = 0 THEN 1 ELSE message.length

(* HcdTransmitChannel of a device's channel: whole, or its next packet's   *)
(* start-split.                                                            *)
Transmit(split) == /\ operation' = IF split THEN "start" ELSE "whole"
                   /\ event' = "none"

FirstRound == globalTries' = 0 /\ actualTries' = 0 /\ splitTries' = 0

(* HcdPrepareChannel, and the first round.                                 *)
PrepareChannel(s) ==
  /\ channel' = [pid |-> StagePid(s), left |-> StagePackets(s), at |-> 0]
  /\ packets' = StagePackets(s)
  /\ FirstRound /\ Transmit(message.split)

NextStage(s) ==
  /\ stage' = s
  /\ tries' = 1
  /\ PrepareChannel(s)
  /\ UNCHANGED <<message, outcome, buffer, device>>

(* HcdSumbitControlMessage and HcdInterruptPoll of a number that is not    *)
(* the root hub's.  The device may have less to say than it is asked for.  *)
Submit(m) ==
  /\ phase = "running" /\ ~serving
  /\ operation = "none"
  /\ message' = m
  /\ stage' = IF m.poll THEN "poll" ELSE "setup"
  /\ tries' = 1
  /\ error' = "Processing" /\ lastTransfer' = 0 /\ outcome' = "none"
  /\ buffer' = [i \in 1 .. m.length |-> 0]
  /\ device' \in [toggle : {0, 1},
                  has : IF m.dir = "In" THEN 1 .. m.length ELSE {0},
                  at : {0}, got : {<<>>}, done : {FALSE}]
  /\ channel' = [pid |-> IF m.poll THEN "Data1" ELSE "Setup",
                 left |-> IF m.poll THEN m.length ELSE 1, at |-> 0]
  /\ packets' = IF m.poll THEN m.length ELSE 1
  /\ FirstRound /\ Transmit(m.split)
  /\ UNCHANGED <<rootHubVars, startVars>>

(* Mutant of Verdict: a message still in progress passes for done.         *)
Verdict_Unfinished(e) == IF e \in {"NoError", "Processing"} THEN "ok" ELSE "error"

(* The call returns: what UsbControlMessage makes of Error, or, for a      *)
(* poll, the result itself.                                                *)
Verdict(e) == IF e = "NoError" THEN "ok" ELSE IF e = "Processing" THEN "timeout" ELSE "error"

Return(result) ==
  /\ outcome' = result
  /\ stage' = "idle" /\ operation' = "none" /\ event' = "none"
  /\ UNCHANGED <<message, tries, globalTries, actualTries, splitTries, packets,
                 channel, buffer, device, lastTransfer>>

Fail(e) == error' = e /\ Return(Verdict(e))

Done(transfer) ==
  /\ error' = "NoError" /\ outcome' = "ok" /\ lastTransfer' = transfer
  /\ stage' = "idle" /\ operation' = "none" /\ event' = "none"
  /\ UNCHANGED <<message, tries, globalTries, actualTries, splitTries, packets,
                 channel, buffer, device>>

-----------------------------------------------------------------------------
(* The end of a stage in HcdSumbitControlMessage and HcdInterruptPoll.     *)
StageDone ==
  CASE stage = "setup" ->
         /\ NextStage(IF message.length = 0 THEN "status" ELSE "data")
         /\ UNCHANGED <<error, lastTransfer>>
    [] stage = "data" ->
         /\ NextStage("status")
         /\ lastTransfer' = IF message.dir = "In" THEN channel.at ELSE message.length
         /\ UNCHANGED error
    [] stage = "status" -> Done(lastTransfer)
    [] stage = "poll" -> Done(channel.at)

(* Mutant of Stuck: a round that moved nothing passes for success.         *)
Stuck_Never == FALSE

(* HcdChannelSendWait after a round: one that moved no packet is stuck.    *)
Stuck == channel.left = packets

RoundDone ==
  IF Stuck THEN Fail("ConnectionError")
  ELSE IF channel.left > 0
  THEN /\ packets' = channel.left
       /\ FirstRound /\ Transmit(message.split)
       /\ UNCHANGED <<message, stage, tries, error, lastTransfer, outcome, channel, buffer, device>>
  ELSE StageDone

(* HcdChannelInterruptToError: what Error becomes.                         *)
ErrorOf(e) ==
  CASE e = "ahb" -> "AhbError" [] e = "stall" -> "Stall" [] e = "nak" -> "NoAcknowledge"
    [] e = "nyet" -> "NotYetError" [] e = "babble" -> "Babble" [] e = "overrun" -> "BufferError"
    [] e = "toggle" -> "BitError" [] e = "xact" -> "ConnectionError" [] OTHER -> error

(* HcdChannelSendWait on ErrorRetry: the stage again from its first packet. *)
RetryStage ==
  /\ error' = ErrorOf(event)
  /\ IF tries = 3
     THEN Return(Verdict(error'))
     ELSE /\ tries' = tries + 1
          /\ PrepareChannel(stage)
          /\ UNCHANGED <<message, stage, lastTransfer, outcome, buffer, device>>

(* Mutant of MayRepeat: not-acknowledged rounds are not counted.           *)
MayRepeat_NotCounted(g) == g < 3

(* HcdChannelSendWaitOne's loop: a NAK is not counted in globalTries.      *)
MayRepeat(g) == g < 3 /\ actualTries + 1 < 10

Repeat(g) ==
  IF MayRepeat(g)
  THEN /\ globalTries' = g /\ actualTries' = actualTries + 1 /\ splitTries' = 0
       /\ Transmit(TRUE)
       /\ UNCHANGED <<message, stage, tries, packets, error, lastTransfer, outcome,
                      channel, buffer, device>>
  ELSE IF message.poll /\ event = "nyet"
  THEN Return("nyet") /\ UNCHANGED error
  ELSE Fail(ErrorOf(event))

(* The driver, once the channel has halted or RequestTimeout has passed.   *)
HandleWhole ==
  /\ operation = "whole"
  /\ CASE event = "complete" -> RoundDone
       [] event = "never" -> Fail("ConnectionError")
       [] OTHER -> RetryStage

HandleStart ==
  /\ operation = "start"
  /\ CASE event = "ack" ->
            /\ operation' = "complete" /\ event' = "none" /\ splitTries' = 0
            /\ UNCHANGED <<message, stage, tries, globalTries, actualTries, packets, error,
                           lastTransfer, outcome, channel, buffer, device>>
       [] event = "never" -> Fail("ConnectionError")
       [] event = "nak" -> Repeat(globalTries)
       [] event = "xact" -> Repeat(globalTries + 1)
       [] OTHER -> RoundDone

AskAgain ==
  /\ splitTries' = splitTries + 1 /\ event' = "none"
  /\ UNCHANGED <<message, stage, tries, globalTries, actualTries, packets, error,
                 lastTransfer, outcome, channel, buffer, device, operation>>

HandleComplete ==
  /\ operation = "complete" /\ ~message.poll
  /\ CASE event = "nyet" -> IF splitTries < 2 THEN AskAgain ELSE Repeat(globalTries + 1)
       [] event = "nak" -> Repeat(globalTries)
       [] event = "xact" -> Repeat(globalTries + 1)
       [] event = "ack" -> RoundDone
       [] event = "never" -> Fail("ConnectionError")
       [] OTHER -> Fail(ErrorOf(event))

(* The same in HcdChannelSendInterruptPollOne, where a NAK is an answer:   *)
(* the device has no report.                                               *)
HandlePollComplete ==
  /\ operation = "complete" /\ message.poll
  /\ CASE event = "nyet" -> IF splitTries < 2 THEN AskAgain ELSE Repeat(globalTries + 1)
       [] event = "nak" -> Return("nack") /\ UNCHANGED error
       [] event = "xact" -> Repeat(globalTries + 1)
       [] event = "ack" -> RoundDone
       [] event = "never" -> Fail("ConnectionError")
       [] OTHER -> Fail(ErrorOf(event))

Handle ==
  /\ event # "none"
  /\ HandleWhole \/ HandleStart \/ HandleComplete \/ HandlePollComplete
  /\ UNCHANGED <<rootHubVars, startVars>>

-----------------------------------------------------------------------------
(* The wire.  A packet of the data phase from the device, or to it.        *)
Incoming == stage \in {"data", "poll"} /\ StageIn(stage)
Outgoing == stage = "data" /\ ~StageIn(stage)

Toggle == IF channel.pid = "Data1" THEN 1 ELSE 0
Flipped(pid) == IF pid = "Data1" THEN "Data0" ELSE "Data1"

(* The device's side of an exchange, seen through to its end.              *)
DeviceMoves ==
  device' =
    CASE stage = "setup" -> [device EXCEPT !.toggle = 1, !.at = 0, !.got = <<>>]
      [] stage = "status" -> [device EXCEPT !.done = TRUE]
      [] Incoming -> [device EXCEPT !.toggle = 1 - @, !.at = @ + 1]
      [] Outgoing -> IF Toggle # device.toggle THEN device
                     ELSE [device EXCEPT !.toggle = 1 - @, !.got = Append(@, channel.at + 1)]

GivesData == Incoming /\ device.at < device.has

(* A device that has said all says so once with an empty packet, if it was *)
(* asked for more; then it has nothing for the host.                       *)
Ready == Incoming => \/ device.at < device.has
                     \/ device.at = device.has /\ device.has < message.length

(* The channel's side: TransferSize, PacketCount and PacketId move on.     *)
HostMoves ==
  /\ channel' = [pid |-> Flipped(channel.pid), left |-> channel.left - 1,
                 at |-> IF GivesData \/ Outgoing THEN channel.at + 1 ELSE channel.at]
  /\ buffer' = IF GivesData /\ channel.at < message.length
               THEN [buffer EXCEPT ![channel.at + 1] = device.at + 1] ELSE buffer

Expected == Incoming => Toggle = device.toggle

(* A packet shorter than MaxSize ends the transfer whatever is left.       *)
Short == Incoming /\ device.has < message.length /\ device.at + 1 >= device.has

Wire(op)      == operation = op /\ event = "none"
Exchange(op)  == Wire(op) /\ Ready

Quiet == UNCHANGED <<rootHubVars, startVars, driverVars, operation>>

(* A packet goes through; at high speed the host's acknowledgement of an   *)
(* incoming packet may still be lost on its way.                           *)
PacketMoves ==
  /\ Exchange("whole") \/ Exchange("complete")
  /\ Expected
  /\ HostMoves
  /\ DeviceMoves \/ (operation = "whole" /\ Incoming /\ UNCHANGED device)
  /\ event' = IF operation = "complete" THEN "ack"
              ELSE IF channel.left = 1 \/ Short THEN "complete" ELSE "none"
  /\ Quiet

(* An incoming packet is taken for a repetition: the device is told so,    *)
(* the channel halts.                                                      *)
PacketRepeated ==
  /\ Exchange("whole") \/ Exchange("complete")
  /\ ~Expected
  /\ DeviceMoves
  /\ event' = "toggle"
  /\ UNCHANGED <<channel, buffer>> /\ Quiet

(* The packet was lost, or only its acknowledgement or its result, so that *)
(* the device has moved on and the channel has not.                        *)
PacketLost ==
  /\ \/ Wire("whole") /\ event' = "xact"
     \/ Wire("complete") /\ event' = "xact"
     \/ Wire("complete") /\ splitTries = 2 /\ event' = "nyet"
  /\ \/ UNCHANGED device
     \/ ~(operation = "whole" /\ Incoming) /\ Ready /\ DeviceMoves
  /\ UNCHANGED <<channel, buffer>> /\ Quiet

(* Everything else a halted channel may show, or it never halts.           *)
ChannelHalts ==
  /\ \/ Wire("whole") /\ event' \in {"stall", "ahb", "babble", "nothing", "never"}
     \/ Wire("start") /\ event' \in {"ack", "nak", "xact", "ahb", "never"}
     \/ Wire("complete") /\ event' \in {"nak", "stall", "overrun", "nothing", "never"}
     \/ Wire("complete") /\ splitTries < 2 /\ event' = "nyet"
  /\ UNCHANGED <<channel, buffer, device>> /\ Quiet

-----------------------------------------------------------------------------
HubStep ==
  /\ phase = "running" /\ operation = "none"
  /\ \/ \E r \in Requests : ProcessRootHubMessage(r)
     \/ FinishRootHubMessage
  /\ UNCHANGED <<startVars, driverVars, channelVars>>

Environment == PortEvent /\ UNCHANGED <<startVars, driverVars, channelVars>>

Init ==
  /\ RootHubInit
  /\ phase = "off" /\ databuffer = FALSE /\ phy = FALSE
  /\ message = [split |-> FALSE, dir |-> "Out", length |-> 0, poll |-> FALSE]
  /\ stage = "idle" /\ tries = 0 /\ globalTries = 0 /\ actualTries = 0 /\ splitTries = 0
  /\ packets = 0 /\ error = "NoError" /\ lastTransfer = 0 /\ outcome = "none"
  /\ channel = [pid |-> "Setup", left |-> 0, at |-> 0]
  /\ buffer = <<>> /\ operation = "none" /\ event = "none"
  /\ device = [toggle |-> 0, has |-> 0, at |-> 0, got |-> <<>>, done |-> FALSE]

WireStep == PacketMoves \/ PacketRepeated \/ PacketLost \/ ChannelHalts

Next ==
  \/ Start \/ HubStep \/ Environment
  \/ \E m \in Messages : Submit(m)
  \/ Handle \/ WireStep

(* The processor goes on, the channel does something or RequestTimeout     *)
(* passes, and a channel that is told to halt does so.                     *)
Fairness == WF_vars(Start) /\ WF_vars(Handle) /\ WF_vars(WireStep)

Spec == Init /\ [][Next]_vars /\ Fairness

-----------------------------------------------------------------------------
(* The bits of ChannelInterrupts that are told apart, and enum             *)
(* UsbTransferError.                                                       *)
Events == {"none", "never", "complete", "ahb", "stall", "nak", "ack", "nyet", "xact", "babble",
           "overrun", "toggle", "nothing"}
Errors == {"NoError", "Stall", "BufferError", "Babble", "NoAcknowledge", "BitError",
           "ConnectionError", "AhbError", "NotYetError", "Processing"}

ChannelType == [pid : {"Setup", "Data0", "Data1"}, left : Nat, at : Nat]

TypeOK ==
  /\ RootHubTypeOK
  /\ phase \in {"off", "loaded", "unusable", "reset", "configured", "halting", "port",
                "port_reset", "running"}
  /\ databuffer \in BOOLEAN /\ phy \in BOOLEAN
  /\ stage \in {"idle", "setup", "data", "status", "poll"}
  /\ tries \in 0 .. 3 /\ globalTries \in 0 .. 2 /\ actualTries \in 0 .. 9 /\ splitTries \in 0 .. 2
  /\ event \in Events /\ error \in Errors /\ channel \in ChannelType
  /\ (operation = "none") = (stage = "idle")
  /\ stage # "idle" => channel.left <= packets /\ packets > 0
  /\ outcome \in {"none", "ok", "timeout", "error", "nack", "nyet"}

(* A control message that UsbControlMessage reports as done was done: the  *)
(* device saw its status stage; of the data, what LastTransfer says is in  *)
(* the buffer, in order and nothing left out, or the device got every      *)
(* packet exactly once - whatever was lost, repeated, stalled or not ready *)
(* on the way and however often the driver tried again.                    *)
GoodIsWhole ==
  outcome = "ok" /\ ~message.poll =>
    /\ device.done
    /\ message.dir = "In" => /\ lastTransfer = device.has
                             /\ \A i \in 1 .. lastTransfer : buffer[i] = i
    /\ message.dir = "Out" => device.got = [i \in 1 .. message.length |-> i]

(* A message ends as it should, within its rounds and attempts.            *)
MessageSound == TypeOK /\ GoodIsWhole

(* Every call comes back, for every device: no sequence of NAKs, NYETs,    *)
(* stalls and silences keeps the driver in its loops.                      *)
CallsReturn == operation # "none" ~> operation = "none"
=============================================================================
