--------------------------------- MODULE Dma ---------------------------------
(***************************************************************************)
(* The DMA driver, kernel/device/dma.c, composed with module Interrupts    *)
(* and with the DMA engine of the BCM2835.                                 *)
(*                                                                         *)
(* Callers start a transfer on a channel and wait for it.  The driver      *)
(* writes a control block to memory, points the channel at it and sets     *)
(* ACTIVE; the engine copies on its own and, when done, clears ACTIVE,     *)
(* sets END and INT, and INT is what raises the channel's interrupt line.  *)
(* The interrupt's clearer writes the same CS register the driver writes.  *)
(*                                                                         *)
(* External: the engine.  A write of CS sets ACTIVE to the bit written (so *)
(* that a write without it pauses the channel), clears END and INT where   *)
(* they are written as 1, and with RESET forgets the transfer.             *)
(***************************************************************************)
EXTENDS Interrupts

CONSTANTS
  Channels,     \* the channels callers use
  LineOf,       \* dma_ints: the interrupt of each channel
  Pages,        \* the memory areas transfers go between
  MaxStarts     \* bound on the calls of dma_start

None == [src |-> "none", dst |-> "none"]
Transfers == {t \in [src : Pages, dst : Pages] : t.src # t.dst}

ASSUME ChannelsAssumption ==
  /\ Channels # {} /\ LineOf \in [Channels -> Irqs]
  /\ \A c, d \in Channels : LineOf[c] = LineOf[d] => c = d
  /\ Channels \subseteq Drivers
  /\ MaxStarts \in Nat

VARIABLES
  status,       \* channel_status of each channel
  cb,           \* the control block of each channel, in memory
  loaded,       \* the engine's own copy of a control block, None if none
  pointed,      \* CONBLK_AD was written and the block not fetched yet
  active, end,  \* bits of CS; the INT bit is the raised line
  memory,       \* what the areas hold: where the data comes from, or "torn"
  pc, job,      \* the call the program is in and its arguments
  pending,      \* the transfers callers have started and not waited for
  starts,       \* how many transfers were started
  hasty         \* history: a channel was started again before it was waited for

engineVars == <<loaded, pointed, active, end, memory>>
calls      == <<starts, hasty>>
driverVars == <<status, cb, pc, job, pending, calls>>
vars == <<irqVars, engineVars, driverVars>>

Line(c) == LineOf[c]

Init ==
  /\ IrqInit
  /\ status = [c \in Channels |-> "NEED_INIT"]
  /\ cb = [c \in Channels |-> None]
  /\ loaded = [c \in Channels |-> None]
  /\ pointed = [c \in Channels |-> FALSE]
  /\ active = [c \in Channels |-> FALSE]
  /\ end = [c \in Channels |-> FALSE]
  /\ memory = [p \in Pages |-> p]
  /\ pc = "idle"
  /\ job = [chan |-> CHOOSE c \in Channels : TRUE, transfer |-> None]
  /\ pending = [c \in Channels |-> None]
  /\ starts = 0 /\ hasty = FALSE

-----------------------------------------------------------------------------
(* The CS register of channel c.                                           *)
WriteCS(c, activeBit, endBit, intBit) ==
  /\ active' = [active EXCEPT ![c] = activeBit]
  /\ end' = [end EXCEPT ![c] = @ /\ ~endBit]
  /\ raised' = IF intBit THEN raised \ {Line(c)} ELSE raised

ResetChannel(c) ==
  /\ active' = [active EXCEPT ![c] = FALSE]
  /\ end' = [end EXCEPT ![c] = FALSE]
  /\ raised' = raised \ {Line(c)}
  /\ loaded' = [loaded EXCEPT ![c] = None]
  /\ pointed' = [pointed EXCEPT ![c] = FALSE]

(* The engine: fetch of the control block, the copy under way, its end.    *)
Fetch(c) ==
  /\ active[c] /\ pointed[c]
  /\ loaded' = [loaded EXCEPT ![c] = cb[c]]
  /\ pointed' = [pointed EXCEPT ![c] = FALSE]
  /\ memory' = [memory EXCEPT ![cb[c].dst] = "torn"]
  /\ UNCHANGED <<active, end, irqVars, driverVars>>

Complete(c) ==
  /\ active[c] /\ loaded[c] # None /\ ~pointed[c]
  /\ memory' = [memory EXCEPT ![loaded[c].dst] = memory[loaded[c].src]]
  /\ loaded' = [loaded EXCEPT ![c] = None]
  /\ active' = [active EXCEPT ![c] = FALSE]
  /\ end' = [end EXCEPT ![c] = TRUE]
  /\ raised' = raised \cup {Line(c)}
  /\ UNCHANGED <<handlers, clearers, enabled, irqsOn, frames, op, pointed, driverVars>>

Engine == \E c \in Channels : Fetch(c) \/ Complete(c)

-----------------------------------------------------------------------------
(* Steps of the program: the registers of the core, and with them the      *)
(* interrupt state, are left to module Interrupts.                         *)
Goto(from, to) == ProgramRuns /\ pc = from /\ pc' = to

NoIrqStep    == UNCHANGED <<handlers, clearers, enabled, irqsOn, frames, op>>
NoEngineStep == UNCHANGED <<engineVars, raised>>

(* Callers leave the areas of each other's transfers alone.                *)
MayStart(c, t) ==
  \A d \in Channels \ {c} : pending[d] # None =>
    pending[d].dst \notin {t.src, t.dst} /\ pending[d].src # t.dst

(* dma_start refuses a channel that is READY or IN_PROGRESS; a channel     *)
(* never used is initialised first.                                        *)
DmaStart(c, t) ==
  /\ ProgramRuns /\ pc = "idle"
  /\ starts < MaxStarts
  /\ MayStart(c, t)
  /\ job' = [chan |-> c, transfer |-> t]
  /\ pc' = CASE status[c] \in {"READY", "IN_PROGRESS"} -> "refused"
             [] status[c] = "NEED_INIT"                -> "init"
             [] OTHER                                  -> "write_cb"
  /\ starts' = starts + 1
  /\ hasty' = (hasty \/ pending[c] # None)
  /\ UNCHANGED <<status, cb, pending>>
  /\ NoEngineStep /\ NoIrqStep

StartRefused ==
  /\ Goto("refused", "idle")
  /\ UNCHANGED <<status, cb, job, pending, calls>>
  /\ NoEngineStep /\ NoIrqStep

(* init_channel: READY, channel reset, callbacks registered.  The control  *)
(* block is allocated here and never again.                                *)
InitChannel ==
  /\ Goto("init", "register")
  /\ status' = [status EXCEPT ![job.chan] = "READY"]
  /\ ResetChannel(job.chan)
  /\ UNCHANGED <<cb, job, pending, calls, memory>>
  /\ NoIrqStep

RegisterChannel ==
  /\ Goto("register", "registering")
  /\ CallRegister(Line(job.chan), job.chan)
  /\ UNCHANGED <<status, cb, job, pending, calls, engineVars>>

StoreCallback ==
  /\ pc = "registering"
  /\ RegisterStep
  /\ UNCHANGED <<driverVars, engineVars>>

Registered ==
  /\ Goto("registering", "write_cb")
  /\ op = Idle
  /\ UNCHANGED <<status, cb, job, pending, calls>>
  /\ NoEngineStep /\ NoIrqStep

WriteControlBlock ==
  /\ Goto("write_cb", "stop")
  /\ cb' = [cb EXCEPT ![job.chan] = job.transfer]
  /\ pending' = [pending EXCEPT ![job.chan] = job.transfer]
  /\ UNCHANGED <<status, job, calls>>
  /\ NoEngineStep /\ NoIrqStep

(* CS = 0.                                                                 *)
StopChannel ==
  /\ Goto("stop", "point")
  /\ WriteCS(job.chan, FALSE, FALSE, FALSE)
  /\ UNCHANGED <<status, cb, job, pending, calls, loaded, pointed, memory>>
  /\ NoIrqStep

(* CONBLK_AD = cb: what was loaded before is dropped.                      *)
PointChannel ==
  /\ Goto("point", "ack")
  /\ pointed' = [pointed EXCEPT ![job.chan] = TRUE]
  /\ loaded' = [loaded EXCEPT ![job.chan] = None]
  /\ UNCHANGED <<status, cb, job, pending, calls, active, end, memory, raised>>
  /\ NoIrqStep

(* CS = INT.                                                               *)
AckChannel ==
  /\ Goto("ack", "activate")
  /\ WriteCS(job.chan, FALSE, FALSE, TRUE)
  /\ UNCHANGED <<status, cb, job, pending, calls, loaded, pointed, memory>>
  /\ NoIrqStep

(* CS = ACTIVE; dma_start returns 0.                                       *)
ActivateChannel ==
  /\ Goto("activate", "idle")
  /\ WriteCS(job.chan, TRUE, FALSE, FALSE)
  /\ UNCHANGED <<status, cb, job, pending, calls, loaded, pointed, memory>>
  /\ NoIrqStep

-----------------------------------------------------------------------------
(* Mutant of DmaWait: leaves the status to the clearer.                    *)
DmaWait_KeepsStatus(c) ==
  /\ ProgramRuns /\ pc = "idle"
  /\ pending[c] # None
  /\ job' = [chan |-> c, transfer |-> pending[c]]
  /\ pc' = "look"
  /\ UNCHANGED <<status, cb, pending, calls>>
  /\ NoEngineStep /\ NoIrqStep

(* dma_wait: a fixed delay, during which anything may happen, then one     *)
(* look at CS.                                                             *)
DmaWait(c) ==
  /\ ProgramRuns /\ pc = "idle"
  /\ pending[c] # None
  /\ job' = [chan |-> c, transfer |-> pending[c]]
  /\ pc' = "look"
  /\ status' = [status EXCEPT ![c] = "END"]
  /\ UNCHANGED <<cb, pending, calls>>
  /\ NoEngineStep /\ NoIrqStep

(* Mutant of EndedAndServed: END alone is looked at.                       *)
EndedAndServed_AnyEnd(c) == end[c]

EndedAndServed(c) == ~active[c] /\ end[c] /\ Line(c) \notin raised

(* Mutant of LookAtCS: looks again instead of giving up.                   *)
LookAtCS_Polls ==
  /\ ProgramRuns /\ pc = "look"
  /\ pc' = IF EndedAndServed(job.chan) THEN "finish" ELSE "look"
  /\ UNCHANGED <<status, cb, job, pending, calls>>
  /\ NoEngineStep /\ NoIrqStep

LookAtCS ==
  /\ ProgramRuns /\ pc = "look"
  /\ pc' = IF EndedAndServed(job.chan) THEN "finish" ELSE "reset"
  /\ UNCHANGED <<status, cb, job, pending, calls>>
  /\ NoEngineStep /\ NoIrqStep

(* CS = END | INT, return 0.                                               *)
FinishWait ==
  /\ Goto("finish", "waited")
  /\ WriteCS(job.chan, FALSE, TRUE, TRUE)
  /\ UNCHANGED <<status, cb, job, pending, calls, loaded, pointed, memory>>
  /\ NoIrqStep

(* Mutant of ResetWait: stops the channel instead of resetting it.         *)
ResetWait_Pauses ==
  /\ Goto("reset", "failed")
  /\ WriteCS(job.chan, FALSE, FALSE, FALSE)
  /\ UNCHANGED <<status, cb, job, pending, calls, loaded, pointed, memory>>
  /\ NoIrqStep

(* CS = RESET, return -1.                                                  *)
ResetWait ==
  /\ Goto("reset", "failed")
  /\ ResetChannel(job.chan)
  /\ UNCHANGED <<status, cb, job, pending, calls, memory>>
  /\ NoIrqStep

WaitReturns ==
  /\ ProgramRuns /\ pc \in {"waited", "failed"}
  /\ pc' = "idle"
  /\ pending' = [pending EXCEPT ![job.chan] = None]
  /\ UNCHANGED <<status, cb, job, calls>>
  /\ NoEngineStep /\ NoIrqStep

-----------------------------------------------------------------------------
(* The dispatch of module Interrupts; the clearer of a channel,            *)
(* dma_irq_clearer, writes CS = INT and marks the channel END.             *)
ChannelOf(irq) == CHOOSE c \in Channels : Line(c) = irq

(* Mutant of ClearChannel: the status is stored at the interrupt's number. *)
ClearChannel_ByLine ==
  /\ RunClearer
  /\ active' = [active EXCEPT ![ChannelOf(Top.j)] = FALSE]
  /\ status' = [c \in Channels \cup {Top.j} |-> IF c = Top.j THEN "END" ELSE status[c]]
  /\ UNCHANGED <<end, loaded, pointed, memory, cb, pc, job, pending, calls>>

ClearChannel ==
  /\ RunClearer
  /\ active' = [active EXCEPT ![ChannelOf(Top.j)] = FALSE]
  /\ status' = [status EXCEPT ![ChannelOf(Top.j)] = "END"]
  /\ UNCHANGED <<end, loaded, pointed, memory, cb, pc, job, pending, calls>>

Interrupted ==
  \/ /\ TakeIrq \/ ScanPast \/ ScanHit \/ HandlerReturns \/ ReturnFromIrq
     /\ UNCHANGED <<engineVars, driverVars>>
  \/ ClearChannel

Call ==
  \/ \E c \in Channels, t \in Transfers : DmaStart(c, t)
  \/ \E c \in Channels : DmaWait(c)

CallStep ==
  \/ StartRefused \/ InitChannel \/ RegisterChannel \/ StoreCallback \/ Registered
  \/ WriteControlBlock \/ StopChannel \/ PointChannel \/ AckChannel \/ ActivateChannel
  \/ LookAtCS \/ FinishWait \/ ResetWait \/ WaitReturns

Next == Engine \/ Call \/ CallStep \/ Interrupted

(* The core executes the program and takes interrupts.  Nothing is assumed *)
(* of callers, nor of the engine, which may take longer than any wait.     *)
Spec == Init /\ [][Next]_vars /\ WF_vars(CallStep) /\ WF_vars(Interrupted)

-----------------------------------------------------------------------------
(* Types of the driver's and the engine's state.                           *)
TypeOK ==
  /\ IrqTypeOK
  /\ status \in [Channels -> {"NEED_INIT", "READY", "IN_PROGRESS", "END"}]
  /\ cb \in [Channels -> Transfers \cup {None}]
  /\ loaded \in [Channels -> Transfers \cup {None}]
  /\ pending \in [Channels -> Transfers \cup {None}]
  /\ {pointed, active, end} \subseteq [Channels -> BOOLEAN]
  /\ memory \in [Pages -> Pages \cup {"torn"}]
  /\ job \in [chan : Channels, transfer : Transfers \cup {None}]
  /\ starts \in 0 .. MaxStarts /\ hasty \in BOOLEAN

(* When dma_wait has found the transfer good (it returns 0), the copy has  *)
(* been made: the destination holds what the source holds, although END,   *)
(* INT and the clearer of an earlier transfer may all have been around.    *)
WaitedMeansCopied ==
  pc \in {"finish", "waited"} => memory[job.transfer.dst] = memory[job.transfer.src]

(* When dma_wait has returned, either way, the engine is done with the     *)
(* channel: it will not write to memory that the caller has back.          *)
ReturnedMeansQuiet ==
  pc \in {"waited", "failed"} =>
    loaded[job.chan] = None /\ ~active[job.chan] /\ Line(job.chan) \notin raised

(* So dma_wait tells the truth either way: what it reports was copied, and *)
(* what it gave up is over.                                                *)
WaitSound == TypeOK /\ WaitedMeansCopied /\ ReturnedMeansQuiet

(* dma_start never rewrites the control block of a transfer the engine has *)
(* not finished: a channel with work in flight is busy.                    *)
BusyIsRefused ==
  pc = "write_cb" => loaded[job.chan] = None /\ ~pointed[job.chan]

(* That much holds while every caller has waited, in time or not, for a    *)
(* channel before it started it again: dma_wait's way out resets it.       *)
PatientNotClobbered == ~hasty => BusyIsRefused

(* And such callers are never told that the channel is busy.               *)
PatientIsAccepted == ~hasty => pc # "refused"

(* A caller that waits before it starts a channel again is served: it is   *)
(* not refused, and it rewrites no control block under the engine.         *)
PatientServed == PatientNotClobbered /\ PatientIsAccepted

(* Every call returns: in particular no interrupt of a channel keeps the   *)
(* core from the program for ever.                                         *)
CallsReturn == pc # "idle" ~> pc = "idle"
=============================================================================
