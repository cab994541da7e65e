------------------------------ MODULE Interrupts ------------------------------
(***************************************************************************)
(* The interrupt controller driver, kernel/arch/arm/rpi-interrupts.c, with *)
(* the IRQ entry of boot.S, on the one core that runs the kernel.          *)
(*                                                                         *)
(* The program registers and unregisters callbacks with interrupts on, one *)
(* store at a time.  An interrupt is taken between any two of its steps    *)
(* and runs irq_handler to the end before the program goes on; the handler *)
(* callback runs with interrupts on again and may itself be interrupted,   *)
(* so activations of irq_handler nest, the innermost being the last of     *)
(* frames.                                                                 *)
(*                                                                         *)
(* A device raises its line and keeps it up until its clearer (or the      *)
(* device's own doing) takes it down.  External: a pending register shows  *)
(* the lines that are both raised and enabled.                             *)
(***************************************************************************)
EXTENDS Integers, Sequences, FiniteSetsExt

CONSTANTS
  Irqs,        \* the numbers of the lines that devices are connected to
  NumIrqs,     \* NUM_IRQS, the length of both callback tables
  Drivers,     \* who registers: names a pair of handler and clearer
  NoCallback   \* the null pointer

ASSUME IrqsAssumption ==
  /\ NumIrqs \in Nat /\ IsFiniteSet(Irqs) /\ Irqs \subseteq Nat \ {NumIrqs}
  /\ NoCallback \notin Drivers

VARIABLES
  handlers, clearers,   \* the callback tables
  enabled,              \* the controller's enable bits
  raised,               \* the lines that devices hold up
  irqsOn,               \* the I bit of CPSR is clear
  frames,               \* the activations of irq_handler, innermost last
  op                    \* the call the program is in

irqVars == <<handlers, clearers, enabled, raised, irqsOn, frames, op>>

Idle    == [call |-> "none"]
Tables  == [Irqs -> Drivers \cup {NoCallback}]
Calls   == [call : {"register"}, irq : Irqs, driver : Drivers,
            next : {"handler", "clearer", "enable"}]
           \cup [call : {"unregister"}, irq : Irqs,
                 next : {"handler", "clearer", "disable"}]

Pending == raised \cap enabled

(* interrupts_init: tables zeroed, all lines disabled, interrupts on.      *)
IrqInit ==
  /\ handlers = [irq \in Irqs |-> NoCallback]
  /\ clearers = [irq \in Irqs |-> NoCallback]
  /\ enabled = {}
  /\ raised = {}
  /\ irqsOn = TRUE
  /\ frames = <<>>
  /\ op = Idle

-----------------------------------------------------------------------------
(* The program runs when no activation of irq_handler does.                *)
ProgramRuns == frames = <<>>

(* IRQ_IS_BASIC, IRQ_IS_GPU2, IRQ_IS_GPU1: both calls report any other     *)
(* number as invalid.                                                      *)
IsBasic(irq) == irq >= 64
IsGpu2(irq)  == irq >= 32 /\ irq < 64
IsGpu1(irq)  == irq < 32

AcceptedIrq(irq) == IsBasic(irq) \/ IsGpu2(irq) \/ IsGpu1(irq)

(* A caller registers a line that has no callbacks, as init_channel does.  *)
CallRegister(irq, driver) ==
  /\ ProgramRuns /\ op = Idle
  /\ AcceptedIrq(irq)
  /\ handlers[irq] = NoCallback
  /\ op' = [call |-> "register", irq |-> irq, driver |-> driver, next |-> "handler"]
  /\ UNCHANGED <<handlers, clearers, enabled, raised, irqsOn, frames>>

(* Mutant of RegisterStep: the line is enabled before the clearer is       *)
(* stored.                                                                 *)
RegisterStep_EnablesEarly ==
  /\ ProgramRuns /\ op.call = "register"
  /\ \/ /\ op.next = "handler"
        /\ handlers' = [handlers EXCEPT ![op.irq] = op.driver]
        /\ op' = [op EXCEPT !.next = "enable"]
        /\ UNCHANGED <<clearers, enabled>>
     \/ /\ op.next = "enable"
        /\ enabled' = enabled \cup {op.irq}
        /\ op' = [op EXCEPT !.next = "clearer"]
        /\ UNCHANGED <<handlers, clearers>>
     \/ /\ op.next = "clearer"
        /\ clearers' = [clearers EXCEPT ![op.irq] = op.driver]
        /\ op' = Idle
        /\ UNCHANGED <<handlers, enabled>>
  /\ UNCHANGED <<raised, irqsOn, frames>>

RegisterStep ==
  /\ ProgramRuns /\ op.call = "register"
  /\ \/ /\ op.next = "handler"
        /\ handlers' = [handlers EXCEPT ![op.irq] = op.driver]
        /\ op' = [op EXCEPT !.next = "clearer"]
        /\ UNCHANGED <<clearers, enabled>>
     \/ /\ op.next = "clearer"
        /\ clearers' = [clearers EXCEPT ![op.irq] = op.driver]
        /\ op' = [op EXCEPT !.next = "enable"]
        /\ UNCHANGED <<handlers, enabled>>
     \/ /\ op.next = "enable"
        /\ enabled' = enabled \cup {op.irq}
        /\ op' = Idle
        /\ UNCHANGED <<handlers, clearers>>
  /\ UNCHANGED <<raised, irqsOn, frames>>

CallUnregister(irq) ==
  /\ ProgramRuns /\ op = Idle
  /\ handlers[irq] # NoCallback
  /\ op' = [call |-> "unregister", irq |-> irq, next |-> "handler"]
  /\ UNCHANGED <<handlers, clearers, enabled, raised, irqsOn, frames>>

UnregisterStep ==
  /\ ProgramRuns /\ op.call = "unregister"
  /\ \/ /\ op.next = "handler"
        /\ handlers' = [handlers EXCEPT ![op.irq] = NoCallback]
        /\ op' = [op EXCEPT !.next = "clearer"]
        /\ UNCHANGED <<clearers, enabled>>
     \/ /\ op.next = "clearer"
        /\ clearers' = [clearers EXCEPT ![op.irq] = NoCallback]
        /\ op' = [op EXCEPT !.next = "disable"]
        /\ UNCHANGED <<handlers, enabled>>
     \/ /\ op.next = "disable"
        /\ enabled' = enabled \ {op.irq}
        /\ op' = Idle
        /\ UNCHANGED <<handlers, clearers>>
  /\ UNCHANGED <<raised, irqsOn, frames>>

-----------------------------------------------------------------------------
(* Mutants of NextLine: the index is not moved on; the loop ends one past  *)
(* the last line in use.                                                   *)
NextLine_Stays(j) ==
  LET later == {irq \in Irqs : irq >= j /\ irq < NumIrqs} IN
  IF later = {} THEN NumIrqs ELSE Min(later)

NextLine_EndsEarly(j) ==
  LET later == {irq \in Irqs : irq > j /\ irq < NumIrqs} IN
  IF later = {} THEN j + 1 ELSE Min(later)

(* irq_handler's loop over the table, on the lines there are.              *)
NextLine(j) ==
  LET later == {irq \in Irqs : irq > j /\ irq < NumIrqs} IN
  IF later = {} THEN NumIrqs ELSE Min(later)

Top == frames[Len(frames)]

SetTop(f) == frames' = [frames EXCEPT ![Len(frames)] = f]

InFrame(pc) == frames # <<>> /\ Top.pc = pc

(* irq_handler_asm_wrapper: the return state and the caller-saved          *)
(* registers go on the stack, interrupts are off from here.                *)
TakeIrq ==
  /\ irqsOn /\ Pending # {}
  /\ frames' = Append(frames, [pc |-> "scan", j |-> NextLine(-1)])
  /\ irqsOn' = FALSE
  /\ UNCHANGED <<handlers, clearers, enabled, raised, op>>

Serviceable(j) == j \in Pending /\ handlers[j] # NoCallback

(* Mutant of ScanPast: gives up at a pending line without callbacks.       *)
ScanPast_GivesUp ==
  /\ InFrame("scan") /\ Top.j < NumIrqs
  /\ ~Serviceable(Top.j)
  /\ SetTop([Top EXCEPT !.j = IF Top.j \in Pending THEN NumIrqs ELSE NextLine(Top.j)])
  /\ UNCHANGED <<handlers, clearers, enabled, raised, irqsOn, op>>

ScanPast ==
  /\ InFrame("scan") /\ Top.j < NumIrqs
  /\ ~Serviceable(Top.j)
  /\ SetTop([Top EXCEPT !.j = NextLine(Top.j)])
  /\ UNCHANGED <<handlers, clearers, enabled, raised, irqsOn, op>>

ScanHit ==
  /\ InFrame("scan") /\ Top.j < NumIrqs
  /\ Serviceable(Top.j)
  /\ SetTop([Top EXCEPT !.pc = "clear"])
  /\ UNCHANGED <<handlers, clearers, enabled, raised, irqsOn, op>>

(* The clearer takes the line down; the handler then runs with interrupts  *)
(* enabled.                                                                *)
RunClearer ==
  /\ InFrame("clear")
  /\ raised' = raised \ {Top.j}
  /\ irqsOn' = TRUE
  /\ SetTop([Top EXCEPT !.pc = "handler"])
  /\ UNCHANGED <<handlers, clearers, enabled, op>>

(* Mutant of HandlerReturns: interrupts are left on.                       *)
HandlerReturns_IrqsOn ==
  /\ InFrame("handler")
  /\ SetTop([Top EXCEPT !.pc = "return"])
  /\ UNCHANGED <<handlers, clearers, enabled, raised, irqsOn, op>>

HandlerReturns ==
  /\ InFrame("handler")
  /\ irqsOn' = FALSE
  /\ SetTop([Top EXCEPT !.pc = "return"])
  /\ UNCHANGED <<handlers, clearers, enabled, raised, op>>

(* rfeia restores the CPSR of what was interrupted, which had interrupts   *)
(* on or it would not have been.                                           *)
ReturnFromIrq ==
  /\ frames # <<>>
  /\ Top.pc = "return" \/ (Top.pc = "scan" /\ Top.j = NumIrqs)
  /\ frames' = SubSeq(frames, 1, Len(frames) - 1)
  /\ irqsOn' = TRUE
  /\ UNCHANGED <<handlers, clearers, enabled, raised, op>>

-----------------------------------------------------------------------------
(* External: the devices.                                                  *)
Raise(irq) ==
  /\ irq \notin raised
  /\ raised' = raised \cup {irq}
  /\ UNCHANGED <<handlers, clearers, enabled, irqsOn, frames, op>>

Program ==
  \/ \E irq \in Irqs, driver \in Drivers : CallRegister(irq, driver)
  \/ RegisterStep
  \/ \E irq \in Irqs : CallUnregister(irq)
  \/ UnregisterStep

Dispatch == TakeIrq \/ ScanPast \/ ScanHit \/ RunClearer \/ HandlerReturns \/ ReturnFromIrq

IrqNext == Program \/ Dispatch \/ \E irq \in Irqs : Raise(irq)

(* The core executes: an activation of irq_handler goes on, a pending      *)
(* interrupt is taken.                                                     *)
IrqSpec == IrqInit /\ [][IrqNext]_irqVars /\ WF_irqVars(Dispatch)

-----------------------------------------------------------------------------
(* Types of the tables, the controller, the activations and the call.      *)
IrqTypeOK ==
  /\ handlers \in Tables /\ clearers \in Tables
  /\ enabled \subseteq Irqs /\ raised \subseteq Irqs
  /\ irqsOn \in BOOLEAN
  /\ frames \in Seq([pc : {"scan", "clear", "handler", "return"}, j : Irqs \cup {NumIrqs}])
  /\ op \in Calls \cup {Idle}

(* irq_handler tests handlers[j] and then calls clearers[j] and later      *)
(* handlers[j] without a test: wherever an interrupt falls among the       *)
(* stores of a registration, what it calls is there, and both callbacks    *)
(* are those of one driver.                                                *)
CallsAPair ==
  \A i \in DOMAIN frames : frames[i].pc \in {"clear", "handler"} =>
    /\ handlers[frames[i].j] # NoCallback
    /\ clearers[frames[i].j] = handlers[frames[i].j]

(* An activation is only ever interrupted while it runs a handler, never   *)
(* in its scan, in a clearer or on its way out; interrupts are on exactly  *)
(* when the program or a handler runs.                                     *)
OnlyHandlersInterrupted ==
  /\ \A i \in 1 .. Len(frames) - 1 : frames[i].pc = "handler"
  /\ irqsOn <=> frames = <<>> \/ Top.pc = "handler"

(* Wherever interrupts fall, activations nest and run as they should: only *)
(* in handlers, and with callbacks that belong together.                   *)
ActivationsSound == IrqTypeOK /\ OnlyHandlersInterrupted /\ CallsAPair

(* A line that is raised, enabled and has callbacks is served, whatever    *)
(* the other lines do and however lines without callbacks keep the         *)
(* interrupt pending, unless its driver unregisters first.                 *)
RaisedIsServed ==
  \A irq \in Irqs : (irq \in Pending /\ handlers[irq] # NoCallback)
                      ~> (irq \notin raised \/ handlers[irq] = NoCallback)

(* A raised, enabled line whose callbacks unregister_irq_handler has       *)
(* already taken away: irq_handler returns without taking it down and is   *)
(* entered again at once.                                                  *)
Orphaned == \E irq \in Pending : handlers[irq] = NoCallback

(* The interrupted program is resumed, however deep activations nest;      *)
(* the one thing that can hold it up is an orphaned line, between the      *)
(* first and the last store of unregister_irq_handler.                     *)
ProgramResumed == frames # <<>> ~> (ProgramRuns \/ Orphaned)
=============================================================================
