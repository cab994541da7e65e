----------------------------- MODULE MCInterrupts -----------------------------
(***************************************************************************)
(* Two lines, two drivers; each device raises its line at most             *)
(* MaxRaises times, so that lower lines cannot starve higher ones for ever *)
(* and activations nest to a bounded depth.                                *)
(***************************************************************************)
EXTENDS Interrupts

CONSTANT MaxRaises

VARIABLE quota   \* how often each device may still raise its line

MCIrqs    == {20, 64}
MCNumIrqs == 72

MCInit == IrqInit /\ quota = [irq \in Irqs |-> MaxRaises]

RaiseWithin(irq) ==
  /\ quota[irq] > 0
  /\ Raise(irq)
  /\ quota' = [quota EXCEPT ![irq] = @ - 1]

MCNext ==
  \/ Program /\ UNCHANGED quota
  \/ Dispatch /\ UNCHANGED quota
  \/ \E irq \in Irqs : RaiseWithin(irq)

MCSpec == /\ MCInit /\ [][MCNext]_<<irqVars, quota>>
          /\ WF_<<irqVars, quota>>(Dispatch /\ UNCHANGED quota)
=============================================================================
