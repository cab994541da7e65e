------------------------------ MODULE SysTimer ------------------------------
(***************************************************************************)
(* The system timer driver, kernel/arch/arm/systimer.c.                    *)
(*                                                                         *)
(* The timer is a free-running counter of microseconds of which the core   *)
(* can read one half at a time; it runs on between any two reads, and by   *)
(* any amount (the program may be interrupted there).  now is the time the *)
(* counter shows, W the number of values of one half: 2^32 on the machine. *)
(***************************************************************************)
EXTENDS Integers

CONSTANTS
  W,          \* values of a 32-bit register
  Horizon,    \* the model ends here; the 64-bit counter does not roll over
  Delays      \* the delays that are asked for

ASSUME TimerAssumption ==
  /\ W \in Nat \ {0}
  /\ Horizon \in Nat /\ Horizon < W * W
  /\ Delays \subseteq Nat /\ \A d \in Delays : Horizon + d < W * W

VARIABLES
  now,        \* the counter
  call,       \* the function the program is in: "none", or its name
  timerPc,    \* which read comes next, "return" when the call is over
  first,      \* timer_tick of MicroDelay, curr of udelay
  delay,      \* its argument
  high, low,  \* resVal and lowCount of timer_getTickCount64, x of udelay
  began       \* when the call was made (no variable of the program)

timerVars == <<now, call, timerPc, first, delay, high, low, began>>

CounterHigh == now \div W
CounterLow  == now % W

TimerInit ==
  /\ now \in 0 .. Horizon
  /\ call = "none" /\ timerPc = "return"
  /\ first = 0 /\ delay = 0 /\ high = 0 /\ low = 0 /\ began = 0

(* External: the counter.                                                  *)
Tick ==
  /\ now < Horizon
  /\ now' = now + 1
  /\ UNCHANGED <<call, timerPc, first, delay, high, low, began>>

-----------------------------------------------------------------------------
Begin(name, at, d) ==
  /\ call = "none"
  /\ call' = name /\ timerPc' = at /\ delay' = d /\ began' = now
  /\ UNCHANGED <<now, high, low, first>>

CallGetTickCount64 == Begin("timer_getTickCount64", "high", 0)

(* MicroDelay reads the time, and then again until the delay has passed.   *)
CallMicroDelay(d) == Begin("MicroDelay_start", "high", d)

CallUdelay(d) == d < W /\ Begin("udelay", "first", d)

(* The loop of timer_getTickCount64: high half, low half, high half again. *)
ReadHigh ==
  /\ timerPc = "high" /\ timerPc' = "low"
  /\ high' = CounterHigh
  /\ UNCHANGED <<now, call, first, delay, low, began>>

ReadLow ==
  /\ timerPc = "low" /\ timerPc' = "check"
  /\ low' = CounterLow
  /\ UNCHANGED <<now, call, first, delay, high, began>>

(* Mutants of CheckHigh: the halves are joined unchecked; a retry does not *)
(* read the high half again.                                               *)
CheckHigh_Never ==
  /\ timerPc = "check" /\ timerPc' = "joined"
  /\ UNCHANGED <<now, call, first, delay, high, low, began>>

CheckHigh_LowOnly ==
  /\ timerPc = "check"
  /\ timerPc' = IF high # CounterHigh THEN "low" ELSE "joined"
  /\ UNCHANGED <<now, call, first, delay, high, low, began>>

CheckHigh ==
  /\ timerPc = "check"
  /\ timerPc' = IF high # CounterHigh THEN "high" ELSE "joined"
  /\ UNCHANGED <<now, call, first, delay, high, low, began>>

(* resVal << 32 | lowCount                                                 *)
TickCount64 == high * W + low

(* What the caller of timer_getTickCount64 does with the time.             *)
UseTick ==
  /\ timerPc = "joined"
  /\ \/ /\ call = "MicroDelay_start"
        /\ first' = TickCount64
        /\ call' = "MicroDelay" /\ timerPc' = "high"
     \/ /\ call = "MicroDelay"
        /\ timerPc' = IF TickCount64 < (first + delay) % (W * W) THEN "high" ELSE "return"
        /\ UNCHANGED <<call, first>>
     \/ /\ call = "timer_getTickCount64"
        /\ timerPc' = "return"
        /\ UNCHANGED <<call, first>>
  /\ UNCHANGED <<now, delay, high, low, began>>

(* udelay subtracts low halves modulo 2^32.                                *)
ReadFirst ==
  /\ timerPc = "first" /\ timerPc' = "elapsed"
  /\ first' = CounterLow
  /\ UNCHANGED <<now, call, delay, high, low, began>>

(* Mutant of ReadElapsed: one microsecond short.                           *)
ReadElapsed_Short ==
  /\ timerPc = "elapsed"
  /\ low' = (CounterLow - first) % W
  /\ timerPc' = IF low' + 1 < delay THEN "elapsed" ELSE "return"
  /\ UNCHANGED <<now, call, first, delay, high, began>>

ReadElapsed ==
  /\ timerPc = "elapsed"
  /\ low' = (CounterLow - first) % W
  /\ timerPc' = IF low' < delay THEN "elapsed" ELSE "return"
  /\ UNCHANGED <<now, call, first, delay, high, began>>

Return ==
  /\ call # "none" /\ timerPc = "return"
  /\ call' = "none"
  /\ UNCHANGED <<now, timerPc, first, delay, high, low, began>>

Step == ReadHigh \/ ReadLow \/ CheckHigh \/ UseTick \/ ReadFirst \/ ReadElapsed \/ Return

TimerNext ==
  \/ Tick
  \/ CallGetTickCount64
  \/ \E d \in Delays : CallMicroDelay(d) \/ CallUdelay(d)
  \/ Step

(* The counter runs, and so does the core.                                 *)
TimerSpec == TimerInit /\ [][TimerNext]_timerVars /\ WF_timerVars(Tick) /\ WF_timerVars(Step)

-----------------------------------------------------------------------------
(* Mutant of TickDifference: the roll-over itself is not counted.          *)
TickDifference_NoRollOver(us1, us2) ==
  IF us1 > us2 THEN (us2 + (W * W - 1 - us1)) % (W * W)
               ELSE us2 - us1

(* tick_difference of two readings, modulo 2^64 as it is computed.         *)
TickDifference(us1, us2) ==
  IF us1 > us2 THEN (us2 + (W * W - 1 - us1 + 1)) % (W * W)
               ELSE us2 - us1

-----------------------------------------------------------------------------
Waiting == {"MicroDelay_start", "MicroDelay", "udelay"}

(* Types.                                                                  *)
TimerTypeOK ==
  /\ now \in 0 .. Horizon
  /\ call \in {"none", "timer_getTickCount64"} \cup Waiting
  /\ timerPc \in {"high", "low", "check", "joined", "first", "elapsed", "return"}
  /\ first \in Nat /\ began \in 0 .. Horizon /\ delay \in Nat
  /\ high \in 0 .. W - 1 /\ low \in 0 .. W - 1

(* timer_getTickCount64 never joins halves of different times: what it     *)
(* returns was the counter's value at some moment during the call, also    *)
(* when the low half rolls over between the reads.                         *)
TickNotTorn == timerPc = "joined" => began <= TickCount64 /\ TickCount64 <= now

(* MicroDelay and udelay never return early: the time asked for has passed *)
(* since they were called.                                                 *)
DelayElapsed == call \in Waiting /\ timerPc = "return" => now - began >= delay

(* tick_difference of an earlier and a later reading is the time between   *)
(* them, and stays so when the counter has rolled over in between.         *)
DifferenceIsElapsed ==
  timerPc = "joined" =>
    /\ TickDifference(began, TickCount64) = TickCount64 - began
    /\ \A shift \in {W * W - 1 - began, W * W - 1} :
         TickDifference((began + shift) % (W * W), (TickCount64 + shift) % (W * W))
           = TickCount64 - began

(* timer_getTickCount64 returns however the counter runs on between its    *)
(* reads, and MicroDelay returns when its delay ends within the horizon.   *)
TimerReturns ==
  /\ call = "timer_getTickCount64" ~> call = "none"
  /\ (call = "MicroDelay" /\ first + delay <= Horizon) ~> call = "none"
=============================================================================
