----------------------------- MODULE ChipProofs -----------------------------
(***************************************************************************)
(* Proofs about the drivers of what is on the chip: the system timer, the  *)
(* interrupt controller, and the DMA engine, whose driver stands on that   *)
(* of the interrupts.                                                      *)
(*                                                                         *)
(* Of SysTimer: for every register width, every delay and every way the    *)
(* counter advances between two reads.                                     *)
(*                                                                         *)
(* Of Interrupts, for any lines, drivers, length of the callback tables    *)
(* and depth to which activations nest: ActivationsSound is not inductive, *)
(* that a pending line with a handler also has the clearer that goes with  *)
(* it depends on how far the registration under way has got.  PairsBelong  *)
(* says that.                                                              *)
(*                                                                         *)
(* Of Dma, whose steps are steps of Interrupts or move lines only, for any *)
(* channels, areas and number of calls: what dma_wait may conclude from    *)
(* one look at CS depends on where the engine, the interrupt and the       *)
(* driver can be with a channel together.  ChannelSound says it for every  *)
(* channel and every point of the call the program is in, WorkApart and    *)
(* CallSound why no other channel disturbs.                                *)
(***************************************************************************)
EXTENDS Dma, SysTimer, NaturalsInduction, WellFoundedInduction, SequenceTheorems, TLAPS

(***************************************************************************)
(* The system timer.                                                       *)
(***************************************************************************)

(* A reading is its high half times W plus its low half.                   *)
LEMMA Halves ==
  ASSUME NEW n \in Nat
  PROVE  /\ n \div W \in Nat /\ n % W \in 0 .. W - 1
         /\ n = (n \div W) * W + (n % W)
BY TimerAssumption

(* The high half never runs backwards.                                     *)
LEMMA HighMonotonic ==
  ASSUME NEW m \in Nat, NEW n \in Nat, m <= n
  PROVE  m \div W <= n \div W
<1> DEFINE a == m \div W
           b == n \div W
<1>1. /\ a \in Nat /\ b \in Nat /\ W \in Nat \ {0}
      /\ a * W <= m /\ n < b * W + W
  BY TimerAssumption, Halves
<1>2. a * W < (b + 1) * W
  BY <1>1
<1>3. a < b + 1
  <2> HIDE DEF a, b
  <2>1. ASSUME a >= b + 1 PROVE a * W >= (b + 1) * W
    BY <2>1, <1>1
  <2>2. QED
    BY <2>1, <1>1, <1>2
<1>4. QED
  BY <1>1, <1>3

(* Halves read at m and, not earlier, at n are those of m when the high    *)
(* half is still the same at some k after both.                            *)
LEMMA JoinedHalves ==
  ASSUME NEW m \in Nat, NEW n \in Nat, NEW k \in Nat, m <= n, n <= k,
         m \div W = k \div W
  PROVE  (m \div W) * W + (n % W) = n
<1>1. m \div W <= n \div W /\ n \div W <= k \div W
  BY HighMonotonic
<1>2. m \div W = n \div W
  BY <1>1, Halves
<1>3. QED
  BY <1>2, Halves

(* A difference of low halves, modulo W, is never more than the time       *)
(* between the two readings.                                               *)
LEMMA LowDifference ==
  ASSUME NEW m \in Nat, NEW n \in Nat, m <= n
  PROVE  /\ ((n % W) - (m % W)) % W \in 0 .. W - 1
         /\ ((n % W) - (m % W)) % W <= n - m
<1> DEFINE a == m % W
           b == n % W
<1>1. /\ W \in Nat \ {0} /\ a \in 0 .. W - 1 /\ b \in 0 .. W - 1
      /\ m = (m \div W) * W + a /\ n = (n \div W) * W + b
      /\ m \div W \in Nat /\ n \div W \in Nat /\ m \div W <= n \div W
  BY TimerAssumption, Halves, HighMonotonic
<1> HIDE DEF a, b
<1>2. CASE b >= a
  <2>1. (b - a) % W = b - a
    BY <1>1, <1>2
  <2>2. (m \div W) * W <= (n \div W) * W
    BY <1>1
  <2>3. QED
    BY <1>1, <2>1, <2>2, <1>2 DEF a, b
<1>3. CASE b < a
  <2>1. (b - a) % W = b - a + W
    <3>1. b - a + W \in 0 .. W - 1
      BY <1>1, <1>3
    <3>2. \A z \in 0 .. W - 1 : (z - W) % W = z
      BY <1>1
    <3>3. b - a = (b - a + W) - W
      BY <1>1
    <3>4. QED
      BY <3>1, <3>2, <3>3
  <2>2. m \div W < n \div W
    BY <1>1, <1>3
  <2>3. (m \div W) * W + W <= (n \div W) * W
    <3>1. m \div W + 1 <= n \div W
      BY <1>1, <2>2
    <3>2. \A x, y \in Nat : x <= y => x * W <= y * W
      BY <1>1
    <3>3. (m \div W + 1) * W <= (n \div W) * W
      BY <1>1, <3>1, <3>2
    <3>4. QED
      BY <1>1, <3>3
  <2>4. QED
    BY <1>1, <1>3, <2>1, <2>3 DEF a, b
<1>4. QED
  BY <1>1, <1>2, <1>3

-----------------------------------------------------------------------------
(* The inductive invariant remembers when each half was read.              *)
HalvesRead ==
  /\ timerPc \in {"low", "check"} =>
       \E m \in began .. now : /\ high = m \div W
                               /\ timerPc = "check" => \E n \in m .. now : low = n % W
  /\ timerPc = "joined" => began <= TickCount64 /\ TickCount64 <= now

DelayBegan ==
  /\ call = "MicroDelay" => began <= first /\ first <= now
  /\ timerPc = "elapsed" => \E m \in began .. now : first = m % W
  /\ delay \in Delays \cup {0}
  /\ call # "none" /\ timerPc = "return" => now - began >= delay
  /\ call = "none" => timerPc = "return"
  /\ call = "timer_getTickCount64" => delay = 0
  /\ timerPc \in {"first", "elapsed"} => call = "udelay"
  /\ call = "MicroDelay_start" => timerPc # "return"

IInv ==
  /\ TimerTypeOK
  /\ began <= now
  /\ HalvesRead
  /\ DelayBegan

LEMMA InitInvariant == TimerInit => IInv
BY TimerAssumption DEF TimerInit, IInv, TimerTypeOK, HalvesRead, DelayBegan, Waiting

LEMMA TickInvariant == IInv /\ Tick => IInv'
<1> SUFFICES ASSUME IInv, Tick PROVE IInv'
  OBVIOUS
<1>1. now \in Nat /\ began \in Nat /\ now' = now + 1 /\ now' \in 0 .. Horizon
  BY TimerAssumption DEF Tick, IInv, TimerTypeOK
<1>2. UNCHANGED <<call, timerPc, first, delay, high, low, began>>
  BY DEF Tick
<1>3. TimerTypeOK' /\ (began <= now)'
  BY <1>1, <1>2 DEF IInv, TimerTypeOK, Waiting
<1>4. HalvesRead'
  <2>1. ASSUME timerPc \in {"low", "check"}
        PROVE  \E m \in began .. now' :
                 /\ high = m \div W
                 /\ timerPc = "check" => \E n \in m .. now' : low = n % W
    <3>1. PICK m \in began .. now :
            /\ high = m \div W
            /\ timerPc = "check" => \E n \in m .. now : low = n % W
      BY <2>1 DEF IInv, HalvesRead
    <3>2. m \in began .. now'
      BY <1>1, <3>1
    <3>3. ASSUME timerPc = "check" PROVE \E n \in m .. now' : low = n % W
      <4>1. PICK n \in m .. now : low = n % W
        BY <3>1, <3>3
      <4>2. n \in m .. now'
        BY <1>1, <4>1
      <4>3. QED
        BY <4>1, <4>2
    <3>4. QED
      BY <3>1, <3>2, <3>3
  <2>2. timerPc = "joined" => began <= TickCount64 /\ TickCount64 <= now'
    BY <1>1, TimerAssumption DEF IInv, HalvesRead, TickCount64, TimerTypeOK
  <2>3. QED
    BY <1>2, <2>1, <2>2 DEF HalvesRead, TickCount64
<1>5. DelayBegan'
  <2>1. timerPc = "elapsed" => \E m \in began .. now' : first = m % W
    BY <1>1 DEF IInv, DelayBegan
  <2>2. delay \in Nat /\ first \in Nat
    BY DEF IInv, TimerTypeOK
  <2>3. QED
    BY <1>1, <1>2, <2>1, <2>2 DEF IInv, DelayBegan
<1>6. QED
  BY <1>3, <1>4, <1>5 DEF IInv

LEMMA BeginInvariant ==
  ASSUME IInv,
         CallGetTickCount64 \/ (\E d \in Delays : CallMicroDelay(d) \/ CallUdelay(d))
  PROVE  IInv'
<1>1. PICK name \in {"timer_getTickCount64", "MicroDelay_start", "udelay"},
           at \in {"high", "first"}, d \in Delays \cup {0} :
        /\ Begin(name, at, d)
        /\ at = "first" <=> name = "udelay"
        /\ name = "timer_getTickCount64" => d = 0
  BY DEF CallGetTickCount64, CallMicroDelay, CallUdelay
<1>2. /\ call' = name /\ timerPc' = at /\ delay' = d /\ began' = now
      /\ UNCHANGED <<now, high, low, first>>
  BY <1>1 DEF Begin
<1>3. now \in 0 .. Horizon /\ d \in Nat
  BY TimerAssumption DEF IInv, TimerTypeOK
<1>4. TimerTypeOK'
  BY <1>2, <1>3 DEF IInv, TimerTypeOK, Waiting
<1>5. (began <= now)' /\ HalvesRead'
  BY <1>2, <1>3 DEF HalvesRead
<1>6. DelayBegan'
  BY <1>1, <1>2, <1>3 DEF DelayBegan
<1>7. QED
  BY <1>4, <1>5, <1>6 DEF IInv

LEMMA ReadHighInvariant == IInv /\ ReadHigh => IInv'
<1> SUFFICES ASSUME IInv, ReadHigh PROVE IInv'
  OBVIOUS
<1>1. /\ timerPc = "high" /\ timerPc' = "low" /\ high' = CounterHigh
      /\ UNCHANGED <<now, call, first, delay, low, began>>
  BY DEF ReadHigh
<1>2. now \in Nat /\ began \in Nat /\ began <= now /\ now < W * W /\ W \in Nat \ {0}
  BY TimerAssumption DEF IInv, TimerTypeOK
<1>3. CounterHigh \in 0 .. W - 1
  <2>1. /\ now \div W \in Nat /\ now % W \in 0 .. W - 1
        /\ now = (now \div W) * W + (now % W)
    BY <1>2, Halves
  <2>2. (now \div W) * W < W * W
    BY <1>2, <2>1
  <2>3. \A q \in Nat : q >= W => q * W >= W * W
    BY <1>2
  <2>4. QED
    BY <1>2, <2>1, <2>2, <2>3 DEF CounterHigh
<1>4. TimerTypeOK'
  BY <1>1, <1>3 DEF IInv, TimerTypeOK, Waiting
<1>5. HalvesRead'
  BY <1>1, <1>2 DEF HalvesRead, CounterHigh
<1>6. DelayBegan'
  BY <1>1 DEF IInv, DelayBegan
<1>7. QED
  BY <1>1, <1>2, <1>4, <1>5, <1>6 DEF IInv

LEMMA ReadLowInvariant == IInv /\ ReadLow => IInv'
<1> SUFFICES ASSUME IInv, ReadLow PROVE IInv'
  OBVIOUS
<1>1. /\ timerPc = "low" /\ timerPc' = "check" /\ low' = CounterLow
      /\ UNCHANGED <<now, call, first, delay, high, began>>
  BY DEF ReadLow
<1>2. now \in Nat /\ began \in Nat /\ began <= now
  BY TimerAssumption DEF IInv, TimerTypeOK
<1>3. TimerTypeOK'
  BY <1>1, <1>2, Halves DEF IInv, TimerTypeOK, Waiting, CounterLow
<1>4. HalvesRead'
  <2>1. PICK m \in began .. now : high = m \div W
    BY <1>1 DEF IInv, HalvesRead
  <2>2. now \in m .. now /\ low' = now % W
    BY <1>1, <1>2 DEF CounterLow
  <2>3. QED
    BY <1>1, <2>1, <2>2 DEF HalvesRead
<1>5. DelayBegan'
  BY <1>1 DEF IInv, DelayBegan
<1>6. QED
  BY <1>1, <1>2, <1>3, <1>4, <1>5 DEF IInv

LEMMA CheckHighInvariant == IInv /\ CheckHigh => IInv'
<1> SUFFICES ASSUME IInv, CheckHigh PROVE IInv'
  OBVIOUS
<1>1. /\ timerPc = "check"
      /\ timerPc' = IF high # CounterHigh THEN "high" ELSE "joined"
      /\ UNCHANGED <<now, call, first, delay, high, low, began>>
  BY DEF CheckHigh
<1>2. now \in Nat /\ began \in Nat /\ began <= now
  BY TimerAssumption DEF IInv, TimerTypeOK
<1>3. TimerTypeOK'
  BY <1>1 DEF IInv, TimerTypeOK, Waiting
<1>4. HalvesRead'
  <2>1. CASE high # CounterHigh
    BY <1>1, <2>1 DEF HalvesRead
  <2>2. CASE high = CounterHigh
    <3>1. PICK m \in began .. now : /\ high = m \div W
                                    /\ \E n \in m .. now : low = n % W
      BY <1>1 DEF IInv, HalvesRead
    <3>2. PICK n \in m .. now : low = n % W
      BY <3>1
    <3>3. m \in Nat /\ n \in Nat /\ m <= n /\ n <= now /\ began <= n
      BY <1>2, <3>1, <3>2
    <3>4. TickCount64 = n
      BY <1>2, <2>2, <3>1, <3>2, <3>3, JoinedHalves DEF TickCount64, CounterHigh
    <3>5. QED
      BY <1>1, <2>2, <3>3, <3>4 DEF HalvesRead, TickCount64
  <2>3. QED
    BY <2>1, <2>2
<1>5. DelayBegan'
  BY <1>1 DEF IInv, DelayBegan
<1>6. QED
  BY <1>1, <1>2, <1>3, <1>4, <1>5 DEF IInv

LEMMA UseTickInvariant == IInv /\ UseTick => IInv'
<1> SUFFICES ASSUME IInv, UseTick PROVE IInv'
  OBVIOUS
<1>1. timerPc = "joined" /\ UNCHANGED <<now, delay, high, low, began>>
  BY DEF UseTick
<1>2. /\ now \in 0 .. Horizon /\ began \in Nat /\ began <= now /\ delay \in Nat
      /\ Horizon \in Nat
      /\ first \in Nat /\ TickCount64 \in Nat
      /\ began <= TickCount64 /\ TickCount64 <= now
  BY <1>1, TimerAssumption DEF IInv, TimerTypeOK, HalvesRead, TickCount64
<1>3. CASE call = "MicroDelay_start"
  <2>1. first' = TickCount64 /\ call' = "MicroDelay" /\ timerPc' = "high"
    BY <1>1, <1>3 DEF UseTick
  <2>2. TimerTypeOK' /\ HalvesRead'
    BY <1>1, <1>2, <2>1 DEF IInv, TimerTypeOK, HalvesRead, Waiting
  <2>3. DelayBegan'
    BY <1>1, <1>2, <2>1 DEF IInv, DelayBegan
  <2>4. QED
    BY <1>1, <1>2, <2>2, <2>3 DEF IInv
<1>4. CASE call = "MicroDelay"
  <2>1. /\ timerPc' = IF TickCount64 < (first + delay) % (W * W) THEN "high" ELSE "return"
        /\ UNCHANGED <<call, first>>
    BY <1>1, <1>4 DEF UseTick
  <2>2. TimerTypeOK' /\ HalvesRead'
    BY <1>1, <1>2, <2>1 DEF IInv, TimerTypeOK, HalvesRead, Waiting
  <2>3. began <= first /\ first <= now
    BY <1>4 DEF IInv, DelayBegan
  <2>4. (first + delay) % (W * W) = first + delay
    <3>1. first + delay <= Horizon + delay
      BY <1>2, <2>3
    <3>2. Horizon + delay < W * W
      BY TimerAssumption DEF IInv, DelayBegan
    <3>3. PICK M \in Nat : M = W * W
      BY TimerAssumption
    <3>4. first + delay \in 0 .. M - 1
      BY <1>2, <3>1, <3>2, <3>3
    <3>5. (first + delay) % M = first + delay
      BY <3>3, <3>4
    <3>6. QED
      BY <3>3, <3>5
  <2>5. timerPc' = "return" => now - began >= delay
    BY <1>2, <2>1, <2>3, <2>4
  <2>6. DelayBegan'
    BY <1>1, <1>2, <1>4, <2>1, <2>3, <2>5 DEF IInv, DelayBegan
  <2>7. QED
    BY <1>1, <1>2, <2>2, <2>6 DEF IInv
<1>5. CASE call = "timer_getTickCount64"
  <2>1. timerPc' = "return" /\ UNCHANGED <<call, first>>
    BY <1>1, <1>5 DEF UseTick
  <2>2. TimerTypeOK' /\ HalvesRead'
    BY <1>1, <1>2, <2>1 DEF IInv, TimerTypeOK, HalvesRead, Waiting
  <2>3. DelayBegan'
    BY <1>1, <1>2, <1>5, <2>1 DEF IInv, DelayBegan
  <2>4. QED
    BY <1>1, <1>2, <2>2, <2>3 DEF IInv
<1>6. QED
  BY <1>3, <1>4, <1>5 DEF UseTick

LEMMA UdelayInvariant == IInv /\ (ReadFirst \/ ReadElapsed) => IInv'
<1>1. ASSUME IInv, ReadFirst PROVE IInv'
  <2>1. /\ timerPc = "first" /\ timerPc' = "elapsed" /\ first' = CounterLow
        /\ UNCHANGED <<now, call, delay, high, low, began>>
    BY <1>1 DEF ReadFirst
  <2>2. now \in Nat /\ began \in Nat /\ began <= now
    BY <1>1, TimerAssumption DEF IInv, TimerTypeOK
  <2>3. CounterLow \in Nat
    BY <2>2, Halves DEF CounterLow
  <2>4. TimerTypeOK' /\ HalvesRead'
    BY <1>1, <2>1, <2>3 DEF IInv, TimerTypeOK, HalvesRead, Waiting
  <2>5. \E m \in began' .. now' : first' = m % W
    BY <2>1, <2>2 DEF CounterLow
  <2>6. DelayBegan'
    BY <1>1, <2>1, <2>5 DEF IInv, DelayBegan
  <2>7. QED
    BY <2>1, <2>2, <2>4, <2>6 DEF IInv
<1>2. ASSUME IInv, ReadElapsed PROVE IInv'
  <2>1. /\ timerPc = "elapsed" /\ low' = (CounterLow - first) % W
        /\ timerPc' = IF low' < delay THEN "elapsed" ELSE "return"
        /\ UNCHANGED <<now, call, first, delay, high, began>>
    BY <1>2 DEF ReadElapsed
  <2>2. now \in Nat /\ began \in Nat /\ began <= now /\ delay \in Nat
    BY <1>2, TimerAssumption DEF IInv, TimerTypeOK
  <2>3. PICK m \in began .. now : first = m % W
    BY <1>2, <2>1 DEF IInv, DelayBegan
  <2>4. m \in Nat /\ began <= m /\ m <= now
    BY <2>2, <2>3
  <2>5. low' \in 0 .. W - 1 /\ low' <= now - m
    BY <2>1, <2>2, <2>3, <2>4, LowDifference DEF CounterLow
  <2>6. TimerTypeOK' /\ HalvesRead'
    BY <1>2, <2>1, <2>5 DEF IInv, TimerTypeOK, HalvesRead, Waiting
  <2>7. timerPc' = "return" => now - began >= delay
    <3>1. W \in Nat
      BY TimerAssumption
    <3>2. QED
      BY <2>1, <2>2, <2>4, <2>5, <3>1
  <2>8. DelayBegan'
    BY <1>2, <2>1, <2>7 DEF IInv, DelayBegan
  <2>9. QED
    BY <2>1, <2>2, <2>6, <2>8 DEF IInv
<1>3. QED
  BY <1>1, <1>2

LEMMA StepInvariant == IInv /\ [TimerNext]_timerVars => IInv'
<1>1. IInv /\ Return => IInv'
  BY DEF IInv, Return, TimerTypeOK, HalvesRead, DelayBegan, TickCount64, Waiting
<1>2. IInv /\ UNCHANGED timerVars => IInv'
  BY DEF timerVars, IInv, TimerTypeOK, HalvesRead, DelayBegan, TickCount64, Waiting
<1>3. QED
  BY <1>1, <1>2, TickInvariant, BeginInvariant, ReadHighInvariant, ReadLowInvariant,
     CheckHighInvariant, UseTickInvariant, UdelayInvariant DEF TimerNext, Step

LEMMA InvariantHolds == TimerSpec => []IInv
BY InitInvariant, StepInvariant, PTL DEF TimerSpec

(* timer_getTickCount64 returns a value the counter had during the call,   *)
(* whatever the width of its halves and however it advances between reads. *)
THEOREM NeverTorn == TimerSpec => []TickNotTorn
<1>1. IInv => TickNotTorn
  BY DEF IInv, HalvesRead, TickNotTorn
<1>2. QED
  BY <1>1, InvariantHolds, PTL

(* MicroDelay and udelay wait at least as long as they are asked to.       *)
THEOREM NeverEarly == TimerSpec => []DelayElapsed
<1>1. IInv => DelayElapsed
  BY DEF IInv, DelayBegan, DelayElapsed, Waiting
<1>2. QED
  BY <1>1, InvariantHolds, PTL

-----------------------------------------------------------------------------
(* The remainder of what is less than twice the modulus.                   *)
LEMMA Remainder ==
  ASSUME NEW X \in Nat \ {0}, NEW r \in 0 .. 2 * X - 1
  PROVE  r % X = IF r < X THEN r ELSE r - X
<1>1. CASE r < X
  BY <1>1
<1>2. CASE r >= X
  <2>1. \A z \in 0 .. X - 1 : (z + X) % X = z
    OBVIOUS
  <2>2. r - X \in 0 .. X - 1 /\ r = (r - X) + X
    BY <1>2
  <2>3. QED
    BY <2>1, <2>2, <1>2
<1>3. QED
  BY <1>1, <1>2

(* tick_difference does not see by how much both readings are ahead.       *)
LEMMA DifferenceAhead ==
  ASSUME NEW X \in Nat \ {0}, X = W * W,
         NEW b \in 0 .. X - 1, NEW t \in b .. X - 1, NEW shift \in 0 .. X - 1
  PROVE  TickDifference((b + shift) % X, (t + shift) % X) = t - b
<1> DEFINE Roll(r) == IF r < X THEN r ELSE r - X
<1>1. \A r \in 0 .. 2 * X - 1 : r % X = Roll(r)
  BY Remainder
<1>2. TickDifference(Roll(b + shift), Roll(t + shift))
        = IF Roll(b + shift) > Roll(t + shift)
          THEN (Roll(t + shift) + (X - 1 - Roll(b + shift) + 1)) % X
          ELSE Roll(t + shift) - Roll(b + shift)
  BY Zenon DEF TickDifference
<1>3. b + shift \in 0 .. 2 * X - 1 /\ t + shift \in 0 .. 2 * X - 1 /\ t - b \in 0 .. 2 * X - 1
  OBVIOUS
<1>4. (b + shift) % X = Roll(b + shift) /\ (t + shift) % X = Roll(t + shift)
      /\ (t - b) % X = Roll(t - b)
  BY <1>1, <1>3, Zenon
<1>5. Roll(t - b) = t - b
  OBVIOUS
<1>6. CASE Roll(b + shift) > Roll(t + shift)
  <2>1. Roll(t + shift) + (X - 1 - Roll(b + shift) + 1) = t - b
    BY <1>6
  <2>2. QED
    BY <1>2, <1>4, <1>5, <1>6, <2>1, Zenon
<1>7. CASE ~(Roll(b + shift) > Roll(t + shift))
  <2>1. Roll(t + shift) - Roll(b + shift) = t - b
    BY <1>7
  <2>2. QED
    BY <1>2, <1>4, <1>7, <2>1, Zenon
<1>8. QED
  BY <1>6, <1>7

(* tick_difference of the time of a call and of a reading made in it is    *)
(* the time between them, with the 64-bit counter rolled over or not.      *)
THEOREM DifferenceRight == TimerSpec => []DifferenceIsElapsed
<1>1. ASSUME IInv, timerPc = "joined"
      PROVE  /\ TickDifference(began, TickCount64) = TickCount64 - began
             /\ \A shift \in {W * W - 1 - began, W * W - 1} :
                  TickDifference((began + shift) % (W * W), (TickCount64 + shift) % (W * W))
                    = TickCount64 - began
  <2> DEFINE X == W * W
             t == TickCount64
  <2>1. X \in Nat \ {0} /\ Horizon < X /\ Horizon \in Nat
    BY TimerAssumption
  <2>2. began \in Nat /\ now \in 0 .. Horizon /\ began <= t /\ t <= now
    BY <1>1 DEF IInv, TimerTypeOK, HalvesRead
  <2>3. t \in Nat
    <3>1. W \in Nat /\ high \in Nat /\ low \in Nat
      BY <1>1, TimerAssumption DEF IInv, TimerTypeOK
    <3>2. QED
      BY <3>1 DEF TickCount64
  <2> HIDE DEF t
  <2>4. began \in 0 .. X - 1 /\ t \in began .. X - 1
    BY <2>1, <2>2, <2>3
  <2>5. X - 1 - began \in 0 .. X - 1 /\ X - 1 \in 0 .. X - 1
    BY <2>1, <2>4
  <2>6. \A shift \in {X - 1 - began, X - 1} :
          TickDifference((began + shift) % X, (t + shift) % X) = t - began
    BY <2>1, <2>4, <2>5, DifferenceAhead
  <2>7. TickDifference(began, t) = t - began
    BY <2>4 DEF TickDifference
  <2>8. QED
    BY <2>6, <2>7 DEF t
<1>2. IInv => DifferenceIsElapsed
  BY <1>1 DEF DifferenceIsElapsed
<1>3. QED
  BY <1>2, InvariantHolds, PTL

(***************************************************************************)
(* The interrupt controller.                                               *)
(***************************************************************************)

Frame == [pc : {"scan", "clear", "handler", "return"}, j : Irqs \cup {NumIrqs}]

(* An enabled line either has callbacks that belong together or is being   *)
(* unregistered; a line being registered is not enabled, and its entries   *)
(* hold what was stored so far.                                            *)
PairsBelong ==
  /\ \A irq \in enabled :
       IF handlers[irq] = NoCallback THEN op.call = "unregister" /\ op.irq = irq
                                     ELSE clearers[irq] = handlers[irq]
  /\ op.call = "register" =>
       /\ op.irq \notin enabled
       /\ op.next \in {"clearer", "enable"} => handlers[op.irq] = op.driver
       /\ op.next = "enable" => clearers[op.irq] = op.driver
  /\ op.call = "unregister" /\ op.next \in {"clearer", "disable"} =>
       handlers[op.irq] = NoCallback

(* Callbacks are called for lines there are, not for the table's end.      *)
ServesLines ==
  \A i \in DOMAIN frames : frames[i].pc \in {"clear", "handler"} => frames[i].j \in Irqs

IrqInv == IrqTypeOK /\ OnlyHandlersInterrupted /\ CallsAPair /\ ServesLines /\ PairsBelong

-----------------------------------------------------------------------------
LEMMA LeastLine ==
  ASSUME NEW S \in SUBSET Nat, S # {}
  PROVE  Min(S) \in S /\ \A y \in S : Min(S) <= y
<1>1. \E m \in S : \A n \in S : ~(<<n, m>> \in OpToRel(<, Nat))
  BY NatLessThanWellFounded, WFMin
<1>2. PICK m \in S : \A n \in S : ~(n < m)
  BY <1>1 DEF OpToRel
<1>3. m \in S /\ \A y \in S : m <= y
  BY <1>2
<1>4. QED
  BY <1>3 DEF Min

(* The loop over the table goes on to a line above j, or past the last.    *)
LEMMA NextLineType ==
  ASSUME NEW j \in Int
  PROVE  NextLine(j) \in Irqs \cup {NumIrqs}
<1> DEFINE later == {irq \in Irqs : irq > j /\ irq < NumIrqs}
<1>1. later \in SUBSET Nat
  BY IrqsAssumption
<1>2. CASE later = {}
  BY <1>2 DEF NextLine
<1>3. CASE later # {}
  <2>1. Min(later) \in later
    BY <1>1, <1>3, LeastLine
  <2>2. QED
    BY <1>3, <2>1 DEF NextLine
<1>4. QED
  BY <1>2, <1>3

(* What the top of a stack of activations is, and what replacing it does.  *)
LEMMA TopFrame ==
  ASSUME frames \in Seq(Frame), frames # <<>>
  PROVE  /\ Len(frames) \in Nat \ {0} /\ Top \in Frame
         /\ Top.pc \in {"scan", "clear", "handler", "return"} /\ Top.j \in Irqs \cup {NumIrqs}
<1>1. Len(frames) \in Nat \ {0} /\ Top \in Frame
  BY DEF Top
<1>2. QED
  BY <1>1 DEF Frame

LEMMA SetTopIs ==
  ASSUME frames \in Seq(Frame), frames # <<>>, NEW f \in Frame, SetTop(f)
  PROVE  /\ frames' \in Seq(Frame) /\ frames' # <<>> /\ Len(frames') = Len(frames)
         /\ Top' = f
         /\ \A i \in 1 .. Len(frames) - 1 : frames'[i] = frames[i]
BY DEF SetTop, Top

LEMMA PushIs ==
  ASSUME frames \in Seq(Frame), NEW f \in Frame, frames' = Append(frames, f)
  PROVE  /\ frames' \in Seq(Frame) /\ frames' # <<>> /\ Len(frames') = Len(frames) + 1
         /\ Top' = f
         /\ \A i \in 1 .. Len(frames) : frames'[i] = frames[i]
BY DEF Top

LEMMA FrontIs ==
  ASSUME NEW S, NEW s \in Seq(S), s # <<>>
  PROVE  LET front == SubSeq(s, 1, Len(s) - 1) IN
         /\ front \in Seq(S) /\ Len(front) = Len(s) - 1
         /\ \A i \in 1 .. Len(s) - 1 : front[i] = s[i]
<1> DEFINE m == Len(s) - 1
<1>1. Len(s) \in Nat \ {0} /\ m \in Nat
  BY EmptySeq, LenProperties
<1>2. \A i \in 1 .. m : s[i] \in S
  BY <1>1, ElementOfSeq
<1>3. /\ SubSeq(s, 1, m) \in Seq(S)
      /\ Len(SubSeq(s, 1, m)) = IF 1 <= m THEN m - 1 + 1 ELSE 0
      /\ \A i \in 1 .. m - 1 + 1 : SubSeq(s, 1, m)[i] = s[1 + i - 1]
  BY <1>1, <1>2, SubSeqProperties
<1> DEFINE f == SubSeq(s, 1, m)
<1> HIDE DEF f, m
<1>4. f \in Seq(S) /\ Len(f) = m /\ \A i \in 1 .. m : f[i] = s[i]
  BY <1>1, <1>3 DEF f
<1>5. QED
  BY <1>4 DEF f, m

LEMMA PopIs ==
  ASSUME frames \in Seq(Frame), frames # <<>>,
         frames' = SubSeq(frames, 1, Len(frames) - 1)
  PROVE  /\ frames' \in Seq(Frame) /\ Len(frames') = Len(frames) - 1
         /\ \A i \in 1 .. Len(frames) - 1 : frames'[i] = frames[i]
         /\ frames' # <<>> => Top' = frames[Len(frames) - 1]
         /\ frames' = <<>> => Len(frames) = 1
<1> DEFINE f == frames'
<1>1. f \in Seq(Frame) /\ Len(f) = Len(frames) - 1 /\ \A i \in 1 .. Len(frames) - 1 : f[i] = frames[i]
  BY FrontIs
<1>2. Len(frames) \in Nat \ {0}
  BY EmptySeq, LenProperties
<1>3. Top' = f[Len(f)]
  BY DEF Top
<1> HIDE DEF f
<1>4. f = <<>> => Len(frames) = 1
  BY <1>1, <1>2, EmptySeq
<1>5. f # <<>> => Len(frames) - 1 \in 1 .. Len(frames) - 1
  BY <1>1, <1>2, EmptySeq
<1>6. f # <<>> => Top' = frames[Len(frames) - 1]
  BY <1>1, <1>3, <1>5
<1>7. QED
  BY <1>1, <1>4, <1>6 DEF f

-----------------------------------------------------------------------------
LEMMA InitInv == IrqInit => IrqInv
<1> SUFFICES ASSUME IrqInit PROVE IrqInv
  OBVIOUS
<1>1. IrqTypeOK
  BY EmptySeq DEF IrqInit, IrqTypeOK, Tables, Idle
<1>2. OnlyHandlersInterrupted
  BY EmptySeq DEF IrqInit, OnlyHandlersInterrupted
<1>3. CallsAPair /\ ServesLines
  BY EmptySeq, LenProperties DEF IrqInit, CallsAPair, ServesLines
<1>4. PairsBelong
  BY DEF IrqInit, PairsBelong, Idle
<1>5. QED
  BY <1>1, <1>2, <1>3, <1>4 DEF IrqInv

(* The program registers or unregisters a line.                            *)
LEMMA ProgramKeepsInv == IrqInv /\ Program => IrqInv'
<1> SUFFICES ASSUME IrqInv, Program PROVE IrqInv'
  OBVIOUS
<1> USE DEF IrqInv
<1>1. frames = <<>> /\ irqsOn /\ UNCHANGED <<raised, irqsOn, frames>>
  BY DEF Program, CallRegister, RegisterStep, CallUnregister, UnregisterStep, ProgramRuns,
         OnlyHandlersInterrupted
<1>2. OnlyHandlersInterrupted' /\ CallsAPair' /\ ServesLines'
  BY <1>1, EmptySeq, LenProperties DEF OnlyHandlersInterrupted, CallsAPair, ServesLines
<1>3. IrqTypeOK'
  <2>1. ASSUME NEW irq \in Irqs, NEW driver \in Drivers, CallRegister(irq, driver)
        PROVE  IrqTypeOK'
    BY <2>1 DEF CallRegister, IrqTypeOK, Calls
  <2>2. CASE RegisterStep
    BY <2>2 DEF RegisterStep, IrqTypeOK, Calls, Tables, Idle
  <2>3. ASSUME NEW irq \in Irqs, CallUnregister(irq)
        PROVE  IrqTypeOK'
    BY <2>3 DEF CallUnregister, IrqTypeOK, Calls
  <2>4. CASE UnregisterStep
    BY <2>4 DEF UnregisterStep, IrqTypeOK, Calls, Tables, Idle
  <2>5. QED
    BY <2>1, <2>2, <2>3, <2>4 DEF Program
<1>4. PairsBelong'
  <2>1. ASSUME NEW irq \in Irqs, NEW driver \in Drivers, CallRegister(irq, driver)
        PROVE  PairsBelong'
    BY <2>1 DEF CallRegister, PairsBelong, Idle
  <2>2. CASE RegisterStep
    BY <2>2, IrqsAssumption DEF RegisterStep, PairsBelong, IrqTypeOK, Calls, Tables, Idle
  <2>3. ASSUME NEW irq \in Irqs, CallUnregister(irq)
        PROVE  PairsBelong'
    BY <2>3 DEF CallUnregister, PairsBelong, Idle
  <2>4. CASE UnregisterStep
    BY <2>4 DEF UnregisterStep, PairsBelong, IrqTypeOK, Calls, Tables, Idle
  <2>5. QED
    BY <2>1, <2>2, <2>3, <2>4 DEF Program
<1>5. QED
  BY <1>2, <1>3, <1>4

(* The innermost activation goes on in place, and interrupts are on        *)
(* afterwards exactly if it is then in a handler.                          *)
LEMMA GoOnKeepsInv ==
  ASSUME IrqInv, frames # <<>>, NEW f \in Frame, SetTop(f),
         UNCHANGED <<handlers, clearers, enabled, op>>,
         raised' \subseteq Irqs, irqsOn' = (f.pc = "handler"),
         f.pc \in {"clear", "handler"} =>
           f.j \in Irqs /\ handlers[f.j] # NoCallback /\ clearers[f.j] = handlers[f.j]
  PROVE  IrqInv'
<1> USE DEF IrqInv
<1>1. frames \in Seq(Frame)
  BY DEF IrqTypeOK, Frame
<1>2. /\ frames' \in Seq(Frame) /\ frames' # <<>> /\ Len(frames') = Len(frames)
      /\ Top' = f
      /\ \A i \in 1 .. Len(frames) - 1 : frames'[i] = frames[i]
  BY <1>1, SetTopIs
<1>3. Len(frames) \in Nat \ {0} /\ DOMAIN frames' = 1 .. Len(frames) /\ frames'[Len(frames)] = f
  BY <1>1, <1>2, EmptySeq, LenProperties DEF Top
<1>4. IrqTypeOK'
  BY <1>2 DEF IrqTypeOK, Frame
<1>5. OnlyHandlersInterrupted'
  BY <1>2, <1>3 DEF OnlyHandlersInterrupted
<1>6. CallsAPair' /\ ServesLines'
  <2> SUFFICES ASSUME NEW i \in 1 .. Len(frames), frames'[i].pc \in {"clear", "handler"}
               PROVE  /\ frames'[i].j \in Irqs
                      /\ handlers[frames'[i].j] # NoCallback
                      /\ clearers[frames'[i].j] = handlers[frames'[i].j]
    BY <1>3 DEF CallsAPair, ServesLines
  <2>1. CASE i = Len(frames)
    BY <2>1, <1>3
  <2>2. CASE i # Len(frames)
    <3>1. i \in DOMAIN frames
      BY <1>1, <1>3, LenProperties
    <3>2. i \in 1 .. Len(frames) - 1
      BY <1>3, <2>2
    <3>3. frames'[i] = frames[i]
      BY <1>2, <3>2
    <3>4. QED
      BY <3>1, <3>3 DEF CallsAPair, ServesLines
  <2>3. QED
    BY <2>1, <2>2
<1>7. PairsBelong'
  BY DEF PairsBelong
<1>8. QED
  BY <1>4, <1>5, <1>6, <1>7

(* An activation of irq_handler begins, goes on or ends.                   *)
LEMMA DispatchKeepsInv == IrqInv /\ Dispatch => IrqInv'
<1> SUFFICES ASSUME IrqInv, Dispatch PROVE IrqInv'
  OBVIOUS
<1> USE DEF IrqInv
<1>1. frames \in Seq(Frame) /\ IrqsAssumption
  BY IrqsAssumption DEF IrqTypeOK, Frame
<1>2. CASE TakeIrq
  <2> DEFINE f == [pc |-> "scan", j |-> NextLine(-1)]
  <2>1. f \in Frame
    BY NextLineType DEF Frame
  <2>2. /\ frames' \in Seq(Frame) /\ frames' # <<>> /\ Len(frames') = Len(frames) + 1
        /\ Top' = f
        /\ \A i \in 1 .. Len(frames) : frames'[i] = frames[i]
    BY <1>1, <1>2, <2>1, PushIs DEF TakeIrq
  <2>3. /\ Len(frames) \in Nat /\ DOMAIN frames' = 1 .. Len(frames) + 1
        /\ frames'[Len(frames) + 1] = f /\ DOMAIN frames = 1 .. Len(frames)
    BY <1>1, <2>2, LenProperties DEF Top
  <2>4. f.pc = "scan" /\ irqsOn /\ irqsOn' = FALSE /\ UNCHANGED <<handlers, clearers, enabled, raised, op>>
    BY <1>2 DEF TakeIrq
  <2>5. IrqTypeOK'
    BY <2>2, <2>4 DEF IrqTypeOK, Frame
  <2> HIDE DEF f
  <2>6. \A i \in 1 .. Len(frames) : frames[i].pc = "handler"
    BY <2>3, <2>4, EmptySeq DEF OnlyHandlersInterrupted, Top
  <2>7. OnlyHandlersInterrupted'
    BY <2>2, <2>3, <2>4, <2>6 DEF OnlyHandlersInterrupted
  <2>8. CallsAPair' /\ ServesLines'
    BY <2>2, <2>3, <2>4 DEF CallsAPair, ServesLines
  <2>9. PairsBelong'
    BY <2>4 DEF PairsBelong
  <2>10. QED
    BY <2>5, <2>7, <2>8, <2>9
<1>3. CASE ScanPast
  <2>1. frames # <<>> /\ Top \in Frame /\ Top.pc = "scan" /\ Top.j \in Irqs /\ ~irqsOn
    BY <1>1, <1>3, TopFrame DEF ScanPast, InFrame, OnlyHandlersInterrupted
  <2> DEFINE f == [Top EXCEPT !.j = NextLine(Top.j)]
  <2>2. f \in Frame /\ f.pc = "scan"
    BY <1>1, <2>1, NextLineType DEF Frame
  <2>3. SetTop(f) /\ UNCHANGED <<handlers, clearers, enabled, raised, irqsOn, op>>
    BY <1>3 DEF ScanPast
  <2> HIDE DEF f
  <2>4. QED
    BY <2>1, <2>2, <2>3, GoOnKeepsInv DEF IrqTypeOK
<1>4. CASE ScanHit
  <2>1. frames # <<>> /\ Top \in Frame /\ Top.pc = "scan" /\ ~irqsOn
    BY <1>1, <1>4, TopFrame DEF ScanHit, InFrame, OnlyHandlersInterrupted
  <2> DEFINE f == [Top EXCEPT !.pc = "clear"]
  <2>2. f \in Frame /\ f.pc = "clear" /\ f.j = Top.j
    BY <2>1 DEF Frame
  <2>3. SetTop(f) /\ UNCHANGED <<handlers, clearers, enabled, raised, irqsOn, op>>
    BY <1>4 DEF ScanHit
  <2>4. f.j \in Irqs /\ handlers[f.j] # NoCallback /\ clearers[f.j] = handlers[f.j]
    BY <1>4, <2>2 DEF ScanHit, Serviceable, Pending, PairsBelong, IrqTypeOK
  <2> HIDE DEF f
  <2>5. QED
    BY <2>1, <2>2, <2>3, <2>4, GoOnKeepsInv DEF IrqTypeOK
<1>5. CASE RunClearer
  <2>1. frames # <<>> /\ Top \in Frame /\ Top.pc = "clear"
    BY <1>1, <1>5, TopFrame DEF RunClearer, InFrame
  <2> DEFINE f == [Top EXCEPT !.pc = "handler"]
  <2>2. f \in Frame /\ f.pc = "handler" /\ f.j = Top.j
    BY <2>1 DEF Frame
  <2>3. /\ SetTop(f) /\ UNCHANGED <<handlers, clearers, enabled, op>>
        /\ irqsOn' = TRUE /\ raised' = raised \ {Top.j}
    BY <1>5 DEF RunClearer
  <2>4. f.j \in Irqs /\ handlers[f.j] # NoCallback /\ clearers[f.j] = handlers[f.j]
    BY <1>1, <2>1, <2>2, EmptySeq, LenProperties DEF CallsAPair, ServesLines, Top
  <2> HIDE DEF f
  <2>5. QED
    BY <2>1, <2>2, <2>3, <2>4, GoOnKeepsInv DEF IrqTypeOK
<1>6. CASE HandlerReturns
  <2>1. frames # <<>> /\ Top \in Frame
    BY <1>1, <1>6, TopFrame DEF HandlerReturns, InFrame
  <2> DEFINE f == [Top EXCEPT !.pc = "return"]
  <2>2. f \in Frame /\ f.pc = "return"
    BY <2>1 DEF Frame
  <2>3. /\ SetTop(f) /\ UNCHANGED <<handlers, clearers, enabled, raised, op>>
        /\ irqsOn' = FALSE
    BY <1>6 DEF HandlerReturns
  <2> HIDE DEF f
  <2>4. QED
    BY <2>1, <2>2, <2>3, GoOnKeepsInv DEF IrqTypeOK
<1>7. CASE ReturnFromIrq
  <2>1. /\ frames # <<>> /\ frames' = SubSeq(frames, 1, Len(frames) - 1)
        /\ irqsOn' = TRUE /\ UNCHANGED <<handlers, clearers, enabled, raised, op>>
    BY <1>7 DEF ReturnFromIrq
  <2>2. /\ frames' \in Seq(Frame) /\ Len(frames') = Len(frames) - 1
        /\ \A i \in 1 .. Len(frames) - 1 : frames'[i] = frames[i]
        /\ frames' # <<>> => Top' = frames[Len(frames) - 1]
        /\ frames' = <<>> => Len(frames) = 1
    BY <1>1, <2>1, PopIs
  <2>3. /\ Len(frames) \in Nat \ {0} /\ DOMAIN frames' = 1 .. Len(frames) - 1
        /\ DOMAIN frames = 1 .. Len(frames)
        /\ frames' # <<>> => Len(frames) - 1 \in 1 .. Len(frames) - 1
    BY <1>1, <2>1, <2>2, EmptySeq, LenProperties
  <2>4. IrqTypeOK'
    BY <2>1, <2>2 DEF IrqTypeOK, Frame
  <2>5. OnlyHandlersInterrupted'
    BY <2>1, <2>2, <2>3 DEF OnlyHandlersInterrupted
  <2>6. CallsAPair' /\ ServesLines'
    BY <2>1, <2>2, <2>3 DEF CallsAPair, ServesLines
  <2>7. PairsBelong'
    BY <2>1 DEF PairsBelong
  <2>8. QED
    BY <2>4, <2>5, <2>6, <2>7
<1>8. QED
  BY <1>2, <1>3, <1>4, <1>5, <1>6, <1>7 DEF Dispatch

(* A device takes lines up or down.                                        *)
LEMMA DevicesKeepInv ==
  ASSUME IrqInv, raised' \subseteq Irqs,
         UNCHANGED <<handlers, clearers, enabled, irqsOn, frames, op>>
  PROVE  IrqInv'
BY DEF IrqInv, IrqTypeOK, OnlyHandlersInterrupted, CallsAPair, ServesLines, PairsBelong, Top

LEMMA NextKeepsInv == IrqInv /\ [IrqNext]_irqVars => IrqInv'
<1> SUFFICES ASSUME IrqInv, [IrqNext]_irqVars PROVE IrqInv'
  OBVIOUS
<1>1. ASSUME NEW irq \in Irqs, Raise(irq)
      PROVE  IrqInv'
  BY <1>1, DevicesKeepInv DEF Raise, IrqInv, IrqTypeOK
<1>2. CASE UNCHANGED irqVars
  BY <1>2, DevicesKeepInv DEF irqVars, IrqInv, IrqTypeOK
<1>3. QED
  BY <1>1, <1>2, ProgramKeepsInv, DispatchKeepsInv DEF IrqNext

(* However interrupts fall among the stores of a registration and however  *)
(* deep they nest, irq_handler calls only callbacks that are there and     *)
(* belong together, and is interrupted only while it runs a handler.       *)
THEOREM ActivationsAreSound == IrqSpec => []ActivationsSound
<1>1. IrqInv => ActivationsSound
  BY DEF IrqInv, ActivationsSound
<1>2. QED
  BY <1>1, InitInv, NextKeepsInv, PTL DEF IrqSpec

(***************************************************************************)
(* The DMA driver.                                                         *)
(***************************************************************************)

Initialising == {"init", "register", "registering"}
Writing      == {"stop", "point", "ack", "activate"}
Waits        == {"look", "finish", "reset", "waited", "failed"}

(* Transfers that do not disturb each other.                               *)
Apart(s, t) == s.dst \notin {t.src, t.dst} /\ s.src # t.dst

(* irq_handler is about to call the clearer of channel c.                  *)
ClearUnderWay(c) == InFrame("clear") /\ Top.j = Line(c)

Quiet(c) == loaded[c] = None /\ ~pointed[c] /\ ~active[c]

(* The engine has the transfer the caller waits for, and no interrupt of   *)
(* an earlier one is left that could stop it.                              *)
Running(c) ==
  /\ active[c] /\ Line(c) \notin raised /\ ~ClearUnderWay(c)
  /\ IF pointed[c] THEN loaded[c] = None /\ cb[c] = pending[c]
                   ELSE loaded[c] = pending[c]

Done(c) == Quiet(c) /\ memory[pending[c].dst] = memory[pending[c].src]

Settled(c) == IF pending[c] = None THEN Quiet(c) ELSE Running(c) \/ Done(c)

Silent(c) == ~active[c] /\ Line(c) \notin raised

(* Where channel c is: settled, or as far as the call on it has got.       *)
ChannelSound(c) ==
  IF c = job.chan /\ pc \in Writing \cup {"failed"}
  THEN /\ pc = "point"    => ~active[c]
       /\ pc = "ack"      => ~active[c] /\ loaded[c] = None /\ pointed[c]
       /\ pc = "activate" => Silent(c) /\ ~ClearUnderWay(c) /\ loaded[c] = None /\ pointed[c]
       /\ pc = "failed"   => Quiet(c) /\ Silent(c)
  ELSE /\ Settled(c)
       /\ c = job.chan /\ pc = "finish" => Done(c)
       /\ c = job.chan /\ pc = "waited" => Done(c) /\ Silent(c)

(* What the engine has of one channel is apart from what callers of the    *)
(* others wait for.                                                        *)
WorkApart ==
  \A c, d \in Channels : c # d /\ pending[d] # None =>
    /\ loaded[c] # None => Apart(loaded[c], pending[d])
    /\ pointed[c] => Apart(cb[c], pending[d])

(* The call the program is in, its arguments and what was pending before.  *)
CallSound ==
  /\ pc \in {"idle", "refused", "write_cb"} \cup Initialising \cup Writing \cup Waits
  /\ pc \in Initialising \cup {"write_cb"} \cup Writing =>
       /\ job.transfer \in Transfers
       /\ \A d \in Channels \ {job.chan} : pending[d] # None => Apart(job.transfer, pending[d])
  /\ pc \in Initialising => pending[job.chan] = None
  /\ pc \in Writing => pending[job.chan] = job.transfer /\ cb[job.chan] = job.transfer
  /\ pc \in Waits => /\ pending[job.chan] = job.transfer /\ job.transfer # None
                     /\ status[job.chan] = "END"
  /\ pc = "refused" => hasty
  /\ pc = "write_cb" /\ ~hasty => pending[job.chan] = None

(* What the status of a channel says of the transfers started on it.       *)
StatusSound ==
  \A c \in Channels :
    /\ status[c] # "IN_PROGRESS"
    /\ status[c] = "NEED_INIT" =>
         pending[c] = None /\ ~(job.chan = c /\ pc \in {"register", "registering", "write_cb"})
    /\ status[c] = "READY" =>
         pending[c] # None \/ (job.chan = c /\ pc \in {"register", "registering", "write_cb"})

(* Only lines of channels are ever registered.                             *)
LinesSound ==
  /\ \A irq \in Irqs : handlers[irq] # NoCallback => \E c \in Channels : Line(c) = irq
  /\ op.call = "register" => \E c \in Channels : Line(c) = op.irq

DriverTypes ==
  /\ status \in [Channels -> {"NEED_INIT", "READY", "IN_PROGRESS", "END"}]
  /\ cb \in [Channels -> Transfers \cup {None}]
  /\ loaded \in [Channels -> Transfers \cup {None}]
  /\ pending \in [Channels -> Transfers \cup {None}]
  /\ pointed \in [Channels -> BOOLEAN] /\ active \in [Channels -> BOOLEAN]
  /\ end \in [Channels -> BOOLEAN]
  /\ memory \in [Pages -> Pages \cup {"torn"}]
  /\ job \in [chan : Channels, transfer : Transfers \cup {None}]
  /\ starts \in 0 .. MaxStarts /\ hasty \in BOOLEAN

ChannelsSound == \A c \in Channels : ChannelSound(c)

DmaInv ==
  /\ IrqInv /\ DriverTypes /\ LinesSound
  /\ StatusSound /\ CallSound /\ WorkApart /\ ChannelsSound

-----------------------------------------------------------------------------
LEMMA NoneIsNoTransfer == None \notin Transfers
BY DEF None, Transfers

LEMMA LinesAreIrqs ==
  /\ \A c \in Channels : Line(c) \in Irqs
  /\ \A c, d \in Channels : Line(c) = Line(d) => c = d
BY ChannelsAssumption DEF Line

LEMMA ChannelOfLine ==
  ASSUME NEW c \in Channels
  PROVE  ChannelOf(Line(c)) = c
BY LinesAreIrqs DEF ChannelOf

LEMMA InitDmaInv == Init => DmaInv
<1> SUFFICES ASSUME Init PROVE DmaInv
  OBVIOUS
<1>1. IrqInv
  BY InitInv DEF Init
<1>2. job.chan \in Channels /\ job.transfer = None
  BY ChannelsAssumption DEF Init
<1>3. DriverTypes
  <2>1. job \in [chan : Channels, transfer : Transfers \cup {None}]
    BY <1>2 DEF Init
  <2>2. memory \in [Pages -> Pages \cup {"torn"}]
    BY DEF Init
  <2>3. starts \in 0 .. MaxStarts /\ hasty \in BOOLEAN
    <3>1. starts \in 0 .. MaxStarts
      BY ChannelsAssumption DEF Init
    <3>2. hasty \in BOOLEAN
      BY Zenon DEF Init
    <3>3. QED
      BY <3>1, <3>2
  <2>4. /\ pointed \in [Channels -> BOOLEAN] /\ active \in [Channels -> BOOLEAN]
        /\ end \in [Channels -> BOOLEAN]
    BY DEF Init
  <2>5. /\ status \in [Channels -> {"NEED_INIT", "READY", "IN_PROGRESS", "END"}]
        /\ cb \in [Channels -> Transfers \cup {None}]
        /\ loaded \in [Channels -> Transfers \cup {None}]
        /\ pending \in [Channels -> Transfers \cup {None}]
    BY DEF Init
  <2>6. QED
    BY <2>1, <2>2, <2>3, <2>4, <2>5, Zenon DEF DriverTypes
<1>4. LinesSound
  BY DEF Init, IrqInit, Idle, LinesSound
<1>5. StatusSound /\ CallSound /\ WorkApart
  BY DEF Init, StatusSound, CallSound, WorkApart, Initialising, Writing, Waits
<1>6. ChannelsSound
  BY DEF Init, ChannelsSound, ChannelSound, Settled, Quiet
<1>7. QED
  BY <1>1, <1>3, <1>4, <1>5, <1>6 DEF DmaInv

(* Every step of Dma is one of module Interrupts, or only takes lines up   *)
(* or down.                                                                *)
LEMMA IrqPartKept == DmaInv /\ [Next]_vars => IrqInv'
<1> SUFFICES ASSUME DmaInv, [Next]_vars PROVE IrqInv'
  OBVIOUS
<1> USE DEF DmaInv
<1>1. raised \subseteq Irqs /\ job.chan \in Channels
  BY DEF IrqInv, IrqTypeOK, DriverTypes
<1>2. CASE Engine
  BY <1>1, <1>2, LinesAreIrqs, DevicesKeepInv DEF Engine, Fetch, Complete, irqVars
<1>3. CASE Call
  BY <1>1, <1>3, DevicesKeepInv DEF Call, DmaStart, DmaWait, NoIrqStep, NoEngineStep
<1>4. CASE CallStep
  <2>1. CASE RegisterChannel \/ StoreCallback
    <3>1. Program
      BY <1>1, <2>1, LinesAreIrqs, ChannelsAssumption DEF RegisterChannel, StoreCallback, Program
    <3>2. QED
      BY <3>1, ProgramKeepsInv
  <2>2. CASE ~(RegisterChannel \/ StoreCallback)
    <3>1. /\ raised' \subseteq Irqs
          /\ UNCHANGED <<handlers, clearers, enabled, irqsOn, frames, op>>
      BY <1>1, <1>4, <2>2
         DEF CallStep, StartRefused, InitChannel, Registered, WriteControlBlock, StopChannel,
             PointChannel, AckChannel, ActivateChannel, LookAtCS, FinishWait, ResetWait,
             WaitReturns, NoIrqStep, NoEngineStep, ResetChannel, WriteCS
    <3>2. QED
      BY <3>1, DevicesKeepInv
  <2>3. QED
    BY <2>1, <2>2
<1>5. CASE Interrupted
  BY <1>5, DispatchKeepsInv DEF Interrupted, ClearChannel, Dispatch
<1>6. CASE UNCHANGED vars
  BY <1>1, <1>6, DevicesKeepInv DEF vars, irqVars
<1>7. QED
  BY <1>2, <1>3, <1>4, <1>5, <1>6 DEF Next

-----------------------------------------------------------------------------
(* What the program may rely on between two of its steps.                  *)
LEMMA ProgramFacts ==
  ASSUME DmaInv
  PROVE  /\ job.chan \in Channels /\ job.transfer \in Transfers \cup {None}
         /\ ProgramRuns => \A c \in Channels : ~ClearUnderWay(c)
BY DEF DmaInv, DriverTypes, ProgramRuns, ClearUnderWay, InFrame

LEMMA WriteCSTypes ==
  ASSUME NEW c \in Channels, NEW a \in BOOLEAN, NEW e \in BOOLEAN, NEW i \in BOOLEAN,
         active \in [Channels -> BOOLEAN], end \in [Channels -> BOOLEAN],
         WriteCS(c, a, e, i)
  PROVE  active' \in [Channels -> BOOLEAN] /\ end' \in [Channels -> BOOLEAN]
<1>1. \A f \in [Channels -> BOOLEAN], b \in BOOLEAN : [f EXCEPT ![c] = b] \in [Channels -> BOOLEAN]
  OBVIOUS
<1>2. (end[c] /\ ~e) \in BOOLEAN
  OBVIOUS
<1>3. QED
  BY <1>1, <1>2, Zenon DEF WriteCS

(* A step of the program that writes no CS and leaves the engine alone.    *)
LEMMA StartRefusedKeeps == DmaInv /\ StartRefused => DmaInv'
<1> SUFFICES ASSUME DmaInv, StartRefused PROVE DmaInv'
  OBVIOUS
<1>1. IrqInv'
  BY IrqPartKept DEF Next, CallStep
<1> USE DEF DmaInv
<1>2. /\ pc = "refused" /\ pc' = "idle"
      /\ UNCHANGED <<status, cb, job, pending, starts, hasty, raised, loaded, pointed, active,
                     end, memory, handlers, clearers, enabled, irqsOn, frames, op>>
  BY DEF StartRefused, Goto, NoEngineStep, NoIrqStep, calls, engineVars
<1>3. DriverTypes'
  BY <1>2, Zenon DEF DriverTypes
<1>4. LinesSound'
  BY <1>2 DEF LinesSound
<1>5. StatusSound'
  BY <1>2 DEF StatusSound
<1>6. CallSound'
  BY <1>2 DEF CallSound, Initialising, Writing, Waits
<1>7. WorkApart'
  BY <1>2 DEF WorkApart
<1>8. ChannelsSound'
  BY <1>2 DEF ChannelsSound, ChannelSound, Settled, Quiet, Running, Done, Silent, ClearUnderWay,
              InFrame, Top, Writing
<1>9. QED
  BY <1>1, <1>3, <1>4, <1>5, <1>6, <1>7, <1>8

(* InitChannel: the channel is reset and READY, although nothing is pending.  *)
LEMMA InitChannelKeeps == DmaInv /\ InitChannel => DmaInv'
<1> SUFFICES ASSUME DmaInv, InitChannel PROVE DmaInv'
  OBVIOUS
<1>1. IrqInv'
  BY IrqPartKept DEF Next, CallStep
<1> DEFINE c == job.chan
<1>2. /\ pc = "init" /\ pc' = "register" /\ c \in Channels /\ Line(c) \in Irqs
      /\ job.transfer \in Transfers \cup {None}
      /\ status' = [status EXCEPT ![c] = "READY"]
      /\ active' = [active EXCEPT ![c] = FALSE]
      /\ end' = [end EXCEPT ![c] = FALSE]
      /\ loaded' = [loaded EXCEPT ![c] = None]
      /\ pointed' = [pointed EXCEPT ![c] = FALSE]
      /\ raised' = raised \ {Line(c)}
      /\ UNCHANGED <<cb, job, pending, starts, hasty, memory, handlers, clearers, enabled, irqsOn, frames, op>>
      /\ \A d \in Channels : ~ClearUnderWay(d) /\ ~ClearUnderWay(d)'
  BY ProgramFacts, LinesAreIrqs
     DEF InitChannel, Goto, NoEngineStep, NoIrqStep, calls, engineVars, ResetChannel, WriteCS, ProgramRuns,
         ClearUnderWay, InFrame
<1> USE DEF DmaInv
<1>3. DriverTypes'
  BY <1>2 DEF DriverTypes
<1>4. LinesSound'
  BY <1>2 DEF LinesSound
<1>5. StatusSound'
  BY <1>2 DEF StatusSound, CallSound, DriverTypes, Initialising, Writing, Waits
<1>6. CallSound'
  BY <1>2 DEF CallSound, DriverTypes, Initialising, Writing, Waits
<1>7. WorkApart'
  BY <1>2 DEF WorkApart, DriverTypes, CallSound, Writing, Initialising
<1>8. ChannelsSound'
  BY <1>2, LinesAreIrqs, NoneIsNoTransfer
     DEF ChannelsSound, ChannelSound, Settled, Quiet, Running, Done, Silent, Writing, CallSound,
         DriverTypes, Waits, Initialising
<1>9. QED
  BY <1>1, <1>3, <1>4, <1>5, <1>6, <1>7, <1>8

(* The control block is written; what the engine does with the old one is apart. *)
LEMMA WriteControlBlockKeeps == DmaInv /\ WriteControlBlock => DmaInv'
<1> SUFFICES ASSUME DmaInv, WriteControlBlock PROVE DmaInv'
  OBVIOUS
<1>1. IrqInv'
  BY IrqPartKept DEF Next, CallStep
<1> DEFINE c == job.chan
<1>2. /\ pc = "write_cb" /\ pc' = "stop" /\ c \in Channels /\ Line(c) \in Irqs
      /\ job.transfer \in Transfers \cup {None}
      /\ cb' = [cb EXCEPT ![c] = job.transfer]
      /\ pending' = [pending EXCEPT ![c] = job.transfer]
      /\ UNCHANGED <<status, job, starts, hasty, raised, loaded, pointed, active, end, memory, handlers, clearers, enabled, irqsOn, frames, op>>
      /\ \A d \in Channels : ~ClearUnderWay(d) /\ ~ClearUnderWay(d)'
  BY ProgramFacts, LinesAreIrqs
     DEF WriteControlBlock, Goto, NoEngineStep, NoIrqStep, calls, engineVars, ResetChannel, WriteCS, ProgramRuns,
         ClearUnderWay, InFrame
<1> USE DEF DmaInv
<1>3. DriverTypes'
  BY <1>2 DEF DriverTypes
<1>4. LinesSound'
  BY <1>2 DEF LinesSound
<1>5. StatusSound'
  <2>1. job.transfer # None
    BY <1>2, NoneIsNoTransfer DEF CallSound
  <2>2. pending'[c] # None
    BY <1>2, <2>1 DEF DriverTypes
  <2>3. ASSUME NEW d \in Channels, d # c
        PROVE  pending'[d] = pending[d]
    BY <1>2, <2>3 DEF DriverTypes
  <2>4. ASSUME NEW d \in Channels
        PROVE  /\ status[d] # "IN_PROGRESS" /\ (status[d] = "NEED_INIT" => pending'[d] = None)
               /\ status[d] = "READY" => pending'[d] # None
    BY <1>2, <2>2, <2>3 DEF StatusSound
  <2>5. QED
    BY <1>2, <2>4 DEF StatusSound
<1>6. CallSound'
  BY <1>2 DEF CallSound, DriverTypes, Initialising, Writing, Waits
<1>7. WorkApart'
  <2> SUFFICES ASSUME NEW x \in Channels, NEW d \in Channels, x # d, pending'[d] # None
               PROVE  /\ loaded'[x] # None => Apart(loaded'[x], pending'[d])
                      /\ pointed'[x] => Apart(cb'[x], pending'[d])
    BY DEF WorkApart
  <2>1. \A y \in Channels \ {c} : pending[y] # None => Apart(job.transfer, pending[y])
    BY <1>2 DEF CallSound
  <2>2. CASE d # c
    BY <1>2, <2>1, <2>2 DEF WorkApart, DriverTypes
  <2>3. CASE d = c
    <3>1. Settled(x) /\ x # c
      BY <1>2, <2>3 DEF ChannelsSound, ChannelSound
    <3>2. /\ loaded[x] # None => pending[x] = loaded[x] /\ pending[x] # None
          /\ pointed[x] => pending[x] = cb[x] /\ pending[x] # None
      BY <3>1 DEF Settled, Running, Done, Quiet
    <3>3. cb'[x] = cb[x] /\ pending'[d] = job.transfer
      BY <1>2, <2>3, <3>1 DEF DriverTypes
    <3>4. QED
      BY <1>2, <2>1, <3>1, <3>2, <3>3 DEF Apart
  <2>4. QED
    BY <2>2, <2>3
<1>8. ChannelsSound'
  BY <1>2, LinesAreIrqs, NoneIsNoTransfer
     DEF ChannelsSound, ChannelSound, Settled, Quiet, Running, Done, Silent, Writing, CallSound,
         DriverTypes, Waits, Initialising
<1>9. QED
  BY <1>1, <1>3, <1>4, <1>5, <1>6, <1>7, <1>8

(* A caller of register_irq_handler is at a store, or begins or ends the   *)
(* call.                                                                   *)
LEMMA RegistrationKeeps ==
  DmaInv /\ (RegisterChannel \/ StoreCallback \/ Registered) => DmaInv'
<1> SUFFICES ASSUME DmaInv, RegisterChannel \/ StoreCallback \/ Registered PROVE DmaInv'
  OBVIOUS
<1>1. IrqInv'
  BY IrqPartKept DEF Next, CallStep
<1> USE DEF DmaInv
<1>2. /\ \/ pc = "register" /\ pc' = "registering"
         \/ pc = "registering" /\ pc' \in {"registering", "write_cb"}
      /\ job.chan \in Channels
      /\ UNCHANGED <<status, cb, job, pending, starts, hasty, raised, loaded, pointed, active,
                     end, memory, frames>>
      /\ \A d \in Channels : ~ClearUnderWay(d) /\ ~ClearUnderWay(d)'
  BY ProgramFacts
     DEF RegisterChannel, StoreCallback, Registered, CallRegister, RegisterStep, Goto,
         NoEngineStep, NoIrqStep, calls, engineVars, driverVars, ProgramRuns, ClearUnderWay, InFrame
<1>3. DriverTypes'
  BY <1>2, Zenon DEF DriverTypes
<1>4. LinesSound'
  <2>1. CASE RegisterChannel
    BY <1>2, <2>1 DEF RegisterChannel, CallRegister, LinesSound
  <2>2. CASE StoreCallback
    BY <2>2 DEF StoreCallback, RegisterStep, LinesSound, IrqInv, IrqTypeOK, Calls, Tables, Idle
  <2>3. CASE Registered
    BY <2>3 DEF Registered, NoIrqStep, LinesSound
  <2>4. QED
    BY <2>1, <2>2, <2>3
<1>5. StatusSound'
  BY <1>2 DEF StatusSound
<1>6. CallSound'
  BY <1>2 DEF CallSound, Initialising, Writing, Waits
<1>7. WorkApart'
  BY <1>2 DEF WorkApart
<1>8. ChannelsSound'
  BY <1>2 DEF ChannelsSound, ChannelSound, Settled, Quiet, Running, Done, Silent, Writing
<1>9. QED
  BY <1>1, <1>3, <1>4, <1>5, <1>6, <1>7, <1>8


(* CS = 0. *)
LEMMA StopChannelKeeps == DmaInv /\ StopChannel => DmaInv'
<1> SUFFICES ASSUME DmaInv, StopChannel PROVE DmaInv'
  OBVIOUS
<1>1. IrqInv'
  BY IrqPartKept DEF Next, CallStep
<1> DEFINE c == job.chan
<1>2. /\ pc = "stop" /\ pc' = "point" /\ c \in Channels /\ Line(c) \in Irqs
      /\ job.transfer \in Transfers \cup {None}
      /\ active' = [active EXCEPT ![c] = FALSE]
      /\ UNCHANGED <<status, cb, job, pending, starts, hasty, raised, loaded, pointed, memory, handlers, clearers, enabled, irqsOn, frames, op>>
      /\ \A d \in Channels : ~ClearUnderWay(d) /\ ~ClearUnderWay(d)'
  BY ProgramFacts, LinesAreIrqs
     DEF StopChannel, Goto, NoEngineStep, NoIrqStep, calls, engineVars, ResetChannel, WriteCS, ProgramRuns,
         ClearUnderWay, InFrame
<1> USE DEF DmaInv
<1>3. DriverTypes'
  <2>1. active' \in [Channels -> BOOLEAN] /\ end' \in [Channels -> BOOLEAN]
    BY <1>2, WriteCSTypes DEF DriverTypes, StopChannel
  <2>2. QED
    BY <1>2, <2>1 DEF DriverTypes
<1>4. LinesSound'
  BY <1>2 DEF LinesSound
<1>5. StatusSound'
  BY <1>2 DEF StatusSound, CallSound, DriverTypes, Initialising, Writing, Waits
<1>6. CallSound'
  BY <1>2 DEF CallSound, DriverTypes, Initialising, Writing, Waits
<1>7. WorkApart'
  BY <1>2 DEF WorkApart, DriverTypes, CallSound, Writing, Initialising
<1>8. ChannelsSound'
  BY <1>2, LinesAreIrqs, NoneIsNoTransfer
     DEF ChannelsSound, ChannelSound, Settled, Quiet, Running, Done, Silent, Writing, CallSound,
         DriverTypes, Waits, Initialising
<1>9. QED
  BY <1>1, <1>3, <1>4, <1>5, <1>6, <1>7, <1>8

(* CONBLK_AD = cb. *)
LEMMA PointChannelKeeps == DmaInv /\ PointChannel => DmaInv'
<1> SUFFICES ASSUME DmaInv, PointChannel PROVE DmaInv'
  OBVIOUS
<1>1. IrqInv'
  BY IrqPartKept DEF Next, CallStep
<1> DEFINE c == job.chan
<1>2. /\ pc = "point" /\ pc' = "ack" /\ c \in Channels /\ Line(c) \in Irqs
      /\ job.transfer \in Transfers \cup {None}
      /\ pointed' = [pointed EXCEPT ![c] = TRUE]
      /\ loaded' = [loaded EXCEPT ![c] = None]
      /\ UNCHANGED <<status, cb, job, pending, starts, hasty, raised, active, end, memory, handlers, clearers, enabled, irqsOn, frames, op>>
      /\ \A d \in Channels : ~ClearUnderWay(d) /\ ~ClearUnderWay(d)'
  BY ProgramFacts, LinesAreIrqs
     DEF PointChannel, Goto, NoEngineStep, NoIrqStep, calls, engineVars, ResetChannel, WriteCS, ProgramRuns,
         ClearUnderWay, InFrame
<1> USE DEF DmaInv
<1>3. DriverTypes'
  BY <1>2 DEF DriverTypes
<1>4. LinesSound'
  BY <1>2 DEF LinesSound
<1>5. StatusSound'
  BY <1>2 DEF StatusSound, CallSound, DriverTypes, Initialising, Writing, Waits
<1>6. CallSound'
  BY <1>2 DEF CallSound, DriverTypes, Initialising, Writing, Waits
<1>7. WorkApart'
  BY <1>2 DEF WorkApart, DriverTypes, CallSound, Writing, Initialising
<1>8. ChannelsSound'
  BY <1>2, LinesAreIrqs, NoneIsNoTransfer
     DEF ChannelsSound, ChannelSound, Settled, Quiet, Running, Done, Silent, Writing, CallSound,
         DriverTypes, Waits, Initialising
<1>9. QED
  BY <1>1, <1>3, <1>4, <1>5, <1>6, <1>7, <1>8

(* CS = INT: an interrupt left over from an earlier transfer is gone. *)
LEMMA AckChannelKeeps == DmaInv /\ AckChannel => DmaInv'
<1> SUFFICES ASSUME DmaInv, AckChannel PROVE DmaInv'
  OBVIOUS
<1>1. IrqInv'
  BY IrqPartKept DEF Next, CallStep
<1> DEFINE c == job.chan
<1>2. /\ pc = "ack" /\ pc' = "activate" /\ c \in Channels /\ Line(c) \in Irqs
      /\ job.transfer \in Transfers \cup {None}
      /\ active' = [active EXCEPT ![c] = FALSE]
      /\ raised' = raised \ {Line(c)}
      /\ UNCHANGED <<status, cb, job, pending, starts, hasty, loaded, pointed, memory, handlers, clearers, enabled, irqsOn, frames, op>>
      /\ \A d \in Channels : ~ClearUnderWay(d) /\ ~ClearUnderWay(d)'
  BY ProgramFacts, LinesAreIrqs
     DEF AckChannel, Goto, NoEngineStep, NoIrqStep, calls, engineVars, ResetChannel, WriteCS, ProgramRuns,
         ClearUnderWay, InFrame
<1> USE DEF DmaInv
<1>3. DriverTypes'
  <2>1. active' \in [Channels -> BOOLEAN] /\ end' \in [Channels -> BOOLEAN]
    BY <1>2, WriteCSTypes DEF DriverTypes, AckChannel
  <2>2. QED
    BY <1>2, <2>1 DEF DriverTypes
<1>4. LinesSound'
  BY <1>2 DEF LinesSound
<1>5. StatusSound'
  BY <1>2 DEF StatusSound, CallSound, DriverTypes, Initialising, Writing, Waits
<1>6. CallSound'
  BY <1>2 DEF CallSound, DriverTypes, Initialising, Writing, Waits
<1>7. WorkApart'
  BY <1>2 DEF WorkApart, DriverTypes, CallSound, Writing, Initialising
<1>8. ChannelsSound'
  BY <1>2, LinesAreIrqs, NoneIsNoTransfer
     DEF ChannelsSound, ChannelSound, Settled, Quiet, Running, Done, Silent, Writing, CallSound,
         DriverTypes, Waits, Initialising
<1>9. QED
  BY <1>1, <1>3, <1>4, <1>5, <1>6, <1>7, <1>8

(* CS = ACTIVE: the transfer runs. *)
LEMMA ActivateChannelKeeps == DmaInv /\ ActivateChannel => DmaInv'
<1> SUFFICES ASSUME DmaInv, ActivateChannel PROVE DmaInv'
  OBVIOUS
<1>1. IrqInv'
  BY IrqPartKept DEF Next, CallStep
<1> DEFINE c == job.chan
<1>2. /\ pc = "activate" /\ pc' = "idle" /\ c \in Channels /\ Line(c) \in Irqs
      /\ job.transfer \in Transfers \cup {None}
      /\ active' = [active EXCEPT ![c] = TRUE]
      /\ UNCHANGED <<status, cb, job, pending, starts, hasty, raised, loaded, pointed, memory, handlers, clearers, enabled, irqsOn, frames, op>>
      /\ \A d \in Channels : ~ClearUnderWay(d) /\ ~ClearUnderWay(d)'
  BY ProgramFacts, LinesAreIrqs
     DEF ActivateChannel, Goto, NoEngineStep, NoIrqStep, calls, engineVars, ResetChannel, WriteCS, ProgramRuns,
         ClearUnderWay, InFrame
<1> USE DEF DmaInv
<1>3. DriverTypes'
  <2>1. active' \in [Channels -> BOOLEAN] /\ end' \in [Channels -> BOOLEAN]
    BY <1>2, WriteCSTypes DEF DriverTypes, ActivateChannel
  <2>2. QED
    BY <1>2, <2>1 DEF DriverTypes
<1>4. LinesSound'
  BY <1>2 DEF LinesSound
<1>5. StatusSound'
  BY <1>2 DEF StatusSound, CallSound, DriverTypes, Initialising, Writing, Waits
<1>6. CallSound'
  BY <1>2 DEF CallSound, DriverTypes, Initialising, Writing, Waits
<1>7. WorkApart'
  BY <1>2 DEF WorkApart, DriverTypes, CallSound, Writing, Initialising
<1>8. ChannelsSound'
  BY <1>2, LinesAreIrqs, NoneIsNoTransfer
     DEF ChannelsSound, ChannelSound, Settled, Quiet, Running, Done, Silent, Writing, CallSound,
         DriverTypes, Waits, Initialising
<1>9. QED
  BY <1>1, <1>3, <1>4, <1>5, <1>6, <1>7, <1>8

(* CS = END | INT. *)
LEMMA FinishWaitKeeps == DmaInv /\ FinishWait => DmaInv'
<1> SUFFICES ASSUME DmaInv, FinishWait PROVE DmaInv'
  OBVIOUS
<1>1. IrqInv'
  BY IrqPartKept DEF Next, CallStep
<1> DEFINE c == job.chan
<1>2. /\ pc = "finish" /\ pc' = "waited" /\ c \in Channels /\ Line(c) \in Irqs
      /\ job.transfer \in Transfers \cup {None}
      /\ active' = [active EXCEPT ![c] = FALSE]
      /\ raised' = raised \ {Line(c)}
      /\ UNCHANGED <<status, cb, job, pending, starts, hasty, loaded, pointed, memory, handlers, clearers, enabled, irqsOn, frames, op>>
      /\ \A d \in Channels : ~ClearUnderWay(d) /\ ~ClearUnderWay(d)'
  BY ProgramFacts, LinesAreIrqs
     DEF FinishWait, Goto, NoEngineStep, NoIrqStep, calls, engineVars, ResetChannel, WriteCS, ProgramRuns,
         ClearUnderWay, InFrame
<1> USE DEF DmaInv
<1>3. DriverTypes'
  <2>1. active' \in [Channels -> BOOLEAN] /\ end' \in [Channels -> BOOLEAN]
    BY <1>2, WriteCSTypes DEF DriverTypes, FinishWait
  <2>2. QED
    BY <1>2, <2>1 DEF DriverTypes
<1>4. LinesSound'
  BY <1>2 DEF LinesSound
<1>5. StatusSound'
  BY <1>2 DEF StatusSound, CallSound, DriverTypes, Initialising, Writing, Waits
<1>6. CallSound'
  BY <1>2 DEF CallSound, DriverTypes, Initialising, Writing, Waits
<1>7. WorkApart'
  BY <1>2 DEF WorkApart, DriverTypes, CallSound, Writing, Initialising
<1>8. ChannelsSound'
  BY <1>2, LinesAreIrqs, NoneIsNoTransfer
     DEF ChannelsSound, ChannelSound, Settled, Quiet, Running, Done, Silent, Writing, CallSound,
         DriverTypes, Waits, Initialising
<1>9. QED
  BY <1>1, <1>3, <1>4, <1>5, <1>6, <1>7, <1>8

(* CS = RESET. *)
LEMMA ResetWaitKeeps == DmaInv /\ ResetWait => DmaInv'
<1> SUFFICES ASSUME DmaInv, ResetWait PROVE DmaInv'
  OBVIOUS
<1>1. IrqInv'
  BY IrqPartKept DEF Next, CallStep
<1> DEFINE c == job.chan
<1>2. /\ pc = "reset" /\ pc' = "failed" /\ c \in Channels /\ Line(c) \in Irqs
      /\ job.transfer \in Transfers \cup {None}
      /\ active' = [active EXCEPT ![c] = FALSE]
      /\ end' = [end EXCEPT ![c] = FALSE]
      /\ raised' = raised \ {Line(c)}
      /\ loaded' = [loaded EXCEPT ![c] = None]
      /\ pointed' = [pointed EXCEPT ![c] = FALSE]
      /\ UNCHANGED <<status, cb, job, pending, starts, hasty, memory, handlers, clearers, enabled, irqsOn, frames, op>>
      /\ \A d \in Channels : ~ClearUnderWay(d) /\ ~ClearUnderWay(d)'
  BY ProgramFacts, LinesAreIrqs
     DEF ResetWait, Goto, NoEngineStep, NoIrqStep, calls, engineVars, ResetChannel, WriteCS, ProgramRuns,
         ClearUnderWay, InFrame
<1> USE DEF DmaInv
<1>3. DriverTypes'
  BY <1>2 DEF DriverTypes
<1>4. LinesSound'
  BY <1>2 DEF LinesSound
<1>5. StatusSound'
  BY <1>2 DEF StatusSound, CallSound, DriverTypes, Initialising, Writing, Waits
<1>6. CallSound'
  BY <1>2 DEF CallSound, DriverTypes, Initialising, Writing, Waits
<1>7. WorkApart'
  BY <1>2 DEF WorkApart, DriverTypes, CallSound, Writing, Initialising
<1>8. ChannelsSound'
  BY <1>2, LinesAreIrqs, NoneIsNoTransfer
     DEF ChannelsSound, ChannelSound, Settled, Quiet, Running, Done, Silent, Writing, CallSound,
         DriverTypes, Waits, Initialising
<1>9. QED
  BY <1>1, <1>3, <1>4, <1>5, <1>6, <1>7, <1>8

(* One look at CS: a channel that has ended is not running any more, so    *)
(* its transfer is done.                                                   *)
LEMMA LookAtCSKeeps == DmaInv /\ LookAtCS => DmaInv'
<1> SUFFICES ASSUME DmaInv, LookAtCS PROVE DmaInv'
  OBVIOUS
<1>1. IrqInv'
  BY IrqPartKept DEF Next, CallStep
<1> USE DEF DmaInv
<1>2. /\ pc = "look" /\ pc' \in {"finish", "reset"} /\ job.chan \in Channels
      /\ pc' = "finish" => ~active[job.chan]
      /\ UNCHANGED <<status, cb, job, pending, starts, hasty, raised, loaded, pointed, active,
                     end, memory, handlers, clearers, enabled, irqsOn, frames, op>>
      /\ \A d \in Channels : ~ClearUnderWay(d) /\ ~ClearUnderWay(d)'
  BY ProgramFacts
     DEF LookAtCS, EndedAndServed, NoEngineStep, NoIrqStep, calls, engineVars, ProgramRuns,
         ClearUnderWay, InFrame
<1>3. DriverTypes'
  BY <1>2, Zenon DEF DriverTypes
<1>4. LinesSound'
  BY <1>2 DEF LinesSound
<1>5. StatusSound'
  BY <1>2 DEF StatusSound
<1>6. CallSound'
  BY <1>2 DEF CallSound, Initialising, Writing, Waits
<1>7. WorkApart'
  BY <1>2 DEF WorkApart
<1>8. ChannelsSound'
  BY <1>2
     DEF ChannelsSound, ChannelSound, Settled, Quiet, Running, Done, Silent, Writing, CallSound, Waits
<1>9. QED
  BY <1>1, <1>3, <1>4, <1>5, <1>6, <1>7, <1>8

(* dma_wait returns: nothing is pending on the channel any more.           *)
LEMMA WaitReturnsKeeps == DmaInv /\ WaitReturns => DmaInv'
<1> SUFFICES ASSUME DmaInv, WaitReturns PROVE DmaInv'
  OBVIOUS
<1>1. IrqInv'
  BY IrqPartKept DEF Next, CallStep
<1> USE DEF DmaInv
<1>2. /\ pc \in {"waited", "failed"} /\ pc' = "idle" /\ job.chan \in Channels
      /\ pending' = [pending EXCEPT ![job.chan] = None]
      /\ UNCHANGED <<status, cb, job, starts, hasty, raised, loaded, pointed, active,
                     end, memory, handlers, clearers, enabled, irqsOn, frames, op>>
      /\ \A d \in Channels : ~ClearUnderWay(d) /\ ~ClearUnderWay(d)'
  BY ProgramFacts
     DEF WaitReturns, NoEngineStep, NoIrqStep, calls, engineVars, ProgramRuns, ClearUnderWay, InFrame
<1>3. DriverTypes'
  <2>1. pending' \in [Channels -> Transfers \cup {None}]
    BY <1>2 DEF DriverTypes
  <2>2. QED
    BY <1>2, <2>1, Zenon DEF DriverTypes
<1>4. LinesSound'
  BY <1>2 DEF LinesSound
<1>5. StatusSound'
  BY <1>2 DEF StatusSound, CallSound, DriverTypes, Waits
<1>6. CallSound'
  BY <1>2 DEF CallSound, DriverTypes, Initialising, Writing, Waits
<1>7. WorkApart'
  BY <1>2 DEF WorkApart, DriverTypes
<1>8. ChannelsSound'
  BY <1>2
     DEF ChannelsSound, ChannelSound, Settled, Quiet, Running, Done, Silent, Writing, DriverTypes
<1>9. QED
  BY <1>1, <1>3, <1>4, <1>5, <1>6, <1>7, <1>8


(* dma_start: callers keep to areas apart from those of other channels.    *)
LEMMA DmaStartKeeps ==
  ASSUME DmaInv, NEW c \in Channels, NEW t \in Transfers, DmaStart(c, t)
  PROVE  DmaInv'
<1>1. IrqInv'
  BY IrqPartKept DEF Next, Call
<1> USE DEF DmaInv
<1>2. /\ pc = "idle" /\ job'.chan = c /\ job'.transfer = t
      /\ job' = [chan |-> c, transfer |-> t] /\ starts < MaxStarts /\ starts' = starts + 1
      /\ hasty' = (hasty \/ pending[c] # None)
      /\ UNCHANGED <<status, cb, pending, raised, loaded, pointed, active, end, memory,
                     handlers, clearers, enabled, irqsOn, frames, op>>
      /\ \A d \in Channels : ~ClearUnderWay(d) /\ ~ClearUnderWay(d)'
  BY ProgramFacts
     DEF DmaStart, NoEngineStep, NoIrqStep, engineVars, ProgramRuns, ClearUnderWay, InFrame
<1>3. \/ status[c] = "READY" /\ pc' = "refused"
      \/ status[c] = "NEED_INIT" /\ pc' = "init"
      \/ status[c] = "END" /\ pc' = "write_cb"
  BY DEF DmaStart, StatusSound, DriverTypes
<1>4. DriverTypes'
  <2>1. starts' \in 0 .. MaxStarts
    BY <1>2, ChannelsAssumption DEF DriverTypes
  <2>2. job' \in [chan : Channels, transfer : Transfers \cup {None}]
    BY <1>2
  <2>3. hasty' \in BOOLEAN
    BY <1>2, Zenon DEF DriverTypes
  <2>4. QED
    BY <1>2, <2>1, <2>2, <2>3, Zenon DEF DriverTypes
<1>5. LinesSound'
  BY <1>2 DEF LinesSound
<1>6. StatusSound'
  BY <1>2, <1>3 DEF StatusSound
<1>7. CallSound'
  <2>1. \A d \in Channels \ {c} : pending[d] # None => Apart(t, pending[d])
    BY DEF DmaStart, MayStart, Apart
  <2>2. status[c] = "NEED_INIT" => pending[c] = None
    BY DEF StatusSound
  <2>3. status[c] = "READY" => pending[c] # None
    BY <1>2 DEF StatusSound
  <2>4. hasty' <=> hasty \/ pending[c] # None
    BY <1>2
  <2>5. QED
    BY <1>2, <1>3, <2>1, <2>2, <2>3, <2>4 DEF CallSound, Initialising, Writing, Waits
<1>8. WorkApart'
  BY <1>2 DEF WorkApart
<1>9. ChannelsSound'
  BY <1>2, <1>3
     DEF ChannelsSound, ChannelSound, Settled, Quiet, Running, Done, Silent, Writing
<1>10. QED
  BY <1>1, <1>4, <1>5, <1>6, <1>7, <1>8, <1>9

(* dma_wait marks the channel END before it looks.                         *)
LEMMA DmaWaitKeeps ==
  ASSUME DmaInv, NEW c \in Channels, DmaWait(c)
  PROVE  DmaInv'
<1>1. IrqInv'
  BY IrqPartKept DEF Next, Call
<1> USE DEF DmaInv
<1>2. /\ pc = "idle" /\ pc' = "look" /\ job'.chan = c /\ job'.transfer = pending[c]
      /\ job' = [chan |-> c, transfer |-> pending[c]] /\ pending[c] # None
      /\ status' = [status EXCEPT ![c] = "END"]
      /\ UNCHANGED <<cb, pending, starts, hasty, raised, loaded, pointed, active, end, memory,
                     handlers, clearers, enabled, irqsOn, frames, op>>
      /\ \A d \in Channels : ~ClearUnderWay(d) /\ ~ClearUnderWay(d)'
  BY ProgramFacts
     DEF DmaWait, NoEngineStep, NoIrqStep, calls, engineVars, ProgramRuns, ClearUnderWay, InFrame
<1>3. DriverTypes'
  <2>1. job' \in [chan : Channels, transfer : Transfers \cup {None}]
    BY <1>2 DEF DriverTypes
  <2>2. status' \in [Channels -> {"NEED_INIT", "READY", "IN_PROGRESS", "END"}]
    BY <1>2 DEF DriverTypes
  <2>3. QED
    BY <1>2, <2>1, <2>2, Zenon DEF DriverTypes
<1>4. LinesSound'
  BY <1>2 DEF LinesSound
<1>5. StatusSound'
  BY <1>2 DEF StatusSound, DriverTypes
<1>6. CallSound'
  BY <1>2 DEF CallSound, DriverTypes, Initialising, Writing, Waits
<1>7. WorkApart'
  BY <1>2 DEF WorkApart
<1>8. ChannelsSound'
  BY <1>2
     DEF ChannelsSound, ChannelSound, Settled, Quiet, Running, Done, Silent, Writing
<1>9. QED
  BY <1>1, <1>3, <1>4, <1>5, <1>6, <1>7, <1>8

-----------------------------------------------------------------------------
(* The engine writes to the destination of work it has: the other          *)
(* channels' transfers, done or not, are apart from it.                    *)
LEMMA OthersUndisturbed ==
  ASSUME DmaInv, NEW c \in Channels, NEW d \in Channels, c # d, NEW t \in Transfers, NEW v,
         pending[d] # None => Apart(t, pending[d]),
         memory' = [memory EXCEPT ![t.dst] = v],
         UNCHANGED <<frames, cb, pending, pc, job>>,
         loaded'[d] = loaded[d], pointed'[d] = pointed[d], active'[d] = active[d],
         Line(d) \in raised' <=> Line(d) \in raised
  PROVE  ChannelSound(d)'
<1> USE DEF DmaInv
<1>1. ClearUnderWay(d)' <=> ClearUnderWay(d)
  BY DEF ClearUnderWay, InFrame, Top
<1>2. pending[d] # None => memory'[pending[d].dst] = memory[pending[d].dst]
                        /\ memory'[pending[d].src] = memory[pending[d].src]
  BY DEF Apart, DriverTypes, Transfers
<1>3. Quiet(d)' <=> Quiet(d)
  BY DEF Quiet
<1>4. Running(d)' <=> Running(d)
  BY <1>1 DEF Running
<1>5. pending[d] # None => (Done(d)' <=> Done(d))
  BY <1>2, <1>3 DEF Done
<1>6. Settled(d)' <=> Settled(d)
  BY <1>3, <1>4, <1>5 DEF Settled
<1>7. Silent(d)' <=> Silent(d)
  BY DEF Silent
<1>8. ChannelSound(d)
  BY DEF ChannelsSound
<1>9. d = job.chan /\ pc \in {"finish", "waited"} => pending[d] # None
  BY DEF CallSound, Waits
<1>10. QED
  BY <1>1, <1>3, <1>5, <1>6, <1>7, <1>8, <1>9 DEF ChannelSound

(* The engine takes a channel's control block and begins to copy.          *)
LEMMA FetchKeeps ==
  ASSUME DmaInv, NEW c \in Channels, Fetch(c)
  PROVE  DmaInv'
<1>1. IrqInv'
  BY IrqPartKept DEF Next, Engine
<1> USE DEF DmaInv
<1>2. /\ active[c] /\ pointed[c]
      /\ loaded' = [loaded EXCEPT ![c] = cb[c]] /\ pointed' = [pointed EXCEPT ![c] = FALSE]
      /\ memory' = [memory EXCEPT ![cb[c].dst] = "torn"]
      /\ UNCHANGED <<active, end, status, cb, pc, job, pending, starts, hasty,
                     handlers, clearers, enabled, raised, irqsOn, frames, op>>
  BY DEF Fetch, irqVars, driverVars, calls
<1>3. job.chan \in Channels /\ Writing \cap {"finish", "waited"} = {}
  BY DEF DriverTypes, Writing
<1>4. cb[c] \in Transfers
  <2>1. CASE c = job.chan /\ pc \in Writing \cup {"failed"}
    BY <1>2, <2>1 DEF CallSound, Writing, ChannelsSound, ChannelSound, Quiet
  <2>2. CASE ~(c = job.chan /\ pc \in Writing \cup {"failed"})
    <3>1. Settled(c)
      BY <2>2 DEF ChannelsSound, ChannelSound
    <3>2. QED
      BY <1>2, <3>1 DEF Settled, Quiet, Running, Done, DriverTypes
  <2>3. QED
    BY <2>1, <2>2
<1>5. DriverTypes'
  <2>1. loaded' \in [Channels -> Transfers \cup {None}]
    BY <1>2 DEF DriverTypes
  <2>2. pointed' \in [Channels -> BOOLEAN]
    BY <1>2 DEF DriverTypes
  <2>3. memory' \in [Pages -> Pages \cup {"torn"}]
    BY <1>2 DEF DriverTypes
  <2>4. QED
    BY <1>2, <2>1, <2>2, <2>3, Zenon DEF DriverTypes
<1>6. LinesSound' /\ StatusSound' /\ CallSound'
  BY <1>2 DEF LinesSound, StatusSound, CallSound
<1>7. WorkApart'
  BY <1>2 DEF WorkApart, DriverTypes
<1>8. ChannelsSound'
  <2> SUFFICES ASSUME NEW d \in Channels PROVE ChannelSound(d)'
    BY DEF ChannelsSound
  <2>1. CASE d # c
    <3>1. loaded'[d] = loaded[d] /\ pointed'[d] = pointed[d]
      BY <1>2, <2>1 DEF DriverTypes
    <3>2. pending[d] # None => Apart(cb[c], pending[d])
      BY <1>2, <2>1 DEF WorkApart
    <3>3. QED
      BY <1>2, <1>4, <2>1, <3>1, <3>2, OthersUndisturbed
  <2>2. CASE d = c
    <3>1. loaded'[c] = cb[c] /\ ~pointed'[c]
      BY <1>2 DEF DriverTypes
    <3>2. ClearUnderWay(c)' <=> ClearUnderWay(c)
      BY <1>2 DEF ClearUnderWay, InFrame, Top
    <3>3. CASE c = job.chan /\ pc \in Writing \cup {"failed"}
      BY <1>2, <2>2, <3>3 DEF ChannelsSound, ChannelSound, Silent, Quiet
    <3>4. CASE ~(c = job.chan /\ pc \in Writing \cup {"failed"})
      <4>1. Settled(c) /\ ~Quiet(c)
        BY <1>2, <3>4 DEF ChannelsSound, ChannelSound, Quiet
      <4>2. ~(c = job.chan /\ pc \in {"finish", "waited"})
        BY <4>1, <3>4 DEF ChannelsSound, ChannelSound, Done
      <4>3. Running(c)' /\ pending'[c] # None
        BY <1>2, <3>1, <3>2, <4>1 DEF Settled, Done, Running
      <4>4. QED
        BY <1>2, <2>2, <3>4, <4>2, <4>3 DEF ChannelSound, Settled
    <3>5. QED
      BY <3>3, <3>4
  <2>3. QED
    BY <2>1, <2>2
<1>9. QED
  BY <1>1, <1>5, <1>6, <1>7, <1>8

(* The engine ends a transfer: a running one is then done.                 *)
LEMMA CompleteKeeps ==
  ASSUME DmaInv, NEW c \in Channels, Complete(c)
  PROVE  DmaInv'
<1>1. IrqInv'
  BY IrqPartKept DEF Next, Engine
<1> USE DEF DmaInv
<1>2. /\ active[c] /\ ~pointed[c] /\ loaded[c] # None
      /\ memory' = [memory EXCEPT ![loaded[c].dst] = memory[loaded[c].src]]
      /\ loaded' = [loaded EXCEPT ![c] = None] /\ active' = [active EXCEPT ![c] = FALSE]
      /\ end' = [end EXCEPT ![c] = TRUE] /\ raised' = raised \cup {Line(c)}
      /\ UNCHANGED <<pointed, status, cb, pc, job, pending, starts, hasty,
                     handlers, clearers, enabled, irqsOn, frames, op>>
  BY DEF Complete, driverVars, calls
<1>3. loaded[c] \in Transfers /\ loaded[c].src \in Pages /\ loaded[c].dst \in Pages
      /\ loaded[c].src # loaded[c].dst /\ job.chan \in Channels
  BY <1>2 DEF DriverTypes, Transfers
<1>4. DriverTypes'
  <2>1. loaded' \in [Channels -> Transfers \cup {None}]
    BY <1>2 DEF DriverTypes
  <2>2. active' \in [Channels -> BOOLEAN] /\ end' \in [Channels -> BOOLEAN]
    BY <1>2 DEF DriverTypes
  <2>3. memory' \in [Pages -> Pages \cup {"torn"}]
    BY <1>2, <1>3 DEF DriverTypes
  <2>4. QED
    BY <1>2, <2>1, <2>2, <2>3, Zenon DEF DriverTypes
<1>5. LinesSound' /\ StatusSound' /\ CallSound'
  BY <1>2 DEF LinesSound, StatusSound, CallSound
<1>6. WorkApart'
  BY <1>2 DEF WorkApart, DriverTypes
<1>7. ChannelsSound'
  <2> SUFFICES ASSUME NEW d \in Channels PROVE ChannelSound(d)'
    BY DEF ChannelsSound
  <2>1. CASE d # c
    <3>1. loaded'[d] = loaded[d] /\ active'[d] = active[d] /\ pointed'[d] = pointed[d]
      BY <1>2, <2>1 DEF DriverTypes
    <3>2. pending[d] # None => Apart(loaded[c], pending[d])
      BY <1>2, <2>1 DEF WorkApart
    <3>3. Line(d) \in raised' <=> Line(d) \in raised
      BY <1>2, <2>1, LinesAreIrqs
    <3> DEFINE t == loaded[c]
    <3>4. memory' = [memory EXCEPT ![t.dst] = memory[t.src]] /\ t \in Transfers
      BY <1>2, <1>3
    <3> HIDE DEF t
    <3>5. pending[d] # None => Apart(t, pending[d])
      BY <3>2 DEF t
    <3>6. QED
      BY <1>2, <2>1, <3>1, <3>3, <3>4, <3>5, OthersUndisturbed
  <2>2. CASE d = c
    <3>1. Quiet(c)'
      BY <1>2 DEF Quiet, DriverTypes
    <3>2. ChannelSound(c) /\ ~Quiet(c)
      BY <1>2 DEF ChannelsSound, Quiet
    <3>3. CASE c = job.chan /\ pc \in Writing \cup {"failed"}
      BY <1>2, <2>2, <3>2, <3>3 DEF ChannelSound, Silent
    <3>4. CASE ~(c = job.chan /\ pc \in Writing \cup {"failed"})
      <4>1. Running(c) /\ pending[c] = loaded[c]
            /\ ~(c = job.chan /\ pc \in {"finish", "waited"})
        BY <1>2, <3>2, <3>4 DEF ChannelSound, Settled, Done, Running
      <4>2. memory'[pending[c].dst] = memory'[pending[c].src]
        BY <1>2, <1>3, <4>1 DEF DriverTypes
      <4>3. Done(c)' /\ pending'[c] # None
        BY <1>2, <3>1, <4>1, <4>2 DEF Done
      <4>4. QED
        BY <1>2, <2>2, <3>4, <4>1, <4>3 DEF ChannelSound, Settled
    <3>5. QED
      BY <3>3, <3>4
  <2>3. QED
    BY <2>1, <2>2
<1>8. QED
  BY <1>1, <1>4, <1>5, <1>6, <1>7

-----------------------------------------------------------------------------
(* irq_handler is about to clear only lines that were up when it looked.   *)
LEMMA ClearOnlyRaised ==
  ASSUME IrqInv, TakeIrq \/ ScanPast \/ ScanHit \/ HandlerReturns \/ ReturnFromIrq,
         NEW c \in Channels, ClearUnderWay(c)'
  PROVE  Line(c) \in raised
<1> USE DEF IrqInv
<1>1. frames \in Seq(Frame)
  BY DEF IrqTypeOK, Frame
<1>2. frames' # <<>> /\ Top'.pc = "clear" /\ Top'.j = Line(c)
  BY DEF ClearUnderWay, InFrame
<1>3. CASE TakeIrq
  <2> DEFINE f == [pc |-> "scan", j |-> NextLine(-1)]
  <2>1. f \in Frame
    BY NextLineType DEF Frame
  <2>2. Top' = f
    BY <1>1, <1>3, <2>1, PushIs DEF TakeIrq
  <2>3. QED
    BY <1>2, <2>2
<1>4. CASE ScanPast
  <2>1. frames # <<>> /\ Top \in Frame /\ Top.pc = "scan" /\ Top.j \in Irqs
    BY <1>1, <1>4, TopFrame, IrqsAssumption DEF ScanPast, InFrame
  <2> DEFINE f == [Top EXCEPT !.j = NextLine(Top.j)]
  <2>2. f \in Frame /\ f.pc = "scan"
    BY <2>1, NextLineType, IrqsAssumption DEF Frame
  <2>3. SetTop(f)
    BY <1>4 DEF ScanPast
  <2> HIDE DEF f
  <2>4. Top' = f
    BY <1>1, <2>1, <2>2, <2>3, SetTopIs
  <2>5. QED
    BY <1>2, <2>2, <2>4
<1>5. CASE ScanHit
  <2>1. frames # <<>> /\ Top \in Frame /\ Top.j \in raised
    BY <1>1, <1>5, TopFrame DEF ScanHit, InFrame, Serviceable, Pending
  <2> DEFINE f == [Top EXCEPT !.pc = "clear"]
  <2>2. f \in Frame /\ f.j = Top.j
    BY <2>1 DEF Frame
  <2>3. SetTop(f)
    BY <1>5 DEF ScanHit
  <2> HIDE DEF f
  <2>4. Top' = f
    BY <1>1, <2>1, <2>2, <2>3, SetTopIs
  <2>5. QED
    BY <1>2, <2>1, <2>2, <2>4
<1>6. CASE HandlerReturns
  <2>1. frames # <<>> /\ Top \in Frame
    BY <1>1, <1>6, TopFrame DEF HandlerReturns, InFrame
  <2> DEFINE f == [Top EXCEPT !.pc = "return"]
  <2>2. f \in Frame /\ f.pc = "return"
    BY <2>1 DEF Frame
  <2>3. SetTop(f)
    BY <1>6 DEF HandlerReturns
  <2> HIDE DEF f
  <2>4. Top' = f
    BY <1>1, <2>1, <2>2, <2>3, SetTopIs
  <2>5. QED
    BY <1>2, <2>2, <2>4
<1>7. CASE ReturnFromIrq
  <2>1. Top' = frames[Len(frames) - 1] /\ Len(frames) - 1 \in Nat \ {0}
    <3>1. frames # <<>> /\ frames' = SubSeq(frames, 1, Len(frames) - 1)
      BY <1>7 DEF ReturnFromIrq
    <3>2. /\ frames' \in Seq(Frame) /\ Len(frames') = Len(frames) - 1
          /\ frames' # <<>> => Top' = frames[Len(frames) - 1]
      BY <1>1, <3>1, PopIs
    <3>3. QED
      BY <1>2, <3>2, EmptySeq
  <2>2. Len(frames) - 1 \in 1 .. Len(frames) - 1
    <3>1. Len(frames) \in Nat
      BY <1>1, LenProperties
    <3>2. \A n \in Nat : n - 1 \in Nat \ {0} => n - 1 \in 1 .. n - 1
      OBVIOUS
    <3>3. QED
      BY <2>1, <3>1, <3>2, Zenon
  <2>3. Top'.pc = "handler"
    BY <2>1, <2>2 DEF OnlyHandlersInterrupted
  <2>4. QED
    BY <1>2, <2>3
<1>8. QED
  BY <1>3, <1>4, <1>5, <1>6, <1>7

(* An interrupt is taken, scans, returns: a channel that runs is not up    *)
(* and therefore not cleared.                                              *)
LEMMA OtherIrqStepKeeps ==
  ASSUME DmaInv, TakeIrq \/ ScanPast \/ ScanHit \/ HandlerReturns \/ ReturnFromIrq,
         UNCHANGED <<engineVars, driverVars>>
  PROVE  DmaInv'
<1>1. IrqInv'
  BY DispatchKeepsInv DEF Dispatch, DmaInv
<1> USE DEF DmaInv
<1>2. UNCHANGED <<status, cb, job, pc, pending, starts, hasty, loaded, pointed, active, end,
                  memory, handlers, raised, op>>
  BY DEF engineVars, driverVars, calls, TakeIrq, ScanPast, ScanHit, HandlerReturns, ReturnFromIrq
<1>3. \A c \in Channels : ClearUnderWay(c)' => Line(c) \in raised
  BY ClearOnlyRaised
<1>4. DriverTypes'
  BY <1>2, Zenon DEF DriverTypes
<1>5. LinesSound' /\ StatusSound' /\ CallSound' /\ WorkApart'
  BY <1>2 DEF LinesSound, StatusSound, CallSound, WorkApart
<1>6. ChannelsSound'
  BY <1>2, <1>3 DEF ChannelsSound, ChannelSound, Settled, Quiet, Running, Done, Silent
<1>7. QED
  BY <1>1, <1>4, <1>5, <1>6

(* The clearer of a channel runs: the channel was not running, since its   *)
(* transfer's own end raised the line.                                     *)
LEMMA ClearChannelKeeps == DmaInv /\ ClearChannel => DmaInv'
<1> SUFFICES ASSUME DmaInv, ClearChannel PROVE DmaInv'
  OBVIOUS
<1>1. IrqInv'
  BY IrqPartKept DEF Next, Interrupted
<1> USE DEF DmaInv
<1>2. frames \in Seq(Frame) /\ frames # <<>> /\ Top \in Frame /\ Top.pc = "clear"
  BY TopFrame DEF IrqInv, IrqTypeOK, Frame, ClearChannel, RunClearer, InFrame
<1>3. PICK x \in Channels : Line(x) = Top.j
  <2>1. Len(frames) \in DOMAIN frames
    BY <1>2, EmptySeq, LenProperties
  <2>2. handlers[Top.j] # NoCallback
    BY <1>2, <2>1 DEF IrqInv, CallsAPair, Top
  <2>3. Top.j \in Irqs
    BY <1>2, <2>1 DEF IrqInv, ServesLines, Top
  <2>4. QED
    BY <2>2, <2>3 DEF LinesSound
<1>4. /\ active' = [active EXCEPT ![x] = FALSE] /\ status' = [status EXCEPT ![x] = "END"]
      /\ raised' = raised \ {Line(x)}
      /\ UNCHANGED <<cb, job, pc, pending, starts, hasty, loaded, pointed, end, memory, handlers,
                     clearers, enabled, op>>
  BY <1>3, ChannelOfLine DEF ClearChannel, RunClearer, calls
<1>5. ClearUnderWay(x) /\ \A d \in Channels : ~ClearUnderWay(d)'
  <2> DEFINE f == [Top EXCEPT !.pc = "handler"]
  <2>1. f \in Frame /\ f.pc = "handler"
    BY <1>2 DEF Frame
  <2>2. SetTop(f)
    BY DEF ClearChannel, RunClearer
  <2> HIDE DEF f
  <2>3. Top' = f
    BY <1>2, <2>1, <2>2, SetTopIs
  <2>4. QED
    BY <1>2, <1>3, <2>1, <2>3 DEF ClearUnderWay, InFrame
<1>6. DriverTypes'
  <2>1. active' \in [Channels -> BOOLEAN]
    BY <1>4 DEF DriverTypes
  <2>2. status' \in [Channels -> {"NEED_INIT", "READY", "IN_PROGRESS", "END"}]
    BY <1>4 DEF DriverTypes
  <2>3. QED
    BY <1>4, <2>1, <2>2, Zenon DEF DriverTypes
<1>7. LinesSound' /\ WorkApart'
  BY <1>4 DEF LinesSound, WorkApart
<1>8. StatusSound' /\ CallSound'
  BY <1>4 DEF StatusSound, CallSound, DriverTypes
<1>9. ChannelsSound'
  BY <1>4, <1>5, LinesAreIrqs
     DEF ChannelsSound, ChannelSound, Settled, Quiet, Running, Done, Silent, DriverTypes
<1>10. QED
  BY <1>1, <1>6, <1>7, <1>8, <1>9

-----------------------------------------------------------------------------
LEMMA NextKeepsDmaInv == DmaInv /\ [Next]_vars => DmaInv'
<1> SUFFICES ASSUME DmaInv, [Next]_vars PROVE DmaInv'
  OBVIOUS
<1>1. CASE Engine
  BY <1>1, FetchKeeps, CompleteKeeps DEF Engine
<1>2. CASE Call
  BY <1>2, DmaStartKeeps, DmaWaitKeeps DEF Call
<1>3. CASE CallStep
  BY <1>3, StartRefusedKeeps, InitChannelKeeps, RegistrationKeeps, WriteControlBlockKeeps,
     StopChannelKeeps, PointChannelKeeps, AckChannelKeeps, ActivateChannelKeeps, LookAtCSKeeps,
     FinishWaitKeeps, ResetWaitKeeps, WaitReturnsKeeps DEF CallStep
<1>4. CASE Interrupted
  BY <1>4, OtherIrqStepKeeps, ClearChannelKeeps DEF Interrupted
<1>5. CASE UNCHANGED vars
  <2>1. IrqInv'
    BY <1>5, IrqPartKept
  <2>2. UNCHANGED <<status, cb, job, pc, pending, starts, hasty, loaded, pointed, active, end,
                    memory, handlers, raised, op, frames>>
    BY <1>5 DEF vars, irqVars, engineVars, driverVars, calls
  <2>3. DriverTypes'
    BY <2>2, Zenon DEF DriverTypes, DmaInv
  <2>4. LinesSound' /\ StatusSound' /\ CallSound' /\ WorkApart'
    BY <2>2 DEF LinesSound, StatusSound, CallSound, WorkApart, DmaInv
  <2>5. ChannelsSound'
    BY <2>2 DEF ChannelsSound, ChannelSound, Settled, Quiet, Running, Done, Silent, ClearUnderWay,
                InFrame, Top, DmaInv
  <2>6. QED
    BY <2>1, <2>3, <2>4, <2>5 DEF DmaInv
<1>6. QED
  BY <1>1, <1>2, <1>3, <1>4, <1>5 DEF Next

LEMMA DmaInvHolds == Spec => []DmaInv
BY InitDmaInv, NextKeepsDmaInv, PTL DEF Spec

(* When dma_wait returns 0 the copy has been made, and when it returns at  *)
(* all the engine is done with the channel, however the engine's end, the  *)
(* interrupt with its clearer and the calls for other channels interleave. *)
THEOREM WaitIsSound == Spec => []WaitSound
<1>1. DmaInv => WaitSound
  <2> SUFFICES ASSUME DmaInv PROVE WaitSound
    OBVIOUS
  <2> USE DEF DmaInv
  <2>1. TypeOK
    BY DEF TypeOK, DriverTypes, IrqInv
  <2>2. job.chan \in Channels
    BY DEF DriverTypes
  <2>3. WaitedMeansCopied
    BY <2>2 DEF WaitedMeansCopied, ChannelsSound, ChannelSound, Done, CallSound, Waits, Writing
  <2>4. ReturnedMeansQuiet
    BY <2>2 DEF ReturnedMeansQuiet, ChannelsSound, ChannelSound, Done, Quiet, Silent, Writing
  <2>5. QED
    BY <2>1, <2>3, <2>4 DEF WaitSound
<1>2. QED
  BY <1>1, DmaInvHolds, PTL

(* Callers that wait for a channel before they start it again are never    *)
(* refused, and no control block is rewritten under the engine.            *)
THEOREM PatientAreServed == Spec => []PatientServed
<1>1. DmaInv => PatientServed
  <2> SUFFICES ASSUME DmaInv PROVE PatientServed
    OBVIOUS
  <2> USE DEF DmaInv
  <2>1. job.chan \in Channels
    BY DEF DriverTypes
  <2>2. PatientIsAccepted
    BY DEF PatientIsAccepted, CallSound
  <2>3. PatientNotClobbered
    BY <2>1 DEF PatientNotClobbered, BusyIsRefused, CallSound, ChannelsSound, ChannelSound,
                Settled, Quiet, Writing
  <2>4. QED
    BY <2>2, <2>3 DEF PatientServed
<1>2. QED
  BY <1>1, DmaInvHolds, PTL

=============================================================================
