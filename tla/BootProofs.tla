------------------------------ MODULE BootProofs ------------------------------
(***************************************************************************)
(* Two theorems.  The first is about raspbootcom: what the user types is   *)
(* kept in its order, for a buffer of any size and any number of bytes,    *)
(* calls, resets, restarts and pulled devices.                             *)
(*                                                                         *)
(* The loop of main looks at a buffer some time after select found room    *)
(* or content in it, and writes, fills and shifts in between.  InputInv    *)
(* says that what select found is still so when it is used (SelectFound),  *)
(* that the bytes lie within the buffer (InputFits), and that the device   *)
(* is opened, which empties the buffer, only when the buffer is empty.     *)
(***************************************************************************)
EXTENDS Boot, TLAPS, SequenceTheorems

InputFits ==
  /\ DOMAIN input = {"buf", "start", "end"}
  /\ input.buf \in [0 .. BUF_SIZE - 1 -> Nat]
  /\ input.start \in Nat /\ input.end \in Nat
  /\ input.start <= input.end /\ input.end <= BUF_SIZE
  /\ typed \in Nat /\ passed \in Nat

(* What select found.                                                      *)
SelectFound ==
  /\ DOMAIN host = {"pc", "ready", "scan", "breaks", "done", "leave", "pos", "dead"}
  /\ host.ready # {} => host.scan = << >> /\ host.pc \in {"loop", "exited"}
  /\ "out" \in host.ready /\ host.pc = "loop" => input.start < input.end
  /\ "in" \in host.ready /\ host.pc = "loop" => input.end < BUF_SIZE
  /\ host.pc = "open" => input.start = input.end

InputInv == InputFits /\ SelectFound /\ InputKept

LEMMA InputInvHoldsFirst == ASSUME Init PROVE InputInv
<1>1. InputFits  BY BootAssumption DEF Init, NoInput, InputFits
<1>2. SelectFound  BY DEF Init, Opening, NoInput, SelectFound
<1>3. InputKept
  <2>1. input.start = 0 /\ input.end = 0 /\ typed = 0 /\ passed = 0  BY DEF Init, NoInput
  <2> QED  BY <2>1 DEF InputKept
<1> QED  BY <1>1, <1>2, <1>3 DEF InputInv

(* An emptied buffer, when what was in it was thrown away.                 *)
LEMMA Emptied ==
  ASSUME InputFits, typed' \in Nat, passed' = typed',
         input' = [input EXCEPT !.start = 0, !.end = 0] \/ input' = NoInput
  PROVE  InputFits' /\ InputKept' /\ input'.start = input'.end
<1>1. DOMAIN input' = {"buf", "start", "end"} /\ input'.buf \in [0 .. BUF_SIZE - 1 -> Nat]
      /\ input'.start = 0 /\ input'.end = 0
  <2>1. CASE input' = [input EXCEPT !.start = 0, !.end = 0]  BY <2>1 DEF InputFits
  <2>2. CASE input' = NoInput  BY <2>2 DEF NoInput
  <2> QED  BY <2>1, <2>2
<1>2. InputFits'  BY <1>1, BootAssumption DEF InputFits
<1>3. InputKept'  BY <1>1 DEF InputKept
<1> QED  BY <1>1, <1>2, <1>3

LEMMA FoundKept ==
  ASSUME SelectFound, DOMAIN host' = DOMAIN host, host'.ready = host.ready, host'.scan = host.scan,
         \/ host'.pc = host.pc
         \/ host'.pc = "exited"
         \/ host'.pc # "open" /\ host.ready = {},
         UNCHANGED input
  PROVE  SelectFound'
BY DEF SelectFound

(* One byte is written: the others keep their order, and move down when    *)
(* the buffer was full.                                                    *)
LEMMA CopyInputKeepsInv == ASSUME InputInv, CopyInput PROVE InputInv'
<1>1. InputFits /\ SelectFound /\ InputKept  BY DEF InputInv
<1>2. host.pc = "loop" /\ host.scan = << >> /\ "out" \in host.ready /\ UNCHANGED typed
      /\ input.start < input.end
  BY <1>1 DEF CopyInput, Looping, SelectFound
<1>3. CASE host.dead
  <2>1. UNCHANGED <<input, passed>> /\ host' = [host EXCEPT !.pc = "exited"]
    BY <1>3 DEF CopyInput, do_exit
  <2>2. DOMAIN host' = DOMAIN host /\ host'.pc = "exited" /\ host'.ready = host.ready /\ host'.scan = host.scan
    BY <1>1, <2>1 DEF SelectFound
  <2>3. SelectFound'  BY <1>1, <2>1, <2>2, FoundKept
  <2> QED  BY <1>1, <1>2, <2>1, <2>3 DEF InputInv, InputFits, InputKept
<1>4. CASE ~host.dead
  <2> DEFINE in == [input EXCEPT !.start = @ + 1]
             n  == input.end - input.start - 1
  <2>1. input' = Shifted(in) /\ passed' = passed + 1 /\ host' = [host EXCEPT !.ready = @ \ {"out"}]
    BY <1>4 DEF CopyInput
  <2>2. DOMAIN in = {"buf", "start", "end"} /\ in.buf = input.buf /\ in.start = input.start + 1 /\ in.end = input.end
    BY <1>1 DEF InputFits
  <2> HIDE DEF in
  <2>3. n \in Nat /\ DOMAIN input.buf = 0 .. BUF_SIZE - 1 /\ n = typed - (passed + 1)
    BY <1>1, <1>2 DEF InputFits, InputKept
  <2>4. /\ DOMAIN input' = {"buf", "start", "end"} /\ input'.buf \in [0 .. BUF_SIZE - 1 -> Nat]
        /\ input'.start \in Nat /\ input'.end \in Nat /\ input'.end = input'.start + n
        /\ input'.end <= input.end
        /\ \A k \in 0 .. n - 1 : input'.buf[input'.start + k] = input.buf[input.start + 1 + k]
    <3>1. CASE in.start = in.end
      <4>1. input' = [in EXCEPT !.start = 0, !.end = 0]  BY <2>1, <3>1 DEF Shifted
      <4>2. n = 0  BY <1>1, <2>2, <3>1 DEF InputFits
      <4> QED  BY <1>1, <2>2, <4>1, <4>2 DEF InputFits
    <3>2. CASE in.start # in.end /\ in.end < BUF_SIZE
      <4>1. input' = in  BY <2>1, <3>2 DEF Shifted
      <4> QED  BY <1>1, <1>2, <2>2, <4>1 DEF InputFits
    <3>3. CASE in.start # in.end /\ ~(in.end < BUF_SIZE)
      <4> DEFINE moved == [i \in DOMAIN in.buf |->
                             IF i < in.end - in.start THEN in.buf[in.start + i] ELSE in.buf[i]]
      <4>1. input' = [buf |-> moved, start |-> 0, end |-> in.end - in.start]
        BY <2>1, <3>3 DEF Shifted
      <4>2. in.end - in.start = n /\ in.end = BUF_SIZE  BY <1>1, <2>2, <3>3, BootAssumption DEF InputFits
      <4>3. \A i \in 0 .. n - 1 : i \in 0 .. BUF_SIZE - 1 /\ in.start + i \in 0 .. BUF_SIZE - 1
        BY <1>1, <2>2, <2>3, <4>2, BootAssumption DEF InputFits
      <4>4. moved \in [0 .. BUF_SIZE - 1 -> Nat]
        <5>1. ASSUME NEW i \in 0 .. BUF_SIZE - 1
              PROVE  (IF i < in.end - in.start THEN in.buf[in.start + i] ELSE in.buf[i]) \in Nat
          <6>1. CASE i < in.end - in.start
            <7>1. i \in 0 .. n - 1  BY <2>3, <4>2, <6>1
            <7> QED  BY <1>1, <2>2, <4>3, <6>1, <7>1 DEF InputFits
          <6>2. CASE ~(i < in.end - in.start)  BY <1>1, <2>2, <6>2 DEF InputFits
          <6> QED  BY <6>1, <6>2
        <5> QED  BY <2>2, <2>3, <5>1
      <4>5. \A k \in 0 .. n - 1 : moved[k] = in.buf[in.start + k]
        BY <2>2, <2>3, <4>2, <4>3
      <4> HIDE DEF moved
      <4>6. n <= input.end  BY <1>1 DEF InputFits
      <4> QED  BY <2>2, <2>3, <4>1, <4>2, <4>4, <4>5, <4>6
    <3> QED  BY <3>1, <3>2, <3>3
  <2>5. InputFits'
    <3>1. input'.start <= input'.end  BY <2>3, <2>4
    <3>2. input'.end <= BUF_SIZE  BY <1>1, <2>4, BootAssumption DEF InputFits
    <3>3. typed' \in Nat /\ passed' \in Nat  BY <1>1, <1>2, <2>1 DEF InputFits
    <3> QED  BY <2>4, <3>1, <3>2, <3>3 DEF InputFits
  <2>6. InputKept'
    <3>1. input'.end - input'.start = typed' - passed'  BY <1>1, <1>2, <2>1, <2>3, <2>4 DEF InputFits
    <3>2. ASSUME NEW i \in input'.start .. input'.end - 1
          PROVE  input'.buf[i] = typed - (input'.end - 1 - i)
      <4> DEFINE k == i - input'.start
                 j == input.start + 1 + k
      <4>1. k \in 0 .. n - 1 /\ input'.start + k = i  BY <2>3, <2>4, <3>2
      <4>2. input'.buf[i] = input.buf[j]  BY <2>4, <4>1
      <4>3. j \in input.start .. input.end - 1 /\ input.end - 1 - j = input'.end - 1 - i
        <5>1. input.start \in Nat /\ input.end \in Nat /\ input'.start \in Nat
          BY <1>1, <2>4 DEF InputFits
        <5>2. i \in Int /\ input'.end = input'.start + n /\ i <= input'.end - 1 /\ input'.start <= i
          BY <2>3, <2>4, <3>2
        <5> QED  BY <5>1, <5>2
      <4>4. input.buf[j] = typed - (input.end - 1 - j)  BY <1>1, <4>3 DEF InputKept
      <4> QED  BY <4>2, <4>3, <4>4
    <3> QED  BY <1>2, <3>1, <3>2 DEF InputKept
  <2>7. SelectFound'
    <3>1. DOMAIN host' = DOMAIN host /\ host'.pc = "loop" /\ host'.scan = << >> /\ host'.ready = host.ready \ {"out"}
      BY <1>1, <1>2, <2>1 DEF SelectFound
    <3>2. "in" \in host'.ready => input'.end < BUF_SIZE
      BY <1>1, <1>2, <2>4, <3>1, BootAssumption DEF SelectFound, InputFits
    <3> QED  BY <1>1, <3>1, <3>2 DEF SelectFound
  <2> QED  BY <2>5, <2>6, <2>7 DEF InputInv
<1> QED  BY <1>3, <1>4

LEMMA ReadInputKeepsInv == ASSUME InputInv, ReadInput PROVE InputInv'
<1>1. InputFits /\ SelectFound /\ InputKept  BY DEF InputInv
<1>2. host.pc = "loop" /\ host.scan = << >> /\ "in" \in host.ready /\ "out" \notin host.ready /\ UNCHANGED passed
      /\ input.end < BUF_SIZE
  BY <1>1 DEF ReadInput, Looping, SelectFound
<1>3. CASE /\ typed' = typed + 1
           /\ input' = [input EXCEPT !.buf[input.end] = typed + 1, !.end = @ + 1]
           /\ host' = [host EXCEPT !.ready = @ \ {"in"}]
  <2>1. /\ DOMAIN input' = DOMAIN input /\ input'.start = input.start /\ input'.end = input.end + 1
        /\ input'.buf = [input.buf EXCEPT ![input.end] = typed + 1]
    BY <1>1, <1>3 DEF InputFits
  <2>2. input.end \in 0 .. BUF_SIZE - 1  BY <1>1, <1>2, BootAssumption DEF InputFits
  <2>3. InputFits'  BY <1>1, <1>2, <1>3, <2>1, <2>2, BootAssumption DEF InputFits
  <2>4. InputKept'
    <3>1. input'.end - input'.start = typed' - passed'  BY <1>1, <1>2, <1>3, <2>1 DEF InputFits, InputKept
    <3>2. ASSUME NEW i \in input'.start .. input'.end - 1
          PROVE  input'.buf[i] = typed' - (input'.end - 1 - i)
      <4>1. i \in 0 .. BUF_SIZE - 1 /\ typed \in Nat
        <5>1. i \in Int /\ input.start <= i /\ i <= input.end /\ input.start \in Nat /\ input.end \in Nat
          BY <1>1, <2>1, <3>2 DEF InputFits
        <5> QED  BY <1>1, <2>2, <5>1, BootAssumption DEF InputFits
      <4>2. CASE i = input.end
        <5>1. input'.buf[i] = typed + 1  BY <1>1, <2>1, <2>2, <4>2 DEF InputFits
        <5>2. input'.end - 1 - i = 0  BY <1>1, <2>1, <4>2 DEF InputFits
        <5> QED  BY <1>3, <4>1, <5>1, <5>2
      <4>3. CASE i # input.end
        <5>1. i \in input.start .. input.end - 1  BY <1>1, <2>1, <3>2, <4>3 DEF InputFits
        <5>2. input'.buf[i] = input.buf[i]  BY <1>1, <2>1, <4>1, <4>3 DEF InputFits
        <5>3. input.buf[i] = typed - (input.end - 1 - i)  BY <1>1, <5>1 DEF InputKept
        <5> QED  BY <1>1, <1>3, <2>1, <4>1, <5>2, <5>3 DEF InputFits
      <4> QED  BY <4>2, <4>3
    <3> QED  BY <3>1, <3>2 DEF InputKept
  <2>5. SelectFound'
    <3>1. DOMAIN host' = DOMAIN host /\ host'.pc = "loop" /\ host'.scan = << >> /\ host'.ready = host.ready \ {"in"}
      BY <1>1, <1>2, <1>3 DEF SelectFound
    <3> QED  BY <1>1, <1>2, <3>1 DEF SelectFound
  <2> QED  BY <2>3, <2>4, <2>5 DEF InputInv
<1>4. CASE UNCHANGED <<typed, input>> /\ host' = [host EXCEPT !.ready = @ \ {"in"}, !.done = TRUE, !.leave = TRUE]
  <2>1. DOMAIN host' = DOMAIN host /\ host'.pc = "loop" /\ host'.scan = << >> /\ host'.ready = host.ready \ {"in"}
    BY <1>1, <1>2, <1>4 DEF SelectFound
  <2>2. SelectFound'  BY <1>1, <1>2, <1>4, <2>1 DEF SelectFound
  <2> QED  BY <1>1, <1>2, <1>4, <2>2 DEF InputInv, InputFits, InputKept
<1> QED  BY <1>3, <1>4 DEF ReadInput

(* The three actions that empty the buffer: the device is opened, the      *)
(* third break begins a call, the program is run again.                    *)
LEMMA open_serialKeepsInv == ASSUME InputInv, open_serial PROVE InputInv'
<1>1. InputFits /\ SelectFound /\ InputKept  BY DEF InputInv
<1>2. UNCHANGED <<typed, passed>>  BY DEF open_serial, counts
<1>3. typed = passed /\ typed' \in Nat
  <2>1. input.start = input.end  BY <1>1 DEF open_serial, SelectFound
  <2> QED  BY <1>1, <1>2, <2>1 DEF InputFits, InputKept
<1>4. InputFits' /\ InputKept'  BY <1>1, <1>2, <1>3, Emptied DEF open_serial
<1>5. SelectFound'  BY DEF open_serial, Opening, SelectFound
<1> QED  BY <1>4, <1>5 DEF InputInv

LEMMA ScanOutputKeepsInv == ASSUME InputInv, ScanOutput PROVE InputInv'
<1>1. InputFits /\ SelectFound /\ InputKept  BY DEF InputInv
<1>2. host.ready = {} /\ host.pc = "loop" /\ UNCHANGED typed  BY <1>1 DEF ScanOutput, SelectFound
<1> DEFINE breaks == BreaksAfter(host.breaks, Head(host.scan))
<1>3. CASE breaks = 3
  <2>1. /\ host' = [host EXCEPT !.pc = "sendSize", !.scan = Tail(@), !.breaks = 0, !.pos = 0]
        /\ input' = [input EXCEPT !.start = 0, !.end = 0]
        /\ passed' = typed
    BY <1>3 DEF ScanOutput
  <2>2. InputFits' /\ InputKept'  BY <1>1, <1>2, <2>1, Emptied DEF InputFits
  <2>3. DOMAIN host' = DOMAIN host /\ host'.pc = "sendSize" /\ host'.ready = {}  BY <1>1, <1>2, <2>1 DEF SelectFound
  <2>4. SelectFound'  BY <1>1, <2>3 DEF SelectFound
  <2> QED  BY <2>2, <2>4 DEF InputInv
<1>4. CASE breaks # 3
  <2>1. host' = [host EXCEPT !.scan = Tail(@), !.breaks = breaks] /\ UNCHANGED <<input, passed>>
    BY <1>4 DEF ScanOutput
  <2> HIDE DEF breaks
  <2>2. DOMAIN host' = DOMAIN host /\ host'.pc = "loop" /\ host'.ready = {}  BY <1>1, <1>2, <2>1 DEF SelectFound
  <2>3. SelectFound'  BY <1>1, <2>2 DEF SelectFound
  <2> QED  BY <1>1, <1>2, <2>1, <2>3 DEF InputInv, InputFits, InputKept
<1> QED  BY <1>3, <1>4

LEMMA RestartKeepsInv == ASSUME InputInv, Restart PROVE InputInv'
<1>1. InputFits /\ SelectFound /\ InputKept  BY DEF InputInv
<1>2. typed' \in Nat /\ passed' = typed' /\ input' = NoInput  BY <1>1 DEF Restart, InputFits
<1>3. InputFits' /\ InputKept' /\ input'.start = input'.end  BY <1>1, <1>2, Emptied
<1>4. SelectFound'  BY <1>3 DEF Restart, Opening, SelectFound
<1> QED  BY <1>3, <1>4 DEF InputInv

(* Actions that leave the buffer alone keep what is said of it.            *)
LEMMA InputLeft ==
  ASSUME InputInv, SelectFound', UNCHANGED <<input, typed, passed>>
  PROVE  InputInv'
BY DEF InputInv, InputFits, InputKept

LEMMA SelectKeepsInv == ASSUME InputInv, Select PROVE InputInv'
<1>1. SelectFound /\ InputFits  BY DEF InputInv
<1>2. UNCHANGED <<input, typed, passed>>  BY DEF Select, counts
<1>3. PICK ready \in SUBSET {"out", "in", "device"} \ {{}} :
        /\ "out" \in ready => input.start # input.end
        /\ "in" \in ready => ~host.done /\ input.end < BUF_SIZE
        /\ host' = [host EXCEPT !.ready = ready]
  BY DEF Select
<1>4. DOMAIN host' = DOMAIN host /\ host'.pc = host.pc /\ host'.scan = host.scan /\ host'.ready = ready
  BY <1>1, <1>3 DEF SelectFound
<1>5. host.pc = "loop" /\ host.scan = << >>  BY DEF Select, Looping
<1>6. "out" \in ready => input.start < input.end  BY <1>1, <1>3 DEF InputFits
<1>7. SelectFound'  BY <1>1, <1>2, <1>3, <1>4, <1>5, <1>6 DEF SelectFound
<1> QED  BY <1>2, <1>7, InputLeft

LEMMA ReadDeviceKeepsInv == ASSUME InputInv, ReadDevice PROVE InputInv'
<1>1. SelectFound  BY DEF InputInv
<1>2. UNCHANGED <<input, typed, passed>>  BY DEF ReadDevice, counts
<1>3. CASE host' = [host EXCEPT !.pc = "exited"]
  <2>1. DOMAIN host' = DOMAIN host /\ host'.ready = host.ready /\ host'.scan = host.scan /\ host'.pc = "exited"
    BY <1>1, <1>3 DEF SelectFound
  <2> QED  BY <1>2, <2>1, FoundKept, InputLeft DEF InputInv
<1>4. CASE \/ host' = [host EXCEPT !.ready = {}, !.done = TRUE]
           \/ \E n \in 1 .. Len(toHost) : host' = [host EXCEPT !.ready = {}, !.scan = SubSeq(toHost, 1, n)]
  <2>1. DOMAIN host' = DOMAIN host /\ host'.ready = {} /\ host'.pc = host.pc  BY <1>1, <1>4 DEF SelectFound
  <2>2. SelectFound'  BY <1>1, <1>2, <2>1 DEF SelectFound
  <2> QED  BY <1>2, <2>2, InputLeft
<1> QED  BY <1>3, <1>4 DEF ReadDevice

LEMMA LoopEndsKeepsInv == ASSUME InputInv, LoopEnds PROVE InputInv'
<1>1. SelectFound  BY DEF InputInv
<1>2. UNCHANGED <<input, typed, passed>> /\ input.start = input.end /\ host.ready = {}
  BY DEF LoopEnds, counts
<1>3. CASE host' = [host EXCEPT !.pc = "exited"]
  <2>1. DOMAIN host' = DOMAIN host /\ host'.ready = {} /\ host'.pc = "exited"  BY <1>1, <1>2, <1>3 DEF SelectFound
  <2>2. SelectFound'  BY <1>1, <2>1 DEF SelectFound
  <2> QED  BY <1>2, <2>2, InputLeft
<1>4. CASE host' = [Opening EXCEPT !.breaks = host.breaks]
  <2>1. SelectFound'  BY <1>2, <1>4 DEF Opening, SelectFound
  <2> QED  BY <1>2, <2>1, InputLeft
<1> QED  BY <1>3, <1>4 DEF LoopEnds

LEMMA LoopKeepsInv == ASSUME InputInv, Loop PROVE InputInv'
BY open_serialKeepsInv, SelectKeepsInv, CopyInputKeepsInv, ReadInputKeepsInv, ReadDeviceKeepsInv, ScanOutputKeepsInv,
   LoopEndsKeepsInv DEF Loop

(* A call leaves the buffer alone and goes from part to part; at any time  *)
(* the host may stop, or learn that the device is gone.                    *)
LEMMA HostLeft ==
  ASSUME InputInv, DOMAIN host' = DOMAIN host, host'.ready = host.ready, host'.scan = host.scan,
         \/ host'.pc = host.pc
         \/ host'.pc = "exited"
         \/ host'.pc # "open" /\ host.ready = {},
         UNCHANGED <<input, typed, passed>>
  PROVE  InputInv'
BY FoundKept, InputLeft DEF InputInv

LEMMA do_exitKeepsInv ==
  ASSUME InputInv, do_exit, UNCHANGED <<input, typed, passed>>
  PROVE  InputInv'
<1>1. SelectFound  BY DEF InputInv
<1>2. DOMAIN host' = DOMAIN host /\ host'.ready = host.ready /\ host'.scan = host.scan /\ host'.pc = "exited"
  BY <1>1 DEF do_exit, SelectFound
<1> QED  BY <1>2, HostLeft

LEMMA PartKeepsInv ==
  ASSUME InputInv, host.pc \notin {"open", "loop", "exited", "hung"},
         NEW next, next # "open",
         \/ host' = [host EXCEPT !.pc = next]
         \/ host' = [host EXCEPT !.pc = next, !.pos = 0]
         \/ host' = [host EXCEPT !.pos = @ + 1],
         UNCHANGED <<input, typed, passed>>
  PROVE  InputInv'
<1>1. SelectFound  BY DEF InputInv
<1>2. host.ready = {}  BY <1>1 DEF SelectFound
<1>3. /\ DOMAIN host' = DOMAIN host /\ host'.ready = host.ready /\ host'.scan = host.scan
      /\ host'.pc \in {host.pc, next}
  BY <1>1 DEF SelectFound
<1> QED  BY <1>2, <1>3, HostLeft

LEMMA CallKeepsInv == ASSUME InputInv, Call PROVE InputInv'
<1>1. ASSUME NEW part, NEW bytes, NEW next, Sends(part, bytes, next),
             part \notin {"open", "loop", "exited", "hung"}, next # "open"
      PROVE  InputInv'
  BY <1>1, PartKeepsInv DEF Sends, Step, counts
<1>2. ASSUME NEW part, NEW n, NEW next, Reads(part, n, next),
             part \notin {"open", "loop", "exited", "hung"}, next # "open"
      PROVE  InputInv'
  BY <1>2, PartKeepsInv DEF Reads, Step, counts
<1>3. ASSUME NEW part, NEW next, ReadsOne(part, next),
             part \notin {"open", "loop", "exited", "hung"}, next # "open"
      PROVE  InputInv'
  BY <1>3, PartKeepsInv DEF ReadsOne, counts
<1>4. CASE ReadsO  BY <1>4, PartKeepsInv DEF ReadsO, counts
<1>9. CASE ReadsK  BY <1>9, PartKeepsInv, do_exitKeepsInv DEF ReadsK
<1>5. CASE SendSize \/ WriteFails  BY <1>1, <1>5, do_exitKeepsInv DEF SendSize, WriteFails
<1>6. CASE SendKernel  BY <1>1, <1>6 DEF SendKernel
<1>7. CASE ReadJump  BY <1>2, <1>7 DEF ReadJump
<1>8. CASE ReadAnswer
  <2>1. CASE Reads("first", Digits, "space1")  BY <1>2, <2>1
  <2>2. CASE ReadsOne("space1", "second")  BY <1>3, <2>2
  <2>3. CASE Reads("second", Digits, "space2")  BY <1>2, <2>3
  <2>4. CASE ReadsOne("space2", "O")  BY <1>3, <2>4
  <2> QED  BY <1>4, <1>8, <1>9, <2>1, <2>2, <2>3, <2>4 DEF ReadAnswer
<1> QED  BY <1>5, <1>6, <1>7, <1>8 DEF Call

LEMMA UnplugKeepsInv == ASSUME InputInv, Unplug PROVE InputInv'
<1>1. SelectFound  BY DEF InputInv
<1>2. UNCHANGED <<input, typed, passed>>  BY DEF Unplug
<1>3. CASE do_exit  BY <1>2, <1>3, do_exitKeepsInv
<1>4. CASE Calling /\ host' = [host EXCEPT !.pc = "hung"]
  <2>1. host.pc \notin {"open", "loop", "exited", "hung"}  BY <1>4 DEF Calling
  <2> QED  BY <1>2, <1>4, <2>1, PartKeepsInv
<1>5. CASE host' = [host EXCEPT !.dead = host.pc = "loop"]
  <2>1. DOMAIN host' = DOMAIN host /\ host'.ready = host.ready /\ host'.scan = host.scan /\ host'.pc = host.pc
    BY <1>1, <1>5 DEF SelectFound
  <2> QED  BY <1>2, <2>1, HostLeft
<1> QED  BY <1>3, <1>4, <1>5 DEF Unplug

LEMMA InputInvKept == ASSUME InputInv, [Next]_vars PROVE InputInv'
<1>1. CASE UNCHANGED <<host, input, typed, passed>>  BY <1>1, HostLeft
<1>2. CASE Loop  BY <1>2, LoopKeepsInv
<1>3. CASE Call  BY <1>3, CallKeepsInv
<1>4. CASE JumpMissing  BY <1>4, do_exitKeepsInv DEF JumpMissing
<1>5. CASE Restart  BY <1>5, RestartKeepsInv
<1>6. CASE Unplug  BY <1>6, UnplugKeepsInv
<1>7. CASE Pi \/ Reset \/ Plug \/ UNCHANGED vars
  <2>1. UNCHANGED <<host, input, typed, passed>>
    BY <1>7 DEF Pi, uart_putc, uart_getc, Reset, Plug, vars, counts
  <2> QED  BY <1>1, <2>1
<1> QED  BY <1>2, <1>3, <1>4, <1>5, <1>6, <1>7 DEF Next

(* What the user types is kept in its order until it is written or thrown  *)
(* away at a call (the loop of main in raspbootcom.cc).                    *)
THEOREM InputIsKept == Spec => []InputKept
<1>1. InputInv /\ [Next]_vars => InputInv'  BY InputInvKept
<1>2. InputInv => InputKept  BY DEF InputInv
<1> QED  BY <1>1, <1>2, InputInvHoldsFirst, PTL DEF Spec

-----------------------------------------------------------------------------
(***************************************************************************)
(* A second theorem, about both programs and the line between them: a Pi   *)
(* that took a size that the host sent has, when it jumps, loaded the      *)
(* whole file, for sizes, files, texts and a receive queue of any length,  *)
(* any number of calls, bytes typed, pulled devices and runs of the host,  *)
(* and a reset at any time.                                                *)
(*                                                                         *)
(* A call is unspoilt while it lasts and has not failed.  The argument is  *)
(* about what may be under way: the bytes of a call's size reach the Pi in *)
(* its own call or not at all (Waiting, Ended); the answer that the host   *)
(* takes for its own is the one to its size (NoOldK, Waiting, Answered);   *)
(* so the file is sent to a Pi that waits for it and for nothing else.     *)
(* That no old answer is on the line when a call begins is where the       *)
(* number of resets comes in: a Pi that was never reset asks once          *)
(* (FirstAsk, OnlyCall).                                                   *)
(***************************************************************************)
Bytes == ({"typed"} \X Nat) \cup ({"size", "file"} \X Nat \X Nat)

Printed == {"text", "break", "digit", "space", "S", "E", "O", "K", "J", "U", "M", "P"}

Without(x, q) == \A i \in 1 .. Len(q) : q[i] # x

OfCall(byte, part, call) == byte[1] = part /\ byte[2] = call

BeforeOK == {"first", "space1", "second", "space2", "O", "K", "notO"}

(* The bytes of a queue that are a call's are those of a call there was.   *)
CallsKnown(q) == \A i \in 1 .. Len(q) : q[i][1] # "typed" => q[i][2] \in 1 .. calls

LoadTypes ==
  /\ pi \in [pc : {"size", "kernel", "running"}, out : Seq(Printed), size : Seq(Bytes), left : Int, loaded : Seq(Bytes)]
  /\ pi.pc = "size" => Len(pi.size) < SizeBytes /\ pi.loaded = << >>
  /\ toPi \in Seq(Bytes) /\ toHost \in Seq(Printed)
  /\ host.pc \in {"open", "loop", "exited", "hung", "sendSize", "sendKernel", "jump"} \cup BeforeOK
  /\ host.scan \in Seq(Printed)
  /\ host.breaks \in 0 .. 2
  /\ host.pc = "sendSize" => host.pos \in 0 .. SizeBytes - 1
  /\ host.pc = "sendKernel" => host.pos \in 0 .. FileLength - 1
  /\ host.pc \in {"space1", "space2", "O", "K", "notO"} => host.pos = 0
  /\ calls \in Nat /\ resets \in Nat
  /\ failed \subseteq 1 .. calls
  /\ Calling => calls >= 1
  /\ CallsKnown(toPi) /\ CallsKnown(pi.size)

(* A Pi that nobody answered yet has asked once: of its three breaks those *)
(* are under way that were not counted, at the end of what it prints.      *)
BreaksBehind(q, behind) ==
  \A i \in 1 .. Len(q) : q[i] # "K" /\ (q[i] = "break" => behind + Len(q) - i <= 2)

FirstAsk ==
  resets = 0 /\ calls = 0 =>
    /\ pi.pc = "size" /\ pi.size = << >>
    /\ \A i \in 1 .. Len(toPi) : toPi[i][1] = "typed"
    /\ BreaksBehind(pi.out, host.breaks)
    /\ BreaksBehind(toHost, host.breaks + Len(pi.out))
    /\ BreaksBehind(host.scan, host.breaks + Len(pi.out) + Len(toHost))

(* Once a call began, it does not ask again: the size it waits for comes   *)
(* to it, unless something that was typed comes first.                     *)
SizeComes(n) ==
  \/ \E j \in 1 .. n : j <= Len(toPi) /\ toPi[j][1] = "typed"
  \/ n <= Len(toPi) => toPi[n] = <<"size", 1, Len(pi.size) + n>>

OnlyCall ==
  resets = 0 /\ calls > 0 =>
    /\ host.breaks = 0
    /\ Calling => calls \notin failed
    /\ Without("break", pi.out) /\ Without("break", toHost) /\ Without("break", host.scan)
    /\ pi.pc = "size" =>
         /\ calls = 1 /\ pi.out = << >>
         /\ \A i \in 1 .. Len(pi.size) : pi.size[i] = <<"size", 1, i>>
         /\ \A n \in 1 .. Len(toPi) : SizeComes(n)
         /\ \/ host.pc # "sendSize"
            \/ \E j \in 1 .. Len(toPi) : toPi[j][1] = "typed"
            \/ Len(pi.size) + Len(toPi) = host.pos

(* What a Pi answered before it was reset is read before its next breaks.  *)
KFirst(q, breaks) == \A i \in 1 .. Len(q) : q[i] = "K" => breaks = 0 /\ \A j \in 1 .. i : q[j] # "break"

NoOldK ==
  pi.pc = "size" =>
    /\ Without("K", pi.out)
    /\ KFirst(toHost, host.breaks) /\ KFirst(host.scan, host.breaks)
    /\ Without("K", toHost) \/ Without("break", host.scan)

Unspoilt == Calling /\ calls \notin failed

(* Of the size of a call not more is under way than was sent, and its last *)
(* byte is the last there is.                                              *)
SentOnly(q) == \A i \in 1 .. Len(q) : OfCall(q[i], "size", calls) => q[i][3] <= host.pos

Waiting ==
  Unspoilt /\ pi.pc = "size" =>
    /\ Without("K", toHost)
    /\ \A i \in 1 .. Len(toPi) : toPi[i] = <<"size", calls, SizeBytes>> => i = Len(toPi)
    /\ host.pc = "sendSize" => SentOnly(toPi) /\ SentOnly(pi.size)

InTime == Unspoilt /\ pi.pc = "size" => host.pc \in BeforeOK \cup {"sendSize"}

(* A Pi that took the size of the call answers once, and then reads what   *)
(* is sent: loaded and what is on the line make what was sent so far.      *)
KLast == /\ \A i \in 1 .. Len(pi.out) : pi.out[i] = "K" => i = Len(pi.out)
         /\ \A i \in 1 .. Len(toHost) : toHost[i] = "K" => i = Len(toHost) /\ pi.out = << >>

FileComes(sent) ==
  /\ pi.pc = "kernel" /\ toHost = << >> /\ pi.out = << >>
  /\ Len(pi.loaded) + Len(toPi) = sent /\ pi.left = FileLength - Len(pi.loaded)
  /\ \A i \in 1 .. Len(pi.loaded) : pi.loaded[i] = <<"file", calls, i>>
  /\ \A i \in 1 .. Len(toPi) : toPi[i] = <<"file", calls, Len(pi.loaded) + i>>

Loaded(call) == pi.pc = "running" /\ pi.loaded = FileOf(call)

Answered ==
  Unspoilt /\ pi.pc # "size" /\ pi.size = SizeOf(calls) =>
    \/ /\ host.pc \in BeforeOK
       /\ pi.pc = "kernel" /\ toPi = << >> /\ pi.loaded = << >> /\ pi.left = FileLength
       /\ KLast
    \/ host.pc = "sendKernel" /\ FileComes(host.pos)
    \/ host.pc = "jump" /\ (FileComes(FileLength) \/ Loaded(calls))

(* The call is over, and did not fail.                                     *)
Over(call) == call \notin failed /\ ~(Calling /\ call = calls)

NothingOf(call, q) == \A i \in 1 .. Len(q) : ~OfCall(q[i], "size", call)

Ended ==
  \A call \in 1 .. calls : Over(call) =>
    /\ pi.pc = "size" => NothingOf(call, toPi) /\ NothingOf(call, pi.size)
    /\ pi.pc # "size" /\ pi.size = SizeOf(call) => Loaded(call)

LoadKept == FirstAsk /\ OnlyCall /\ NoOldK /\ Waiting /\ InTime /\ Answered /\ Ended
LoadInv  == LoadTypes /\ (~met /\ resets <= 1 => LoadKept)

LEMMA TailIs ==
  ASSUME NEW S, NEW q \in Seq(S), q # << >>
  PROVE  /\ Len(q) \in Nat \ {0} /\ Head(q) = q[1] /\ q[1] \in S
         /\ Tail(q) \in Seq(S) /\ Len(Tail(q)) = Len(q) - 1
         /\ \A i \in 1 .. Len(Tail(q)) : i + 1 \in 1 .. Len(q) /\ Tail(q)[i] = q[i + 1]
<1>1. Len(q) \in Nat \ {0}  OBVIOUS
<1>2. Tail(q) \in Seq(S) /\ Len(Tail(q)) = Len(q) - 1  BY <1>1
<1>3. \A i \in 1 .. Len(Tail(q)) : Tail(q)[i] = q[i + 1]  BY <1>1, <1>2
<1> QED  BY <1>1, <1>2, <1>3

LEMMA AppendIs ==
  ASSUME NEW S, NEW q \in Seq(S), NEW x \in S
  PROVE  /\ Append(q, x) \in Seq(S) /\ Len(q) \in Nat /\ Len(Append(q, x)) = Len(q) + 1
         /\ Append(q, x)[Len(q) + 1] = x
         /\ \A i \in 1 .. Len(q) : Append(q, x)[i] = q[i]
OBVIOUS

LEMMA CutIs ==
  ASSUME NEW S, NEW q \in Seq(S), NEW n \in 1 .. Len(q)
  PROVE  /\ SubSeq(q, 1, n) \in Seq(S) /\ Len(SubSeq(q, 1, n)) = n
         /\ SubSeq(q, n + 1, Len(q)) \in Seq(S) /\ Len(SubSeq(q, n + 1, Len(q))) = Len(q) - n
         /\ \A i \in 1 .. n : SubSeq(q, 1, n)[i] = q[i]
         /\ \A i \in 1 .. Len(q) - n : SubSeq(q, n + 1, Len(q))[i] = q[n + i]
<1>1. Len(q) \in Nat  OBVIOUS
<1>2. SubSeq(q, 1, n) \in Seq(S) /\ Len(SubSeq(q, 1, n)) = n  BY <1>1
<1>3. SubSeq(q, n + 1, Len(q)) \in Seq(S) /\ Len(SubSeq(q, n + 1, Len(q))) = Len(q) - n  BY <1>1
<1>4. \A i \in 1 .. n : SubSeq(q, 1, n)[i] = q[i]  BY <1>1
<1>5. \A i \in 1 .. Len(q) - n : SubSeq(q, n + 1, Len(q))[i] = q[n + i]  BY <1>1
<1> QED  BY <1>2, <1>3, <1>4, <1>5

(* What the Pi prints.                                                     *)
LEMMA TimesIs ==
  ASSUME NEW n \in Nat, NEW byte \in Printed
  PROVE  Times(n, byte) \in Seq(Printed) /\ Len(Times(n, byte)) = n /\ \A i \in 1 .. n : Times(n, byte)[i] = byte
<1>1. Times(n, byte) \in [1 .. n -> Printed]  BY DEF Times
<1>2. Times(n, byte) \in Seq(Printed)  BY <1>1, SeqDef
<1>3. Len(Times(n, byte)) = n  BY <1>1, <1>2, LenProperties
<1> QED  BY <1>2, <1>3 DEF Times

LEMMA ConcatIs ==
  ASSUME NEW S, NEW p \in Seq(S), NEW q \in Seq(S)
  PROVE  /\ p \o q \in Seq(S) /\ Len(p) \in Nat /\ Len(q) \in Nat /\ Len(p \o q) = Len(p) + Len(q)
         /\ \A i \in 1 .. Len(p \o q) : (p \o q)[i] = IF i <= Len(p) THEN p[i] ELSE q[i - Len(p)]
<1>1. p \o q \in Seq(S) /\ Len(p) \in Nat /\ Len(q) \in Nat /\ Len(p \o q) = Len(p) + Len(q)  OBVIOUS
<1>2. \A i \in 1 .. Len(p) + Len(q) : (p \o q)[i] = IF i <= Len(p) THEN p[i] ELSE q[i - Len(p)]  OBVIOUS
<1> QED  BY <1>1, <1>2

LEMMA WithoutConcat ==
  ASSUME NEW x, NEW p \in Seq(Printed), NEW q \in Seq(Printed), Without(x, p), Without(x, q)
  PROVE  Without(x, p \o q)
<1>1. ASSUME NEW i \in 1 .. Len(p \o q)  PROVE (p \o q)[i] # x
  <2>1. CASE i <= Len(p)  BY <2>1, ConcatIs DEF Without
  <2>2. CASE ~(i <= Len(p))
    <3>1. i - Len(p) \in 1 .. Len(q)  BY <2>2, ConcatIs
    <3> QED  BY <2>2, <3>1, ConcatIs DEF Without
  <2> QED  BY <2>1, <2>2
<1> QED  BY <1>1 DEF Without

LEMMA BannerIs ==
  Banner \in Seq(Printed) /\ Without("K", Banner) /\ BreaksBehind(Banner, 0)
<1> DEFINE text == Times(BannerLength, "text")
           asks == <<"break", "break", "break">>
<1>1. text \in Seq(Printed) /\ Len(text) = BannerLength /\ \A i \in 1 .. BannerLength : text[i] = "text"
  BY TimesIs, LineAssumption DEF Printed
<1>2. asks \in Seq(Printed) /\ Len(asks) = 3 /\ Without("K", asks)
  <2>1. asks \in Seq(Printed) /\ Len(asks) = 3  BY DEF Printed
  <2>2. \A i \in 1 .. 3 : asks[i] = "break"  OBVIOUS
  <2> QED  BY <2>1, <2>2 DEF Without
<1>3. Banner = text \o asks  BY DEF Banner
<1> HIDE DEF text, asks
<1>4. Without("K", text)  BY <1>1 DEF Without
<1>5. Banner \in Seq(Printed) /\ Len(Banner) = BannerLength + 3
  <2>1. text \o asks \in Seq(Printed) /\ Len(text \o asks) = Len(text) + Len(asks)  BY <1>1, <1>2, ConcatIs
  <2> QED  BY <1>1, <1>2, <1>3, <2>1
<1>6. Without("K", Banner)  BY <1>1, <1>2, <1>3, <1>4, WithoutConcat
<1>7. ASSUME NEW i \in 1 .. Len(Banner), Banner[i] = "break"  PROVE 0 + Len(Banner) - i <= 2
  <2>1. ~(i <= BannerLength)
    <3>1. ASSUME i <= BannerLength  PROVE Banner[i] = "text"
      <4>1. i \in 1 .. BannerLength  BY <1>5, <3>1, LineAssumption
      <4>2. Banner[i] = text[i]  BY <1>1, <1>2, <1>3, <3>1, ConcatIs
      <4> QED  BY <1>1, <4>1, <4>2
    <3> QED  BY <1>7, <3>1
  <2> QED  BY <1>5, <2>1, LineAssumption
<1> QED  BY <1>5, <1>6, <1>7 DEF BreaksBehind, Without

LEMMA AnswerIs ==
  Answer \in Seq(Printed) /\ Without("K", Answer) /\ Without("break", Answer)
<1> DEFINE space == <<"space">>
           num   == Times(Digits, "digit")
           one   == num \o space
<1>1. num \in Seq(Printed) /\ Len(num) = Digits /\ \A i \in 1 .. Digits : num[i] = "digit"
  BY TimesIs, LineAssumption DEF Printed
<1>2. space \in Seq(Printed) /\ Without("K", space) /\ Without("break", space)
  <2>1. space \in Seq(Printed) /\ Len(space) = 1 /\ space[1] = "space"  BY DEF Printed
  <2> QED  BY <2>1 DEF Without
<1>3. Answer = one \o one  BY DEF Answer, hexstrings
<1> HIDE DEF space, num
<1>4. Without("K", num) /\ Without("break", num)  BY <1>1 DEF Without
<1>5. one \in Seq(Printed) /\ Without("K", one) /\ Without("break", one)
  BY <1>1, <1>2, <1>4, ConcatIs, WithoutConcat
<1> HIDE DEF one
<1> QED  BY <1>3, <1>5, ConcatIs, WithoutConcat

(* The answers: refused, taken, and taken for a kernel without a byte.     *)
LEMMA RefusedIs ==
  LET refused == Answer \o <<"S", "E">> \o Banner
  IN  refused \in Seq(Printed) /\ Without("K", refused)
<1> DEFINE se == <<"S", "E">>
<1>1. se \in Seq(Printed) /\ Without("K", se)
  <2>1. se \in Seq(Printed) /\ Len(se) = 2 /\ se[1] = "S" /\ se[2] = "E"  BY DEF Printed
  <2> QED  BY <2>1 DEF Without
<1> HIDE DEF se
<1>2. Answer \o se \in Seq(Printed) /\ Without("K", Answer \o se)
  BY <1>1, AnswerIs, ConcatIs, WithoutConcat
<1>3. (Answer \o se) \o Banner \in Seq(Printed) /\ Without("K", (Answer \o se) \o Banner)
  BY <1>2, BannerIs, ConcatIs, WithoutConcat
<1> QED  BY <1>3 DEF se

LEMMA TakenIs ==
  ASSUME NEW jump \in Seq(Printed), Without("break", jump)
  PROVE  LET taken == Answer \o <<"O", "K">> \o jump
         IN  /\ taken \in Seq(Printed) /\ Without("break", taken)
             /\ jump = << >> => \A i \in 1 .. Len(taken) : taken[i] = "K" => i = Len(taken)
<1> DEFINE ok == <<"O", "K">>
           answered == Answer \o ok
           taken == answered \o jump
<1>1. ok \in Seq(Printed) /\ Len(ok) = 2 /\ ok[1] = "O" /\ ok[2] = "K" /\ Without("break", ok)
  <2>1. ok \in Seq(Printed) /\ Len(ok) = 2 /\ ok[1] = "O" /\ ok[2] = "K"  BY DEF Printed
  <2> QED  BY <2>1 DEF Without
<1> HIDE DEF ok
<1>2. answered \in Seq(Printed) /\ Without("break", answered)
  BY <1>1, AnswerIs, ConcatIs, WithoutConcat
<1>3. \A i \in 1 .. Len(answered) : answered[i] = "K" => i = Len(answered)
  <2>1. /\ Len(answered) = Len(Answer) + 2 /\ Len(Answer) \in Nat
        /\ \A i \in 1 .. Len(answered) : answered[i] = IF i <= Len(Answer) THEN Answer[i] ELSE ok[i - Len(Answer)]
    BY <1>1, AnswerIs, ConcatIs
  <2> HIDE DEF answered
  <2>2. ASSUME NEW i \in 1 .. Len(answered), answered[i] = "K", i # Len(answered)  PROVE FALSE
    <3>1. CASE i <= Len(Answer)
      <4>1. i \in 1 .. Len(Answer)  BY <2>1, <3>1
      <4> QED  BY <2>1, <2>2, <3>1, <4>1, AnswerIs DEF Without
    <3>2. CASE ~(i <= Len(Answer))
      <4>1. i - Len(Answer) = 1  BY <2>1, <2>2, <3>2
      <4> QED  BY <1>1, <2>1, <2>2, <3>2, <4>1
    <3> QED  BY <3>1, <3>2
  <2> QED  BY <2>2
<1> HIDE DEF answered
<1>4. taken \in Seq(Printed) /\ Without("break", taken)  BY <1>2, ConcatIs, WithoutConcat
<1>5. jump = << >> => taken = answered  BY <1>2
<1> HIDE DEF taken
<1>6. jump = << >> => \A i \in 1 .. Len(taken) : taken[i] = "K" => i = Len(taken)  BY <1>3, <1>5
<1> QED  BY <1>4, <1>6 DEF taken, answered, ok

LEMMA LoadInvHoldsFirst == ASSUME Init PROVE LoadInv
<1>1. /\ pi = Start /\ toPi = << >> /\ toHost = << >> /\ host = Opening
      /\ calls = 0 /\ failed = {} /\ resets = 0
  BY DEF Init
<1>2. /\ pi.pc = "size" /\ pi.out = Banner /\ pi.size = << >> /\ pi.left = 0 /\ pi.loaded = << >>
      /\ host.pc = "open" /\ host.scan = << >> /\ host.breaks = 0
  BY <1>1 DEF Start, Opening
<1>3. ~Calling  BY <1>2 DEF Calling
<1>4. LoadTypes
  <2>1. pi \in [pc : {"size", "kernel", "running"}, out : Seq(Printed), size : Seq(Bytes), left : Int, loaded : Seq(Bytes)]
    BY <1>1, BannerIs DEF Start
  <2> QED  BY <1>1, <1>2, <1>3, <2>1, LineAssumption DEF LoadTypes, CallsKnown
<1>5. FirstAsk  BY <1>1, <1>2, BannerIs DEF FirstAsk, BreaksBehind
<1>6. OnlyCall  BY <1>1 DEF OnlyCall
<1>7. NoOldK  BY <1>1, <1>2, BannerIs DEF NoOldK, KFirst, Without
<1>8. Waiting /\ InTime /\ Answered  BY <1>3 DEF Waiting, InTime, Answered, Unspoilt
<1>9. Ended  BY <1>1 DEF Ended
<1> QED  BY <1>4, <1>5, <1>6, <1>7, <1>8, <1>9 DEF LoadInv, LoadKept

(* A line that is shorter at its front, or empty.                          *)
Shorter(q, r) == r = q \/ r = << >> \/ (q # << >> /\ r = Tail(q))

LEMMA ShorterIs ==
  ASSUME NEW S, NEW q \in Seq(S), NEW r, Shorter(q, r)
  PROVE  /\ r \in Seq(S) /\ Len(q) \in Nat /\ Len(r) \in Nat /\ Len(r) <= Len(q)
         /\ \E d \in 0 .. 1 : \A i \in 1 .. Len(r) : i + d \in 1 .. Len(q) /\ r[i] = q[i + d] /\ Len(r) + d = Len(q)
<1>1. CASE r = q
  <2>1. \A i \in 1 .. Len(r) : i + 0 \in 1 .. Len(q) /\ r[i] = q[i + 0] /\ Len(r) + 0 = Len(q)  BY <1>1
  <2> QED  BY <1>1, <2>1
<1>2. CASE r = << >>
  <2>1. Len(r) = 0  BY <1>2
  <2>2. \A i \in 1 .. Len(r) : i + 0 \in 1 .. Len(q) /\ r[i] = q[i + 0] /\ Len(r) + 0 = Len(q)  BY <2>1
  <2> QED  BY <1>2, <2>1, <2>2
<1>3. CASE q # << >> /\ r = Tail(q)
  <2>1. /\ Len(q) \in Nat \ {0} /\ r \in Seq(S) /\ Len(r) = Len(q) - 1
        /\ \A i \in 1 .. Len(r) : i + 1 \in 1 .. Len(q) /\ r[i] = q[i + 1]
    BY <1>3, TailIs
  <2>2. Len(r) + 1 = Len(q)  BY <2>1
  <2>3. \A i \in 1 .. Len(r) : i + 1 \in 1 .. Len(q) /\ r[i] = q[i + 1] /\ Len(r) + 1 = Len(q)  BY <2>1, <2>2
  <2> QED  BY <2>1, <2>3
<1> QED  BY <1>1, <1>2, <1>3 DEF Shorter

LEMMA ShorterWithout ==
  ASSUME NEW S, NEW q \in Seq(S), NEW r, Shorter(q, r), NEW x, Without(x, q)
  PROVE  Without(x, r)
BY ShorterIs DEF Without

LEMMA ShorterBehind ==
  ASSUME NEW q \in Seq(Printed), NEW r, Shorter(q, r), NEW n \in Nat, NEW m \in Nat, m <= n, BreaksBehind(q, n)
  PROVE  BreaksBehind(r, m)
<1>1. PICK d \in 0 .. 1 : \A i \in 1 .. Len(r) : i + d \in 1 .. Len(q) /\ r[i] = q[i + d] /\ Len(r) + d = Len(q)
  BY ShorterIs
<1>2. Len(q) \in Nat /\ Len(r) \in Nat  BY ShorterIs
<1>3. ASSUME NEW i \in 1 .. Len(r)  PROVE r[i] # "K" /\ (r[i] = "break" => m + Len(r) - i <= 2)
  <2>1. i + d \in 1 .. Len(q) /\ r[i] = q[i + d] /\ Len(r) + d = Len(q)  BY <1>1
  <2>2. q[i + d] # "K" /\ (q[i + d] = "break" => n + Len(q) - (i + d) <= 2)  BY <2>1 DEF BreaksBehind
  <2>3. n + Len(q) - (i + d) <= 2 => m + Len(r) - i <= 2  BY <1>2, <2>1
  <2> QED  BY <2>1, <2>2, <2>3
<1> QED  BY <1>3 DEF BreaksBehind

(* What is said of K and breaks, when the host reads and counts on or not. *)
LEMMA ShorterKFirst ==
  ASSUME NEW q \in Seq(Printed), NEW r, Shorter(q, r), NEW breaks, NEW less \in {breaks, 0}, KFirst(q, breaks)
  PROVE  KFirst(r, less)
<1> USE DEF KFirst
<1>1. PICK d \in 0 .. 1 : \A i \in 1 .. Len(r) : i + d \in 1 .. Len(q) /\ r[i] = q[i + d] /\ Len(r) + d = Len(q)
  BY ShorterIs
<1>2. Len(q) \in Nat /\ Len(r) \in Nat  BY ShorterIs
<1>3. ASSUME NEW i \in 1 .. Len(r), r[i] = "K"  PROVE less = 0 /\ \A j \in 1 .. i : r[j] # "break"
  <2>1. i + d \in 1 .. Len(q) /\ q[i + d] = "K"  BY <1>1, <1>3
  <2>2. breaks = 0 /\ \A j \in 1 .. i + d : q[j] # "break"  BY <2>1
  <2>3. ASSUME NEW j \in 1 .. i  PROVE r[j] # "break"
    <3>1. j \in 1 .. Len(r) /\ j + d \in 1 .. i + d  BY <1>2
    <3> QED  BY <1>1, <2>2, <3>1
  <2> QED  BY <2>2, <2>3
<1> QED  BY <1>3

(* Outside a call, and when one fails: the host loses or reads away what   *)
(* comes from the Pi, and at most a byte that was typed goes to it.        *)
Typed == \E n \in Nat : toPi' = Append(toPi, <<"typed", n>>)
Given == failed' = failed \cup IF Calling THEN {calls} ELSE {}

LEMMA QuietKeepsAsk ==
  ASSUME LoadTypes, UNCHANGED <<pi, calls, resets>>,
         Shorter(host.scan, host'.scan), Shorter(toHost, toHost'), host'.breaks \in {host.breaks, 0},
         FirstAsk, toPi' = toPi \/ toPi' = << >> \/ Typed
  PROVE  FirstAsk'
<1> SUFFICES ASSUME resets = 0, calls = 0  PROVE FirstAsk'
  BY DEF FirstAsk
<1>1. /\ pi.pc = "size" /\ pi.size = << >>
      /\ \A i \in 1 .. Len(toPi) : toPi[i][1] = "typed"
      /\ BreaksBehind(pi.out, host.breaks)
      /\ BreaksBehind(toHost, host.breaks + Len(pi.out))
      /\ BreaksBehind(host.scan, host.breaks + Len(pi.out) + Len(toHost))
  BY DEF FirstAsk
<1>2. /\ host.breaks \in 0 .. 2 /\ host'.breaks \in 0 .. 2 /\ host'.breaks <= host.breaks
      /\ pi.out \in Seq(Printed) /\ Len(pi.out) \in Nat /\ toHost \in Seq(Printed) /\ host.scan \in Seq(Printed)
      /\ toPi \in Seq(Bytes)
  BY DEF LoadTypes
<1>3. Len(toHost) \in Nat /\ Len(toHost') \in Nat /\ Len(toHost') <= Len(toHost)  BY <1>2, ShorterIs
<1>4. BreaksBehind(pi.out, host'.breaks)  BY <1>1, <1>2, ShorterBehind DEF Shorter
<1>5. BreaksBehind(toHost', host'.breaks + Len(pi.out))  BY <1>1, <1>2, ShorterBehind
<1>6. BreaksBehind(host'.scan, host'.breaks + Len(pi.out) + Len(toHost'))
  <2>1. /\ host.breaks \in Nat /\ host'.breaks \in Nat /\ host'.breaks <= host.breaks
        /\ Len(pi.out) \in Nat
    BY <1>2
  <2>2. /\ host.breaks + Len(pi.out) + Len(toHost) \in Nat
        /\ host'.breaks + Len(pi.out) + Len(toHost') \in Nat
        /\ host'.breaks + Len(pi.out) + Len(toHost') <= host.breaks + Len(pi.out) + Len(toHost)
    <3>1. \A a, b, c, d, e \in Nat : b <= a /\ e <= d => a + c + d \in Nat /\ b + c + e \in Nat /\ b + c + e <= a + c + d
      OBVIOUS
    <3> QED  BY <1>3, <2>1, <3>1
  <2> QED  BY <1>1, <1>2, <2>2, ShorterBehind
<1>7. \A i \in 1 .. Len(toPi') : toPi'[i][1] = "typed"
  <2>1. CASE toPi' = toPi  BY <1>1, <2>1
  <2>2. CASE toPi' = << >>  BY <2>2
  <2>3. CASE Typed
    <3>1. PICK n \in Nat : toPi' = Append(toPi, <<"typed", n>>)  BY <2>3 DEF Typed
    <3>2. <<"typed", n>> \in Bytes  BY DEF Bytes
    <3>3. /\ Len(toPi) \in Nat /\ Len(toPi') = Len(toPi) + 1 /\ toPi'[Len(toPi) + 1] = <<"typed", n>>
          /\ \A i \in 1 .. Len(toPi) : toPi'[i] = toPi[i]
      BY <1>2, <3>1, <3>2, AppendIs
    <3>4. ASSUME NEW i \in 1 .. Len(toPi')  PROVE toPi'[i][1] = "typed"
      <4>1. CASE i = Len(toPi) + 1  BY <3>3, <4>1
      <4>2. CASE i # Len(toPi) + 1
        <5>1. i \in 1 .. Len(toPi)  BY <3>3, <4>2
        <5> QED  BY <1>1, <3>3, <5>1
      <4> QED  BY <4>1, <4>2
    <3> QED  BY <3>4
  <2> QED  BY <2>1, <2>2, <2>3
<1> QED  BY <1>1, <1>4, <1>5, <1>6, <1>7 DEF FirstAsk

LEMMA QuietKeepsOnly ==
  ASSUME LoadTypes, UNCHANGED <<pi, calls, resets>>, ~Calling',
         Shorter(host.scan, host'.scan), Shorter(toHost, toHost'), host'.breaks \in {host.breaks, 0},
         OnlyCall, toPi' = toPi \/ toPi' = << >> \/ Typed
  PROVE  OnlyCall'
<1> SUFFICES ASSUME resets = 0, calls > 0  PROVE OnlyCall'
  BY DEF OnlyCall
<1>1. /\ host.breaks = 0
      /\ Without("break", pi.out) /\ Without("break", toHost) /\ Without("break", host.scan)
      /\ pi.pc = "size" => /\ calls = 1 /\ pi.out = << >>
                           /\ \A i \in 1 .. Len(pi.size) : pi.size[i] = <<"size", 1, i>>
                           /\ \A n \in 1 .. Len(toPi) : SizeComes(n)
  BY DEF OnlyCall
<1>2. toHost \in Seq(Printed) /\ host.scan \in Seq(Printed) /\ toPi \in Seq(Bytes)  BY DEF LoadTypes
<1>3. host'.breaks = 0 /\ Without("break", toHost') /\ Without("break", host'.scan)
  BY <1>1, <1>2, ShorterWithout
<1>4. ASSUME pi.pc = "size", NEW n \in 1 .. Len(toPi')  PROVE SizeComes(n)'
  <2>1. CASE toPi' = toPi  BY <1>1, <1>4, <2>1 DEF SizeComes
  <2>2. CASE toPi' = << >>  BY <1>4, <2>2
  <2>3. CASE Typed
    <3>1. PICK m \in Nat : toPi' = Append(toPi, <<"typed", m>>)  BY <2>3 DEF Typed
    <3>2. <<"typed", m>> \in Bytes  BY DEF Bytes
    <3>3. /\ Len(toPi) \in Nat /\ Len(toPi') = Len(toPi) + 1 /\ toPi'[Len(toPi) + 1] = <<"typed", m>>
          /\ \A i \in 1 .. Len(toPi) : toPi'[i] = toPi[i]
      BY <1>2, <3>1, <3>2, AppendIs
    <3>4. CASE n = Len(toPi) + 1
      <4>1. toPi'[n][1] = "typed"  BY <3>3, <3>4
      <4> QED  BY <1>4, <3>3, <3>4, <4>1 DEF SizeComes
    <3>5. CASE n # Len(toPi) + 1
      <4>1. n \in 1 .. Len(toPi)  BY <1>4, <3>3, <3>5
      <4>2. SizeComes(n)  BY <1>1, <1>4, <4>1
      <4>3. CASE \E j \in 1 .. n : j <= Len(toPi) /\ toPi[j][1] = "typed"
        <5>1. PICK j \in 1 .. n : j <= Len(toPi) /\ toPi[j][1] = "typed"  BY <4>3
        <5>2. j \in 1 .. Len(toPi) /\ j <= Len(toPi')  BY <3>3, <5>1
        <5> QED  BY <3>3, <5>1, <5>2 DEF SizeComes
      <4>4. CASE toPi[n] = <<"size", 1, Len(pi.size) + n>>  BY <3>3, <4>1, <4>4 DEF SizeComes
      <4> QED  BY <4>1, <4>2, <4>3, <4>4 DEF SizeComes
    <3> QED  BY <3>4, <3>5
  <2> QED  BY <2>1, <2>2, <2>3
<1>5. host'.pc # "sendSize"  BY DEF Calling
<1> QED  BY <1>1, <1>3, <1>4, <1>5 DEF OnlyCall

LEMMA QuietKeepsNoOldK ==
  ASSUME LoadTypes, UNCHANGED pi,
         Shorter(host.scan, host'.scan), Shorter(toHost, toHost'), host'.breaks \in {host.breaks, 0},
         NoOldK
  PROVE  NoOldK'
<1> SUFFICES ASSUME pi.pc = "size"  PROVE NoOldK'
  BY DEF NoOldK
<1>1. /\ Without("K", pi.out) /\ KFirst(toHost, host.breaks) /\ KFirst(host.scan, host.breaks)
      /\ Without("K", toHost) \/ Without("break", host.scan)
  BY DEF NoOldK
<1>2. toHost \in Seq(Printed) /\ host.scan \in Seq(Printed)  BY DEF LoadTypes
<1>3. KFirst(toHost', host'.breaks) /\ KFirst(host'.scan, host'.breaks)  BY <1>1, <1>2, ShorterKFirst
<1>4. Without("K", toHost') \/ Without("break", host'.scan)  BY <1>1, <1>2, ShorterWithout
<1> QED  BY <1>1, <1>3, <1>4 DEF NoOldK

LEMMA QuietKeepsInv ==
  ASSUME LoadInv, UNCHANGED <<pi, calls, resets, met>>, Given,
         host'.pc \in {"open", "loop", "exited", "hung"},
         Shorter(host.scan, host'.scan), Shorter(toHost, toHost'), host'.breaks \in {host.breaks, 0},
         toPi' = toPi \/ toPi' = << >> \/ Typed
  PROVE  LoadInv'
<1>1. LoadTypes  BY DEF LoadInv
<1>2. ~Calling'  BY DEF Calling
<1>3. \A i \in 1 .. Len(toPi') :
        toPi'[i][1] = "typed" \/ \E j \in 1 .. Len(toPi) : toPi'[i] = toPi[j]
  <2>1. CASE toPi' = toPi  BY <2>1
  <2>2. CASE toPi' = << >>  BY <2>2
  <2>3. CASE Typed
    <3>1. PICK m \in Nat : toPi' = Append(toPi, <<"typed", m>>)  BY <2>3 DEF Typed
    <3>2. <<"typed", m>> \in Bytes  BY DEF Bytes
    <3>3. /\ Len(toPi) \in Nat /\ Len(toPi') = Len(toPi) + 1 /\ toPi'[Len(toPi) + 1] = <<"typed", m>>
          /\ \A i \in 1 .. Len(toPi) : toPi'[i] = toPi[i]
      BY <1>1, <3>1, <3>2, AppendIs DEF LoadTypes
    <3>4. ASSUME NEW i \in 1 .. Len(toPi'), i # Len(toPi) + 1  PROVE i \in 1 .. Len(toPi)  BY <3>3, <3>4
    <3> QED  BY <3>3, <3>4
  <2> QED  BY <2>1, <2>2, <2>3
<1>4. LoadTypes'
  <2>1. toPi' \in Seq(Bytes)
    <3>1. toPi \in Seq(Bytes) /\ << >> \in Seq(Bytes)  BY <1>1 DEF LoadTypes
    <3>2. ASSUME NEW m \in Nat  PROVE <<"typed", m>> \in Bytes  BY DEF Bytes
    <3>3. CASE Typed  BY <3>1, <3>2, <3>3, AppendIs DEF Typed
    <3> QED  BY <3>1, <3>3
  <2>2. toHost' \in Seq(Printed) /\ host'.scan \in Seq(Printed)  BY <1>1, ShorterIs DEF LoadTypes
  <2>3. failed' \subseteq 1 .. calls  BY <1>1 DEF Given, LoadTypes
  <2>4. CallsKnown(toPi)'  BY <1>1, <1>3 DEF LoadTypes, CallsKnown
  <2> QED  BY <1>1, <1>2, <2>1, <2>2, <2>3, <2>4 DEF LoadTypes, CallsKnown, BeforeOK
<1>5. SUFFICES ASSUME ~met, resets <= 1  PROVE LoadKept'
  BY <1>4 DEF LoadInv
<1>6. LoadKept  BY <1>5 DEF LoadInv
<1>7. FirstAsk'  BY <1>1, <1>6, QuietKeepsAsk DEF LoadKept
<1>8. OnlyCall'  BY <1>1, <1>2, <1>6, QuietKeepsOnly DEF LoadKept
<1>9. NoOldK'  BY <1>1, <1>6, QuietKeepsNoOldK DEF LoadKept
<1>10. Waiting' /\ InTime' /\ Answered'  BY <1>2 DEF Waiting, InTime, Answered, Unspoilt
<1>11. Ended'
  <2> SUFFICES ASSUME NEW call \in 1 .. calls, Over(call)'
               PROVE  /\ pi.pc = "size" => NothingOf(call, toPi') /\ NothingOf(call, pi.size)
                      /\ pi.pc # "size" /\ pi.size = SizeOf(call) => Loaded(call)
    BY DEF Ended, Loaded
  <2>1. Over(call)  BY DEF Over, Given
  <2>2. /\ pi.pc = "size" => NothingOf(call, toPi) /\ NothingOf(call, pi.size)
        /\ pi.pc # "size" /\ pi.size = SizeOf(call) => Loaded(call)
    BY <1>6, <2>1 DEF LoadKept, Ended
  <2>3. pi.pc = "size" => NothingOf(call, toPi')  BY <1>3, <2>2 DEF NothingOf, OfCall
  <2> QED  BY <2>2, <2>3
<1> QED  BY <1>7, <1>8, <1>9, <1>10, <1>11 DEF LoadKept

LEMMA UnchangedKeepsLoad ==
  ASSUME LoadInv, UNCHANGED <<pi, toPi, toHost, host, calls, failed, resets, met>>
  PROVE  LoadInv'
<1>1. Calling' = Calling /\ Unspoilt' = Unspoilt  BY DEF Calling, Unspoilt
<1>2. LoadTypes => LoadTypes'  BY <1>1 DEF LoadTypes, CallsKnown
<1>3. FirstAsk => FirstAsk'  BY DEF FirstAsk
<1>4. OnlyCall => OnlyCall'  BY <1>1 DEF OnlyCall, SizeComes
<1>5. NoOldK => NoOldK'  BY DEF NoOldK
<1>6. Waiting => Waiting'  BY <1>1 DEF Waiting, SentOnly
<1>7. InTime => InTime'  BY <1>1 DEF InTime
<1>8. Answered => Answered'  BY <1>1 DEF Answered, KLast, FileComes, Loaded
<1>9. Ended => Ended'  BY <1>1 DEF Ended, Over, Loaded
<1> QED  BY <1>2, <1>3, <1>4, <1>5, <1>6, <1>7, <1>8, <1>9 DEF LoadInv, LoadKept

(* The host gives up.                                                      *)
LEMMA do_exitKeepsLoad ==
  ASSUME LoadInv, SelectFound, UNCHANGED <<pi, calls, resets, met>>, do_exit,
         Shorter(toHost, toHost'), toPi' = toPi \/ toPi' = << >>
  PROVE  LoadInv'
<1>1. Given /\ host' = [host EXCEPT !.pc = "exited"]  BY DEF do_exit, Given
<1>2. host'.pc = "exited" /\ host'.scan = host.scan /\ host'.breaks = host.breaks  BY <1>1 DEF SelectFound
<1> QED  BY <1>1, <1>2, QuietKeepsInv DEF Shorter

LEMMA open_serialKeepsLoad == ASSUME LoadInv, open_serial PROVE LoadInv'
<1>1. UNCHANGED <<pi, calls, resets, met, toPi, failed>> /\ ~Calling  BY DEF open_serial, counts, Calling
<1>2. host'.pc = "loop" /\ host'.scan = << >> /\ host'.breaks = host.breaks /\ toHost' = << >>
  BY DEF open_serial, Opening
<1> QED  BY <1>1, <1>2, QuietKeepsInv DEF Shorter, Given

LEMMA SelectKeepsLoad == ASSUME LoadInv, SelectFound, Select PROVE LoadInv'
<1>1. UNCHANGED <<pi, calls, resets, met, toPi, toHost, failed>> /\ host.pc = "loop"
  BY DEF Select, line, counts, Looping
<1>2. host'.pc = host.pc /\ host'.scan = host.scan /\ host'.breaks = host.breaks  BY DEF SelectFound, Select
<1> QED  BY <1>1, <1>2, QuietKeepsInv DEF Shorter, Given, Calling

LEMMA ReadInputKeepsLoad == ASSUME LoadInv, SelectFound, ReadInput PROVE LoadInv'
<1>1. UNCHANGED <<pi, calls, resets, met, toPi, toHost, failed>> /\ host.pc = "loop"
  BY DEF ReadInput, line, Looping
<1>2. host'.pc = host.pc /\ host'.scan = host.scan /\ host'.breaks = host.breaks  BY DEF SelectFound, ReadInput
<1> QED  BY <1>1, <1>2, QuietKeepsInv DEF Shorter, Given, Calling

LEMMA CopyInputKeepsLoad == ASSUME LoadInv, InputInv, CopyInput PROVE LoadInv'
<1>1. InputFits /\ SelectFound  BY DEF InputInv
<1>2. UNCHANGED <<pi, calls, resets, met, toHost>> /\ host.pc = "loop" /\ "out" \in host.ready
  BY DEF CopyInput, Looping
<1>3. CASE host.dead
  <2>1. do_exit /\ UNCHANGED toPi  BY <1>3 DEF CopyInput
  <2> QED  BY <1>1, <1>2, <2>1, do_exitKeepsLoad DEF Shorter
<1>4. CASE ~host.dead
  <2>1. host' = [host EXCEPT !.ready = @ \ {"out"}] /\ UNCHANGED failed /\ Written(<<"typed", input.buf[input.start]>>)
    BY <1>4 DEF CopyInput
  <2>2. input.buf[input.start] \in Nat
    <3>1. input.start < input.end  BY <1>1, <1>2 DEF SelectFound
    <3>2. input.start \in 0 .. BUF_SIZE - 1  BY <1>1, <3>1, BootAssumption DEF InputFits
    <3> QED  BY <1>1, <3>2 DEF InputFits
  <2>3. toPi' = toPi \/ Typed  BY <2>1, <2>2 DEF Written, Typed
  <2>4. host'.pc = host.pc /\ host'.scan = host.scan /\ host'.breaks = host.breaks  BY <1>1, <2>1 DEF SelectFound
  <2> QED  BY <1>2, <2>1, <2>3, <2>4, QuietKeepsInv DEF Shorter, Given, Calling
<1> QED  BY <1>3, <1>4

LEMMA LoopEndsKeepsLoad == ASSUME LoadInv, SelectFound, LoopEnds PROVE LoadInv'
<1>1. UNCHANGED <<pi, calls, resets, met, toPi, toHost, failed>> /\ ~Calling
  BY DEF LoopEnds, line, counts, Looping, Calling
<1>2. CASE host' = [host EXCEPT !.pc = "exited"]
  <2>1. host'.pc = "exited" /\ host'.scan = host.scan /\ host'.breaks = host.breaks  BY <1>2 DEF SelectFound
  <2> QED  BY <1>1, <2>1, QuietKeepsInv DEF Shorter, Given
<1>3. CASE host' = [Opening EXCEPT !.breaks = host.breaks]
  <2>1. host'.pc = "open" /\ host'.scan = << >> /\ host'.breaks = host.breaks  BY <1>3 DEF Opening
  <2> QED  BY <1>1, <2>1, QuietKeepsInv DEF Shorter, Given
<1> QED  BY <1>2, <1>3 DEF LoopEnds

LEMMA RestartKeepsLoad == ASSUME LoadInv, Restart PROVE LoadInv'
<1>1. UNCHANGED <<pi, calls, resets, met, toPi, toHost, failed>> /\ ~Calling  BY DEF Restart, line, Calling
<1>2. host'.pc = "open" /\ host'.scan = << >> /\ host'.breaks = 0  BY DEF Restart, Opening
<1> QED  BY <1>1, <1>2, QuietKeepsInv DEF Shorter, Given

LEMMA UnplugKeepsLoad == ASSUME LoadInv, SelectFound, Unplug PROVE LoadInv'
<1>1. UNCHANGED <<pi, calls, resets, met>> /\ toPi' = << >> /\ toHost' = << >>  BY DEF Unplug
<1>2. CASE do_exit  BY <1>1, <1>2, do_exitKeepsLoad DEF Shorter
<1>3. CASE Calling /\ host' = [host EXCEPT !.pc = "hung"] /\ failed' = failed \cup {calls}
  <2>1. host'.pc = "hung" /\ host'.scan = host.scan /\ host'.breaks = host.breaks  BY <1>3 DEF SelectFound
  <2> QED  BY <1>1, <1>3, <2>1, QuietKeepsInv DEF Shorter, Given
<1>4. CASE ~Calling /\ host' = [host EXCEPT !.dead = host.pc = "loop"] /\ UNCHANGED failed
  <2>1. host'.pc = host.pc /\ host'.scan = host.scan /\ host'.breaks = host.breaks  BY <1>4 DEF SelectFound
  <2>2. host.pc \in {"open", "loop", "exited", "hung"}  BY <1>4 DEF Calling
  <2> QED  BY <1>1, <1>4, <2>1, <2>2, QuietKeepsInv DEF Shorter, Given
<1> QED  BY <1>2, <1>3, <1>4 DEF Unplug

(* What was read is looked through; what was not stays on the line.        *)
LEMMA ReadDeviceKeepsLoad == ASSUME LoadInv, SelectFound, ReadDevice PROVE LoadInv'
<1>1. UNCHANGED <<pi, calls, resets, met, toPi, failed>> /\ host.pc = "loop" /\ host.scan = << >>
  BY DEF ReadDevice, counts, Looping
<1>2. CASE host.dead
  <2>1. /\ host' \in {[host EXCEPT !.ready = {}, !.done = TRUE], [host EXCEPT !.pc = "exited"]}
        /\ UNCHANGED toHost
    BY <1>2 DEF ReadDevice
  <2>2. host'.pc \in {host.pc, "exited"} /\ host'.scan = host.scan /\ host'.breaks = host.breaks
    BY <2>1 DEF SelectFound
  <2> QED  BY <1>1, <2>1, <2>2, QuietKeepsInv DEF Shorter, Given, Calling
<1>3. CASE ~host.dead
  <2>1. PICK n \in 1 .. Len(toHost) :
          /\ host' = [host EXCEPT !.ready = {}, !.scan = SubSeq(toHost, 1, n)]
          /\ toHost' = SubSeq(toHost, n + 1, Len(toHost))
    BY <1>3 DEF ReadDevice
  <2>2. host'.pc = "loop" /\ host'.scan = SubSeq(toHost, 1, n) /\ host'.breaks = host.breaks
    BY <1>1, <2>1 DEF SelectFound
  <2>3. LoadTypes  BY DEF LoadInv
  <2>4. toHost \in Seq(Printed) /\ pi.out \in Seq(Printed) /\ Len(toHost) \in Nat /\ Len(pi.out) \in Nat
        /\ host.breaks \in Nat
    BY <2>3 DEF LoadTypes
  <2>5. /\ host'.scan \in Seq(Printed) /\ Len(host'.scan) = n
        /\ toHost' \in Seq(Printed) /\ Len(toHost') = Len(toHost) - n
        /\ \A i \in 1 .. n : host'.scan[i] = toHost[i]
        /\ \A i \in 1 .. Len(toHost) - n : toHost'[i] = toHost[n + i]
    BY <2>1, <2>2, <2>4, CutIs
  <2>6. \A i \in 1 .. Len(toHost) - n : n + i \in 1 .. Len(toHost)  BY <2>4
  <2>7. \A i \in 1 .. n : i \in 1 .. Len(toHost)  BY <2>4
  <2>8. ~Calling /\ ~Calling'  BY <1>1, <2>2 DEF Calling
  <2>9. LoadTypes'  BY <1>1, <2>2, <2>3, <2>5, <2>8 DEF LoadTypes, CallsKnown
  <2> SUFFICES ASSUME ~met, resets <= 1  PROVE LoadKept'
    BY <1>1, <2>9 DEF LoadInv
  <2>10. LoadKept  BY DEF LoadInv
  <2>11. FirstAsk'
    <3> SUFFICES ASSUME resets = 0, calls = 0  PROVE FirstAsk'
      BY <1>1 DEF FirstAsk
    <3>1. /\ pi.pc = "size" /\ pi.size = << >>
          /\ \A i \in 1 .. Len(toPi) : toPi[i][1] = "typed"
          /\ BreaksBehind(pi.out, host.breaks)
          /\ BreaksBehind(toHost, host.breaks + Len(pi.out))
      BY <2>10 DEF LoadKept, FirstAsk
    <3>2. BreaksBehind(toHost', host.breaks + Len(pi.out))
      <4> SUFFICES ASSUME NEW i \in 1 .. Len(toHost) - n
                   PROVE  toHost'[i] # "K" /\ (toHost'[i] = "break" => host.breaks + Len(pi.out) + (Len(toHost) - n) - i <= 2)
        BY <2>5 DEF BreaksBehind
      <4>1. toHost[n + i] # "K"
            /\ (toHost[n + i] = "break" => host.breaks + Len(pi.out) + Len(toHost) - (n + i) <= 2)
        BY <2>6, <3>1 DEF BreaksBehind
      <4>2. host.breaks + Len(pi.out) + Len(toHost) - (n + i) = host.breaks + Len(pi.out) + (Len(toHost) - n) - i
        BY <2>4
      <4> QED  BY <2>5, <4>1, <4>2
    <3>3. BreaksBehind(host'.scan, host.breaks + Len(pi.out) + Len(toHost'))
      <4> SUFFICES ASSUME NEW i \in 1 .. n
                   PROVE  host'.scan[i] # "K"
                          /\ (host'.scan[i] = "break" => host.breaks + Len(pi.out) + (Len(toHost) - n) + n - i <= 2)
        BY <2>5 DEF BreaksBehind
      <4>1. toHost[i] # "K"
            /\ (toHost[i] = "break" => host.breaks + Len(pi.out) + Len(toHost) - i <= 2)
        BY <2>7, <3>1 DEF BreaksBehind
      <4>2. host.breaks + Len(pi.out) + Len(toHost) - i = host.breaks + Len(pi.out) + (Len(toHost) - n) + n - i
        BY <2>4
      <4> QED  BY <2>5, <4>1, <4>2
    <3> QED  BY <1>1, <2>2, <3>1, <3>2, <3>3 DEF FirstAsk
  <2>12. \A x : Without(x, toHost) => Without(x, toHost') /\ Without(x, host'.scan)
    BY <2>5, <2>6, <2>7 DEF Without
  <2>13. OnlyCall'
    <3> SUFFICES ASSUME resets = 0, calls > 0  PROVE OnlyCall'
      BY <1>1 DEF OnlyCall
    <3> QED  BY <1>1, <2>2, <2>8, <2>10, <2>12 DEF LoadKept, OnlyCall, SizeComes
  <2>14. NoOldK'
    <3> SUFFICES ASSUME pi.pc = "size"  PROVE NoOldK'
      BY <1>1 DEF NoOldK
    <3>1. Without("K", pi.out) /\ KFirst(toHost, host.breaks)  BY <2>10 DEF LoadKept, NoOldK
    <3>2. KFirst(host'.scan, host.breaks)
      <4> SUFFICES ASSUME NEW i \in 1 .. n, host'.scan[i] = "K"
                   PROVE  host.breaks = 0 /\ \A j \in 1 .. i : host'.scan[j] # "break"
        BY <2>5 DEF KFirst
      <4>1. host.breaks = 0 /\ \A j \in 1 .. i : toHost[j] # "break"  BY <2>5, <2>7, <3>1 DEF KFirst
      <4> QED  BY <2>5, <4>1
    <3>3. ASSUME NEW i \in 1 .. Len(toHost) - n, toHost'[i] = "K"
          PROVE  host.breaks = 0 /\ \A j \in 1 .. n + i : toHost[j] # "break"
      BY <2>5, <2>6, <3>1, <3>3 DEF KFirst
    <3>4. KFirst(toHost', host.breaks)
      <4> SUFFICES ASSUME NEW i \in 1 .. Len(toHost) - n, toHost'[i] = "K"
                   PROVE  host.breaks = 0 /\ \A j \in 1 .. i : toHost'[j] # "break"
        BY <2>5 DEF KFirst
      <4>1. ASSUME NEW j \in 1 .. i  PROVE j \in 1 .. Len(toHost) - n /\ n + j \in 1 .. n + i  BY <2>4
      <4> QED  BY <2>5, <3>3, <4>1
    <3>5. Without("K", toHost') \/ Without("break", host'.scan)
      <4> SUFFICES ASSUME NEW i \in 1 .. Len(toHost) - n, toHost'[i] = "K", NEW j \in 1 .. n
                   PROVE  host'.scan[j] # "break"
        BY <2>5 DEF Without
      <4>1. j \in 1 .. n + i  BY <2>4
      <4> QED  BY <2>5, <3>3, <4>1
    <3> QED  BY <1>1, <2>2, <3>1, <3>2, <3>4, <3>5 DEF NoOldK
  <2>15. Waiting' /\ InTime' /\ Answered'  BY <2>8 DEF Waiting, InTime, Answered, Unspoilt
  <2>16. Ended'  BY <1>1, <2>8, <2>10 DEF LoadKept, Ended, Over, Loaded
  <2> QED  BY <2>10, <2>11, <2>13, <2>14, <2>15, <2>16 DEF LoadKept
<1> QED  BY <1>2, <1>3

(* A byte is looked at: a break is counted, another ends the count, and    *)
(* the third break begins a call.                                          *)
LEMMA Counted ==
  \A h, o, t, s, h2, s2, i \in Int :
    h2 = h + 1 /\ s2 = s - 1 /\ i >= 1 /\ o >= 0 /\ t >= 0 /\ s >= 1 /\ h + o + t + s - 1 <= 2
      => h2 + o + t - i <= 2 /\ h2 + o + t + s2 - i <= 2
OBVIOUS

LEMMA CountedAnew ==
  \A h, o, t, s, h2, s2, i \in Int :
    h2 = 0 /\ s2 = s - 1 /\ h >= 0 /\ h + o + t + s - (i + 1) <= 2 => h2 + o + t + s2 - i <= 2
OBVIOUS

LEMMA CountOnKeepsLoad ==
  ASSUME LoadInv, UNCHANGED <<pi, toPi, toHost, calls, failed, resets, met>>,
         host.pc = "loop", host'.pc = "loop", host.scan # << >>, host'.scan = Tail(host.scan),
         host'.breaks = BreaksAfter(host.breaks, Head(host.scan)), host'.breaks # 3
  PROVE  LoadInv'
<1>1. LoadTypes  BY DEF LoadInv
<1>2. toHost \in Seq(Printed) /\ pi.out \in Seq(Printed) /\ host.scan \in Seq(Printed)
      /\ Len(toHost) \in Nat /\ Len(pi.out) \in Nat /\ host.breaks \in 0 .. 2
  BY <1>1 DEF LoadTypes
<1>3. /\ Len(host.scan) \in Nat \ {0} /\ Head(host.scan) = host.scan[1] /\ 1 \in 1 .. Len(host.scan)
      /\ host'.scan \in Seq(Printed) /\ Len(host'.scan) = Len(host.scan) - 1
      /\ \A i \in 1 .. Len(host'.scan) : i + 1 \in 1 .. Len(host.scan) /\ host'.scan[i] = host.scan[i + 1]
  BY <1>2, TailIs
<1>4. \/ host.scan[1] # "break" /\ host'.breaks = 0
      \/ host.scan[1] = "break" /\ host'.breaks = host.breaks + 1
  BY <1>3 DEF BreaksAfter
<1>5. host'.breaks \in 0 .. 2  BY <1>2, <1>4
<1>6. ~Calling /\ ~Calling'  BY DEF Calling
<1>7. LoadTypes'  BY <1>1, <1>3, <1>5, <1>6 DEF LoadTypes, CallsKnown
<1> SUFFICES ASSUME ~met, resets <= 1  PROVE LoadKept'
  BY <1>7 DEF LoadInv
<1>8. LoadKept  BY DEF LoadInv
<1>9. FirstAsk'
  <2> SUFFICES ASSUME resets = 0, calls = 0  PROVE FirstAsk'
    BY DEF FirstAsk
  <2>1. /\ pi.pc = "size" /\ pi.size = << >>
        /\ \A i \in 1 .. Len(toPi) : toPi[i][1] = "typed"
        /\ BreaksBehind(pi.out, host.breaks)
        /\ BreaksBehind(toHost, host.breaks + Len(pi.out))
        /\ BreaksBehind(host.scan, host.breaks + Len(pi.out) + Len(toHost))
    BY <1>8 DEF LoadKept, FirstAsk
  <2>2. /\ \A i \in 1 .. Len(pi.out) : pi.out[i] # "K"
        /\ \A i \in 1 .. Len(toHost) : toHost[i] # "K"
        /\ \A i \in 1 .. Len(host'.scan) : host'.scan[i] # "K"
    BY <1>3, <2>1 DEF BreaksBehind
  <2>3. /\ host.breaks \in Int /\ Len(pi.out) \in Int /\ Len(toHost) \in Int /\ Len(host.scan) \in Int
        /\ host.breaks >= 0 /\ Len(pi.out) >= 0 /\ Len(toHost) >= 0 /\ Len(host.scan) >= 1
        /\ Len(host'.scan) \in Int /\ Len(host'.scan) = Len(host.scan) - 1 /\ host'.breaks \in Int
        /\ Len(pi.out) \in Nat /\ Len(toHost) \in Nat /\ Len(host'.scan) \in Nat
    BY <1>2, <1>3, <1>5
  <2>4. CASE host.scan[1] # "break" /\ host'.breaks = 0
    <3>1. \A i \in 1 .. Len(pi.out) : pi.out[i] = "break" => host'.breaks + Len(pi.out) - i <= 2
      BY <1>2, <2>1, <2>4 DEF BreaksBehind
    <3>2. \A i \in 1 .. Len(toHost) : toHost[i] = "break" => host'.breaks + Len(pi.out) + Len(toHost) - i <= 2
      BY <1>2, <2>1, <2>4 DEF BreaksBehind
    <3>3. ASSUME NEW i \in 1 .. Len(host'.scan), host'.scan[i] = "break"
          PROVE  host'.breaks + Len(pi.out) + Len(toHost) + Len(host'.scan) - i <= 2
      <4>1. host.breaks + Len(pi.out) + Len(toHost) + Len(host.scan) - (i + 1) <= 2
        BY <1>3, <2>1, <3>3 DEF BreaksBehind
      <4>2. i \in Int  BY <2>3
      <4> QED  BY <2>3, <2>4, <4>1, <4>2, CountedAnew
    <3> QED  BY <2>1, <2>2, <3>1, <3>2, <3>3 DEF FirstAsk, BreaksBehind
  <2>5. CASE host.scan[1] = "break" /\ host'.breaks = host.breaks + 1
    <3>1. host.breaks + Len(pi.out) + Len(toHost) + Len(host.scan) - 1 <= 2
      BY <1>3, <2>1, <2>5 DEF BreaksBehind
    <3>2. ASSUME NEW n \in Nat, NEW i \in 1 .. n  PROVE i \in Int /\ i >= 1  OBVIOUS
    <3>3. ASSUME NEW i \in Int, i >= 1
          PROVE  /\ host'.breaks + Len(pi.out) - i <= 2
                 /\ host'.breaks + Len(pi.out) + Len(toHost) - i <= 2
                 /\ host'.breaks + Len(pi.out) + Len(toHost) + Len(host'.scan) - i <= 2
      <4>1. host'.breaks = host.breaks + 1  BY <2>5
      <4>2. /\ host'.breaks + Len(pi.out) + Len(toHost) - i <= 2
            /\ host'.breaks + Len(pi.out) + Len(toHost) + Len(host'.scan) - i <= 2
        BY <2>3, <3>1, <3>3, <4>1, Counted
      <4>3. host'.breaks + Len(pi.out) - i <= 2
        <5>1. \A a, t, n \in Int : t >= 0 /\ a + t - n <= 2 => a - n <= 2  OBVIOUS
        <5>2. host'.breaks + Len(pi.out) \in Int  BY <2>3
        <5> QED  BY <2>3, <3>3, <4>2, <5>1, <5>2
      <4> QED  BY <4>2, <4>3
    <3> QED  BY <2>1, <2>2, <2>3, <3>2, <3>3 DEF FirstAsk, BreaksBehind
  <2> QED  BY <1>4, <2>4, <2>5
<1>10. OnlyCall'
  <2> SUFFICES ASSUME resets = 0, calls > 0  PROVE OnlyCall'
    BY DEF OnlyCall
  <2>1. Without("break", host.scan)  BY <1>8 DEF LoadKept, OnlyCall
  <2>2. host'.breaks = 0 /\ Without("break", host'.scan)  BY <1>3, <1>4, <2>1 DEF Without
  <2> QED  BY <1>6, <1>8, <2>2 DEF LoadKept, OnlyCall, SizeComes
<1>11. NoOldK'
  <2> SUFFICES ASSUME pi.pc = "size"  PROVE NoOldK'
    BY DEF NoOldK
  <2>1. /\ Without("K", pi.out) /\ KFirst(toHost, host.breaks) /\ KFirst(host.scan, host.breaks)
        /\ Without("K", toHost) \/ Without("break", host.scan)
    BY <1>8 DEF LoadKept, NoOldK
  <2>2. Without("break", host.scan) => host'.breaks = 0 /\ Without("break", host'.scan)
    BY <1>3, <1>4 DEF Without
  <2>3. Without("K", toHost) => KFirst(toHost, host'.breaks)  BY DEF Without, KFirst
  <2>4. KFirst(toHost, host'.breaks)
    <3>1. CASE Without("K", toHost)  BY <2>3, <3>1
    <3>2. CASE Without("break", host.scan)
      <4>1. host'.breaks = 0  BY <2>2, <3>2
      <4> QED  BY <2>1, <4>1 DEF KFirst
    <3> QED  BY <2>1, <3>1, <3>2
  <2>5. KFirst(host'.scan, host'.breaks)
    <3> SUFFICES ASSUME NEW i \in 1 .. Len(host'.scan), host'.scan[i] = "K"
                 PROVE  host'.breaks = 0 /\ \A j \in 1 .. i : host'.scan[j] # "break"
      BY DEF KFirst
    <3>1. \A j \in 1 .. i + 1 : host.scan[j] # "break"  BY <1>3, <2>1 DEF KFirst
    <3>2. 1 \in 1 .. i + 1 /\ \A j \in 1 .. i : j \in 1 .. Len(host'.scan) /\ j + 1 \in 1 .. i + 1  BY <1>3
    <3>3. host.scan[1] # "break"  BY <3>1, <3>2
    <3> QED  BY <1>3, <1>4, <3>1, <3>2, <3>3
  <2> QED  BY <2>1, <2>2, <2>4, <2>5 DEF NoOldK
<1>12. Waiting' /\ InTime' /\ Answered'  BY <1>6 DEF Waiting, InTime, Answered, Unspoilt
<1>13. Ended'  BY <1>6, <1>8 DEF LoadKept, Ended, Over, Loaded
<1> QED  BY <1>9, <1>10, <1>11, <1>12, <1>13 DEF LoadKept

LEMMA CallBeginsKeepsLoad ==
  ASSUME LoadInv, UNCHANGED <<pi, toPi, toHost, failed, resets, met>>, calls' = calls + 1,
         host.pc = "loop", host'.pc = "sendSize", host.scan # << >>, host'.scan = Tail(host.scan),
         BreaksAfter(host.breaks, Head(host.scan)) = 3, host'.breaks = 0, host'.pos = 0
  PROVE  LoadInv'
<1>1. LoadTypes  BY DEF LoadInv
<1>2. toHost \in Seq(Printed) /\ pi.out \in Seq(Printed) /\ host.scan \in Seq(Printed)
      /\ Len(toHost) \in Nat /\ Len(pi.out) \in Nat /\ host.breaks \in 0 .. 2 /\ calls \in Nat
      /\ toPi \in Seq(Bytes) /\ Len(toPi) \in Nat
  BY <1>1 DEF LoadTypes
<1>3. /\ Len(host.scan) \in Nat \ {0} /\ Head(host.scan) = host.scan[1] /\ 1 \in 1 .. Len(host.scan)
      /\ host'.scan \in Seq(Printed) /\ Len(host'.scan) = Len(host.scan) - 1
      /\ \A i \in 1 .. Len(host'.scan) : i + 1 \in 1 .. Len(host.scan) /\ host'.scan[i] = host.scan[i + 1]
  BY <1>2, TailIs
<1>4. host.scan[1] = "break" /\ host.breaks = 2  BY <1>2, <1>3 DEF BreaksAfter
<1>5. ~Calling /\ Calling'  BY DEF Calling
<1>6. /\ \A i \in 1 .. Len(toPi) : toPi[i][1] = "typed" \/ toPi[i][2] \in 1 .. calls
      /\ \A i \in 1 .. Len(pi.size) : pi.size[i][1] = "typed" \/ pi.size[i][2] \in 1 .. calls
  BY <1>1 DEF LoadTypes, CallsKnown
<1>7. \A c \in 1 .. calls : c \in 1 .. calls' /\ c # calls'  BY <1>2
<1>8. calls' \notin failed /\ calls' \in Nat /\ calls' >= 1  BY <1>1, <1>2, <1>7 DEF LoadTypes
<1>9. LoadTypes'
  <2>1. failed \subseteq 1 .. calls'  BY <1>1, <1>7 DEF LoadTypes
  <2>2. CallsKnown(toPi)' /\ CallsKnown(pi.size)'  BY <1>6, <1>7 DEF CallsKnown
  <2>3. 0 \in 0 .. SizeBytes - 1  BY LineAssumption
  <2> QED  BY <1>1, <1>3, <1>8, <2>1, <2>2, <2>3 DEF LoadTypes
<1> SUFFICES ASSUME ~met, resets <= 1  PROVE LoadKept'
  BY <1>9 DEF LoadInv
<1>10. LoadKept  BY DEF LoadInv
<1>11. FirstAsk'  BY <1>8 DEF FirstAsk
<1>12. OnlyCall'
  <2> SUFFICES ASSUME resets = 0  PROVE OnlyCall'
    BY DEF OnlyCall
  <2>1. calls = 0  BY <1>2, <1>4, <1>10 DEF LoadKept, OnlyCall
  <2>2. /\ pi.pc = "size" /\ pi.size = << >>
        /\ \A i \in 1 .. Len(toPi) : toPi[i][1] = "typed"
        /\ BreaksBehind(host.scan, host.breaks + Len(pi.out) + Len(toHost))
    BY <1>10, <2>1 DEF LoadKept, FirstAsk
  <2>3. host.breaks + Len(pi.out) + Len(toHost) + Len(host.scan) - 1 <= 2
    BY <1>3, <1>4, <2>2 DEF BreaksBehind
  <2>4. Len(pi.out) = 0 /\ Len(toHost) = 0 /\ Len(host'.scan) = 0
    <3>1. \A o, t \in Nat, s \in Nat \ {0} : 2 + o + t + s - 1 <= 2 => o = 0 /\ t = 0 /\ s - 1 = 0  OBVIOUS
    <3> QED  BY <1>2, <1>3, <1>4, <2>3, <3>1
  <2>5. pi.out = << >>  BY <1>2, <2>4
  <2>6. Without("break", pi.out) /\ Without("break", toHost) /\ Without("break", host'.scan)
    BY <2>4 DEF Without
  <2>7. \A n \in 1 .. Len(toPi) : SizeComes(n)'
    <3> SUFFICES ASSUME NEW n \in 1 .. Len(toPi)  PROVE SizeComes(n)'
      OBVIOUS
    <3>1. n \in 1 .. n /\ n <= Len(toPi)  BY <1>2
    <3> QED  BY <2>2, <3>1 DEF SizeComes
  <2>8. (\E j \in 1 .. Len(toPi) : toPi[j][1] = "typed") \/ Len(pi.size) + Len(toPi) = 0
    <3>1. CASE Len(toPi) = 0  BY <2>2, <3>1
    <3>2. CASE Len(toPi) # 0
      <4>1. 1 \in 1 .. Len(toPi)  BY <1>2, <3>2
      <4> QED  BY <2>2, <4>1
    <3> QED  BY <3>1, <3>2
  <2>9. Len(pi.size) = 0 /\ calls' = 1  BY <2>1, <2>2
  <2>10. \A i \in 1 .. Len(pi.size) : pi.size[i] = <<"size", 1, i>>  BY <2>9
  <2> QED  BY <1>8, <2>5, <2>6, <2>7, <2>8, <2>9, <2>10 DEF OnlyCall
<1>13. pi.pc = "size" => /\ Without("K", pi.out) /\ Without("K", toHost) /\ Without("K", host.scan)
  BY <1>4, <1>10 DEF LoadKept, NoOldK, KFirst, Without
<1>14. NoOldK'
  <2>1. pi.pc = "size" => Without("K", host'.scan)  BY <1>3, <1>13 DEF Without
  <2> QED  BY <1>13, <2>1 DEF NoOldK, KFirst, Without
<1>15. /\ \A i \in 1 .. Len(toPi) : ~(toPi[i][1] = "size" /\ toPi[i][2] = calls')
       /\ \A i \in 1 .. Len(pi.size) : ~(pi.size[i][1] = "size" /\ pi.size[i][2] = calls')
  BY <1>6, <1>7
<1>16. Waiting'
  <2>1. \A i \in 1 .. Len(toPi) : toPi[i] # <<"size", calls', SizeBytes>>  BY <1>15
  <2> QED  BY <1>13, <1>15, <2>1 DEF Waiting, SentOnly, OfCall
<1>17. InTime'  BY DEF InTime
<1>18. Answered'
  <2>1. pi.size # SizeOf(calls')
    <3>1. ASSUME pi.size = SizeOf(calls')  PROVE FALSE
      <4>1. pi.size \in Seq(Bytes)  BY <1>1 DEF LoadTypes
      <4>2. DOMAIN pi.size = 1 .. SizeBytes /\ 1 \in 1 .. SizeBytes /\ pi.size[1] = <<"size", calls', 1>>
        BY <3>1, LineAssumption DEF SizeOf
      <4>3. 1 \in 1 .. Len(pi.size)  BY <4>1, <4>2, LenProperties
      <4> QED  BY <1>15, <4>2, <4>3
    <3> QED  BY <3>1
  <2> QED  BY <2>1 DEF Answered
<1>19. Ended'
  <2> SUFFICES ASSUME NEW call \in 1 .. calls', Over(call)'
               PROVE  /\ pi.pc = "size" => NothingOf(call, toPi) /\ NothingOf(call, pi.size)
                      /\ pi.pc # "size" /\ pi.size = SizeOf(call) => Loaded(call)
    BY DEF Ended, Loaded
  <2>1. call # calls' /\ call \notin failed  BY <1>5 DEF Over
  <2>2. call \in 1 .. calls  BY <1>2, <2>1
  <2>3. Over(call)  BY <1>5, <2>1 DEF Over
  <2> QED  BY <1>10, <2>2, <2>3 DEF LoadKept, Ended
<1> QED  BY <1>11, <1>12, <1>14, <1>16, <1>17, <1>18, <1>19 DEF LoadKept

LEMMA ScanOutputKeepsLoad == ASSUME LoadInv, SelectFound, ScanOutput PROVE LoadInv'
<1> DEFINE breaks == BreaksAfter(host.breaks, Head(host.scan))
<1>1. UNCHANGED <<pi, toPi, toHost, failed, resets, met>> /\ host.pc = "loop" /\ host.scan # << >>
  BY DEF ScanOutput, line
<1>2. CASE breaks = 3
  <2>1. host' = [host EXCEPT !.pc = "sendSize", !.scan = Tail(@), !.breaks = 0, !.pos = 0] /\ calls' = calls + 1
    BY <1>2 DEF ScanOutput
  <2>2. host'.pc = "sendSize" /\ host'.scan = Tail(host.scan) /\ host'.breaks = 0 /\ host'.pos = 0
    BY <2>1 DEF SelectFound
  <2> QED  BY <1>1, <1>2, <2>1, <2>2, CallBeginsKeepsLoad
<1>3. CASE breaks # 3
  <2>1. host' = [host EXCEPT !.scan = Tail(@), !.breaks = breaks] /\ UNCHANGED calls
    BY <1>3 DEF ScanOutput
  <2>2. host'.pc = "loop" /\ host'.scan = Tail(host.scan) /\ host'.breaks = breaks
    BY <1>1, <2>1 DEF SelectFound
  <2> QED  BY <1>1, <1>3, <2>1, <2>2, CountOnKeepsLoad
<1> QED  BY <1>2, <1>3

(* The host sends a byte of the size: a Pi that printed all takes it.      *)
LEMMA OneMore == \A a, b, sum \in Int : a + b = sum => a + (b + 1) = sum + 1
OBVIOUS

LEMMA SendSizeKeepsLoad == ASSUME LoadInv, SelectFound, SendSize PROVE LoadInv'
<1> DEFINE byte == <<"size", calls, host.pos + 1>>
<1>1. LoadTypes  BY DEF LoadInv
<1>2. /\ host.pc = "sendSize" /\ UNCHANGED <<pi, toHost, calls, failed, resets, met>>
      /\ Written(SizeOf(calls)[host.pos + 1])
      /\ Step("sendSize", Len(SizeOf(calls)), "first")
  BY DEF SendSize, Sends, counts
<1>3. Calling /\ calls \in Nat /\ calls >= 1 /\ calls \in 1 .. calls /\ host.pos \in 0 .. SizeBytes - 1
  BY <1>1, <1>2 DEF LoadTypes, Calling
<1>4. SizeOf(calls)[host.pos + 1] = byte /\ Len(SizeOf(calls)) = SizeBytes
  <2>1. host.pos + 1 \in 1 .. SizeBytes  BY <1>3, LineAssumption
  <2> QED  BY <2>1, LineAssumption DEF SizeOf
<1>5. byte \in Bytes /\ byte[1] = "size" /\ byte[2] = calls /\ byte[3] = host.pos + 1
  BY <1>3 DEF Bytes
<1>6. /\ toPi' = toPi \/ toPi' = Append(toPi, byte)
      /\ pi.pc = "size" /\ pi.out = << >> => toPi' = Append(toPi, byte)
  BY <1>2, <1>4 DEF Written, PiReads
<1>7. /\ \/ host.pos + 1 = SizeBytes /\ host'.pc = "first" /\ host'.pos = 0
         \/ host.pos + 1 # SizeBytes /\ host'.pc = "sendSize" /\ host'.pos = host.pos + 1
      /\ host'.scan = host.scan /\ host'.breaks = host.breaks
  BY <1>2, <1>4 DEF Step, SelectFound
<1> HIDE DEF byte
<1>8. toPi \in Seq(Bytes) /\ Len(toPi) \in Nat /\ toPi' \in Seq(Bytes) /\ Len(toPi') \in Nat /\ Len(toPi) <= Len(toPi')
      /\ \A i \in 1 .. Len(toPi) : toPi'[i] = toPi[i]
  <2>1. toPi \in Seq(Bytes) /\ Len(toPi) \in Nat  BY <1>1 DEF LoadTypes
  <2>2. CASE toPi' = toPi  BY <2>1, <2>2
  <2>3. CASE toPi' = Append(toPi, byte)
    <3>1. toPi' \in Seq(Bytes) /\ Len(toPi') = Len(toPi) + 1 /\ \A i \in 1 .. Len(toPi) : toPi'[i] = toPi[i]
      BY <1>5, <2>1, <2>3, AppendIs
    <3> QED  BY <2>1, <3>1
  <2> QED  BY <1>6, <2>2, <2>3
<1>9. ASSUME NEW i \in 1 .. Len(toPi'), i \notin 1 .. Len(toPi)
      PROVE  i = Len(toPi) + 1 /\ i = Len(toPi') /\ toPi'[i] = byte
  <2>1. toPi' = Append(toPi, byte)  BY <1>6, <1>9
  <2>2. Len(toPi') = Len(toPi) + 1 /\ toPi'[Len(toPi) + 1] = byte  BY <1>5, <1>8, <2>1, AppendIs
  <2> QED  BY <1>8, <1>9, <2>2
<1>10. Calling' /\ (Unspoilt' => Unspoilt)  BY <1>2, <1>3, <1>7 DEF Calling, Unspoilt
<1>11. LoadTypes'
  <2>1. host'.pc = "sendSize" => host'.pos \in 0 .. SizeBytes - 1  BY <1>3, <1>7, LineAssumption
  <2>2. CallsKnown(toPi)'
    <3> SUFFICES ASSUME NEW i \in 1 .. Len(toPi'), toPi'[i][1] # "typed"  PROVE toPi'[i][2] \in 1 .. calls
      BY <1>2 DEF CallsKnown
    <3>1. CASE i \in 1 .. Len(toPi)  BY <1>1, <1>8, <3>1 DEF LoadTypes, CallsKnown
    <3>2. CASE i \notin 1 .. Len(toPi)  BY <1>3, <1>5, <1>9, <3>2
    <3> QED  BY <3>1, <3>2
  <2> QED  BY <1>1, <1>2, <1>3, <1>7, <1>8, <1>10, <2>1, <2>2 DEF LoadTypes, CallsKnown, BeforeOK
<1> SUFFICES ASSUME ~met, resets <= 1  PROVE LoadKept'
  BY <1>2, <1>11 DEF LoadInv
<1>12. LoadKept  BY DEF LoadInv
<1>13. FirstAsk'  BY <1>2, <1>3 DEF FirstAsk
<1>14. OnlyCall'
  <2> SUFFICES ASSUME resets = 0  PROVE OnlyCall'
    BY <1>2 DEF OnlyCall
  <2>1. host.breaks = 0 /\ calls \notin failed /\ Without("break", pi.out) /\ Without("break", toHost) /\ Without("break", host.scan)
    BY <1>3, <1>12 DEF LoadKept, OnlyCall
  <2>2. ASSUME pi.pc = "size"
        PROVE  /\ calls = 1 /\ pi.out = << >>
               /\ \A i \in 1 .. Len(pi.size) : pi.size[i] = <<"size", 1, i>>
               /\ \A n \in 1 .. Len(toPi') : SizeComes(n)'
               /\ \/ host'.pc # "sendSize"
                  \/ \E j \in 1 .. Len(toPi') : toPi'[j][1] = "typed"
                  \/ Len(pi.size) + Len(toPi') = host'.pos
    <3>1. /\ calls = 1 /\ pi.out = << >>
          /\ \A i \in 1 .. Len(pi.size) : pi.size[i] = <<"size", 1, i>>
          /\ \A n \in 1 .. Len(toPi) : SizeComes(n)
          /\ \/ \E j \in 1 .. Len(toPi) : toPi[j][1] = "typed"
             \/ Len(pi.size) + Len(toPi) = host.pos
      BY <1>2, <1>3, <1>12, <2>2 DEF LoadKept, OnlyCall
    <3>2. toPi' = Append(toPi, byte) /\ Len(toPi') = Len(toPi) + 1 /\ toPi'[Len(toPi) + 1] = byte
      BY <1>5, <1>6, <1>8, <2>2, <3>1, AppendIs
    <3>3. \A j \in 1 .. Len(toPi) : j \in 1 .. Len(toPi')  BY <1>8, <3>2
    <3>4. Len(pi.size) \in Nat  BY <1>1 DEF LoadTypes
    <3>5. ASSUME NEW n \in 1 .. Len(toPi)  PROVE SizeComes(n)'
      <4>1. SizeComes(n)  BY <3>1
      <4>2. CASE \E k \in 1 .. n : k <= Len(toPi) /\ toPi[k][1] = "typed"
        <5>1. PICK k \in 1 .. n : k <= Len(toPi) /\ toPi[k][1] = "typed"  BY <4>2
        <5>2. k \in 1 .. Len(toPi) /\ k <= Len(toPi')  BY <1>8, <5>1
        <5> QED  BY <1>8, <5>1, <5>2 DEF SizeComes
      <4>3. CASE toPi[n] = <<"size", 1, Len(pi.size) + n>>  BY <1>2, <1>8, <4>3 DEF SizeComes
      <4> QED  BY <1>8, <4>1, <4>2, <4>3 DEF SizeComes
    <3>6. CASE \E j \in 1 .. Len(toPi) : toPi[j][1] = "typed"
      <4>1. PICK j \in 1 .. Len(toPi) : toPi[j][1] = "typed"  BY <3>6
      <4>2. j \in 1 .. Len(toPi') /\ toPi'[j][1] = "typed"  BY <1>8, <3>3, <4>1
      <4>3. ASSUME NEW n \in 1 .. Len(toPi')  PROVE SizeComes(n)'
        <5>1. CASE n \in 1 .. Len(toPi)  BY <3>5, <5>1
        <5>2. CASE n \notin 1 .. Len(toPi)
          <6>1. j \in 1 .. n /\ j <= Len(toPi')  BY <1>8, <1>9, <3>2, <4>1, <5>2
          <6> QED  BY <4>2, <6>1 DEF SizeComes
        <5> QED  BY <5>1, <5>2
      <4> QED  BY <3>1, <4>2, <4>3
    <3>7. CASE Len(pi.size) + Len(toPi) = host.pos
      <4>1. Len(pi.size) + (Len(toPi) + 1) = host.pos + 1
        <5>1. Len(pi.size) \in Int /\ Len(toPi) \in Int /\ host.pos \in Int  BY <1>3, <1>8, <3>4
        <5> QED  BY <3>7, <5>1, OneMore
      <4>2. byte = <<"size", 1, Len(pi.size) + (Len(toPi) + 1)>>  BY <3>1, <4>1 DEF byte
      <4>3. ASSUME NEW n \in 1 .. Len(toPi')  PROVE SizeComes(n)'
        <5>1. CASE n \in 1 .. Len(toPi)  BY <3>5, <5>1
        <5>2. CASE n \notin 1 .. Len(toPi)
          <6>1. n = Len(toPi) + 1 /\ toPi'[n] = byte  BY <1>9, <5>2
          <6> QED  BY <1>2, <4>2, <6>1 DEF SizeComes
        <5> QED  BY <5>1, <5>2
      <4>4. host'.pc # "sendSize" \/ Len(pi.size) + Len(toPi') = host'.pos  BY <1>7, <3>2, <4>1
      <4> QED  BY <3>1, <4>3, <4>4
    <3> QED  BY <3>1, <3>6, <3>7
  <2> QED  BY <1>2, <1>3, <1>7, <2>1, <2>2 DEF OnlyCall
<1>15. NoOldK'  BY <1>2, <1>7, <1>12 DEF LoadKept, NoOldK
<1>16. Waiting'
  <2> SUFFICES ASSUME Unspoilt, pi.pc = "size"  PROVE Waiting'
    BY <1>2, <1>10 DEF Waiting
  <2>1. /\ Without("K", toHost) /\ SentOnly(toPi) /\ SentOnly(pi.size)
    BY <1>2, <1>12 DEF LoadKept, Waiting
  <2>2. ASSUME NEW i \in 1 .. Len(toPi'), toPi'[i] = <<"size", calls, SizeBytes>>  PROVE i = Len(toPi')
    <3>1. CASE i \in 1 .. Len(toPi)
      <4>1. toPi[i] = <<"size", calls, SizeBytes>>  BY <1>8, <2>2, <3>1
      <4>2. toPi[i][3] <= host.pos  BY <2>1, <3>1, <4>1 DEF SentOnly, OfCall
      <4>3. SizeBytes <= host.pos  BY <4>1, <4>2
      <4> QED  BY <1>3, <4>3, LineAssumption
    <3>2. CASE i \notin 1 .. Len(toPi)  BY <1>9, <3>2
    <3> QED  BY <3>1, <3>2
  <2>3. ASSUME host'.pc = "sendSize"
        PROVE  /\ \A i \in 1 .. Len(toPi') : OfCall(toPi'[i], "size", calls) => toPi'[i][3] <= host'.pos
               /\ \A i \in 1 .. Len(pi.size) : OfCall(pi.size[i], "size", calls) => pi.size[i][3] <= host'.pos
    <3>1. host'.pos = host.pos + 1  BY <1>7, <2>3
    <3>2. ASSUME NEW n \in Nat, n <= host.pos  PROVE n <= host'.pos  BY <1>3, <3>1, <3>2
    <3>3. /\ \A i \in 1 .. Len(toPi) : OfCall(toPi[i], "size", calls) => toPi[i][3] \in Nat
          /\ \A i \in 1 .. Len(pi.size) : OfCall(pi.size[i], "size", calls) => pi.size[i][3] \in Nat
      <4>1. \A b \in Bytes : OfCall(b, "size", calls) => b[3] \in Nat  BY DEF Bytes, OfCall
      <4>2. pi.size \in Seq(Bytes)  BY <1>1 DEF LoadTypes
      <4>3. \A i \in 1 .. Len(toPi) : toPi[i] \in Bytes  BY <1>8
      <4>4. \A i \in 1 .. Len(pi.size) : pi.size[i] \in Bytes  BY <4>2
      <4> QED  BY <4>1, <4>3, <4>4
    <3>4. ASSUME NEW i \in 1 .. Len(toPi'), OfCall(toPi'[i], "size", calls)  PROVE toPi'[i][3] <= host'.pos
      <4>1. CASE i \in 1 .. Len(toPi)  BY <1>8, <2>1, <3>2, <3>3, <3>4, <4>1 DEF SentOnly
      <4>2. CASE i \notin 1 .. Len(toPi)
        <5>1. toPi'[i][3] = host.pos + 1  BY <1>5, <1>9, <4>2
        <5> QED  BY <1>3, <3>1, <5>1
      <4> QED  BY <4>1, <4>2
    <3>5. ASSUME NEW i \in 1 .. Len(pi.size), OfCall(pi.size[i], "size", calls)  PROVE pi.size[i][3] <= host'.pos
      BY <2>1, <3>2, <3>3, <3>5 DEF SentOnly
    <3> QED  BY <3>4, <3>5
  <2> QED  BY <1>2, <2>1, <2>2, <2>3 DEF Waiting, SentOnly
<1>17. InTime'  BY <1>7 DEF InTime, BeforeOK
<1>18. Answered'
  <2> SUFFICES ASSUME Unspoilt, pi.pc # "size", pi.size = SizeOf(calls)  PROVE FALSE
    BY <1>2, <1>10 DEF Answered
  <2> QED  BY <1>2, <1>12 DEF LoadKept, Answered, BeforeOK
<1>19. Ended'
  <2> SUFFICES ASSUME NEW call \in 1 .. calls, Over(call)'
               PROVE  /\ pi.pc = "size" => NothingOf(call, toPi') /\ NothingOf(call, pi.size)
                      /\ pi.pc # "size" /\ pi.size = SizeOf(call) => Loaded(call)
    BY <1>2 DEF Ended, Loaded
  <2>1. Over(call) /\ call # calls  BY <1>2, <1>10 DEF Over
  <2>2. /\ pi.pc = "size" => NothingOf(call, toPi) /\ NothingOf(call, pi.size)
        /\ pi.pc # "size" /\ pi.size = SizeOf(call) => Loaded(call)
    BY <1>12, <2>1 DEF LoadKept, Ended
  <2>3. ASSUME pi.pc = "size", NEW i \in 1 .. Len(toPi')  PROVE ~OfCall(toPi'[i], "size", call)
    <3>1. CASE i \in 1 .. Len(toPi)  BY <1>8, <2>2, <2>3, <3>1 DEF NothingOf
    <3>2. CASE i \notin 1 .. Len(toPi)  BY <1>5, <1>9, <2>1, <3>2 DEF OfCall
    <3> QED  BY <3>1, <3>2
  <2> QED  BY <2>2, <2>3 DEF NothingOf
<1> QED  BY <1>13, <1>14, <1>15, <1>16, <1>17, <1>18, <1>19 DEF LoadKept

(* The host sends a byte of the file.                                      *)
LEMMA SendKernelKeepsLoad == ASSUME LoadInv, SelectFound, SendKernel PROVE LoadInv'
<1> DEFINE byte == <<"file", calls, host.pos + 1>>
<1>1. LoadTypes  BY DEF LoadInv
<1>2. /\ host.pc = "sendKernel" /\ UNCHANGED <<pi, toHost, calls, failed, resets, met>>
      /\ Written(FileOf(calls)[host.pos + 1])
      /\ Step("sendKernel", Len(FileOf(calls)), "jump")
  BY DEF SendKernel, Sends, counts
<1>3. Calling /\ calls \in Nat /\ calls >= 1 /\ calls \in 1 .. calls /\ host.pos \in 0 .. FileLength - 1
  BY <1>1, <1>2 DEF LoadTypes, Calling
<1>4. FileOf(calls)[host.pos + 1] = byte /\ Len(FileOf(calls)) = FileLength
  <2>1. host.pos + 1 \in 1 .. FileLength  BY <1>3, LineAssumption
  <2> QED  BY <2>1, LineAssumption DEF FileOf
<1>5. byte \in Bytes /\ byte[1] = "file" /\ byte[2] = calls
  BY <1>3 DEF Bytes
<1>6. /\ toPi' = toPi \/ toPi' = Append(toPi, byte)
      /\ pi.pc = "kernel" /\ pi.out = << >> => toPi' = Append(toPi, byte)
  BY <1>2, <1>4 DEF Written, PiReads
<1>7. /\ \/ host.pos + 1 = FileLength /\ host'.pc = "jump" /\ host'.pos = 0
         \/ host.pos + 1 # FileLength /\ host'.pc = "sendKernel" /\ host'.pos = host.pos + 1
      /\ host'.scan = host.scan /\ host'.breaks = host.breaks
  BY <1>2, <1>4 DEF Step, SelectFound
<1>8. toPi \in Seq(Bytes) /\ Len(toPi) \in Nat  BY <1>1 DEF LoadTypes
<1>9. Calling' /\ Unspoilt' = Unspoilt  BY <1>2, <1>3, <1>7 DEF Calling, Unspoilt
<1> HIDE DEF byte
<1>10. LoadTypes'
  <2>1. host'.pc = "sendKernel" => host'.pos \in 0 .. FileLength - 1  BY <1>3, <1>7, LineAssumption
  <2>2. toPi' \in Seq(Bytes) /\ CallsKnown(toPi)'
    <3>1. CallsKnown(toPi)  BY <1>1 DEF LoadTypes
    <3>2. CASE toPi' = toPi  BY <1>2, <1>8, <3>1, <3>2 DEF CallsKnown
    <3>3. CASE toPi' = Append(toPi, byte)
      <4>1. /\ toPi' \in Seq(Bytes) /\ Len(toPi') = Len(toPi) + 1 /\ toPi'[Len(toPi) + 1] = byte
            /\ \A i \in 1 .. Len(toPi) : toPi'[i] = toPi[i]
        BY <1>5, <1>8, <3>3, AppendIs
      <4>2. ASSUME NEW i \in 1 .. Len(toPi'), toPi'[i][1] # "typed"  PROVE toPi'[i][2] \in 1 .. calls
        <5>1. CASE i = Len(toPi) + 1  BY <1>3, <1>5, <4>1, <5>1
        <5>2. CASE i # Len(toPi) + 1
          <6>1. i \in 1 .. Len(toPi)  BY <1>8, <4>1, <5>2
          <6> QED  BY <3>1, <4>1, <4>2, <6>1 DEF CallsKnown
        <5> QED  BY <5>1, <5>2
      <4> QED  BY <1>2, <4>1, <4>2 DEF CallsKnown
    <3> QED  BY <1>6, <3>2, <3>3
  <2> QED  BY <1>1, <1>2, <1>3, <1>7, <1>9, <2>1, <2>2 DEF LoadTypes, CallsKnown
<1> SUFFICES ASSUME ~met, resets <= 1  PROVE LoadKept'
  BY <1>2, <1>10 DEF LoadInv
<1>11. LoadKept  BY DEF LoadInv
<1>12. Unspoilt => pi.pc # "size"  BY <1>2, <1>11 DEF LoadKept, InTime, BeforeOK
<1>13. FirstAsk'  BY <1>2, <1>3 DEF FirstAsk
<1>14. OnlyCall'
  <2> SUFFICES ASSUME resets = 0  PROVE OnlyCall'
    BY <1>2 DEF OnlyCall
  <2>1. /\ host.breaks = 0 /\ calls \notin failed
        /\ Without("break", pi.out) /\ Without("break", toHost) /\ Without("break", host.scan)
    BY <1>3, <1>11 DEF LoadKept, OnlyCall
  <2>2. pi.pc # "size"  BY <1>3, <1>12, <2>1 DEF Unspoilt
  <2> QED  BY <1>2, <1>7, <2>1, <2>2 DEF OnlyCall
<1>15. NoOldK'  BY <1>2, <1>7, <1>11 DEF LoadKept, NoOldK
<1>16. Waiting' /\ InTime'  BY <1>2, <1>9, <1>12 DEF Waiting, InTime
<1>17. Answered'
  <2> SUFFICES ASSUME Unspoilt, pi.pc # "size", pi.size = SizeOf(calls)
               PROVE  \/ host'.pc = "sendKernel" /\ FileComes(host.pos)'
                      \/ host'.pc = "jump" /\ FileComes(FileLength)'
    BY <1>2, <1>7, <1>9 DEF Answered, FileComes
  <2>1. FileComes(host.pos)  BY <1>2, <1>11 DEF LoadKept, Answered, BeforeOK
  <2>2. /\ pi.pc = "kernel" /\ toHost = << >> /\ pi.out = << >>
        /\ Len(pi.loaded) + Len(toPi) = host.pos /\ pi.left = FileLength - Len(pi.loaded)
        /\ \A i \in 1 .. Len(pi.loaded) : pi.loaded[i] = <<"file", calls, i>>
        /\ \A i \in 1 .. Len(toPi) : toPi[i] = <<"file", calls, Len(pi.loaded) + i>>
    BY <2>1 DEF FileComes
  <2>3. Len(pi.loaded) \in Nat  BY <1>1 DEF LoadTypes
  <2>4. /\ Len(toPi') = Len(toPi) + 1 /\ toPi'[Len(toPi) + 1] = byte
        /\ \A i \in 1 .. Len(toPi) : toPi'[i] = toPi[i]
    BY <1>5, <1>6, <1>8, <2>2, AppendIs
  <2>5. Len(pi.loaded) + (Len(toPi) + 1) = host.pos + 1
    <3>1. Len(pi.loaded) \in Int /\ Len(toPi) \in Int /\ host.pos \in Int  BY <1>3, <1>8, <2>3
    <3> QED  BY <2>2, <3>1, OneMore
  <2>6. byte = <<"file", calls, Len(pi.loaded) + (Len(toPi) + 1)>>  BY <2>5 DEF byte
  <2>7. ASSUME NEW i \in 1 .. Len(toPi')  PROVE toPi'[i] = <<"file", calls, Len(pi.loaded) + i>>
    <3>1. CASE i = Len(toPi) + 1  BY <2>4, <2>6, <3>1
    <3>2. CASE i # Len(toPi) + 1
      <4>1. i \in 1 .. Len(toPi)  BY <1>8, <2>4, <3>2
      <4> QED  BY <2>2, <2>4, <4>1
    <3> QED  BY <3>1, <3>2
  <2>8. Len(pi.loaded) + Len(toPi') = host.pos + 1  BY <2>4, <2>5
  <2> QED  BY <1>2, <1>7, <2>2, <2>7, <2>8 DEF FileComes
<1>18. Ended'
  <2> SUFFICES ASSUME NEW call \in 1 .. calls, Over(call)'
               PROVE  /\ pi.pc = "size" => NothingOf(call, toPi') /\ NothingOf(call, pi.size)
                      /\ pi.pc # "size" /\ pi.size = SizeOf(call) => Loaded(call)
    BY <1>2 DEF Ended, Loaded
  <2>1. Over(call) /\ call # calls  BY <1>2, <1>3, <1>9 DEF Over
  <2>2. /\ pi.pc = "size" => NothingOf(call, toPi) /\ NothingOf(call, pi.size)
        /\ pi.pc # "size" /\ pi.size = SizeOf(call) => Loaded(call)
    BY <1>11, <2>1 DEF LoadKept, Ended
  <2>3. NothingOf(call, toPi) => NothingOf(call, toPi')
    <3>1. CASE toPi' = toPi  BY <3>1
    <3>2. CASE toPi' = Append(toPi, byte)
      <4>1. /\ Len(toPi') = Len(toPi) + 1 /\ toPi'[Len(toPi) + 1] = byte
            /\ \A i \in 1 .. Len(toPi) : toPi'[i] = toPi[i]
        BY <1>5, <1>8, <3>2, AppendIs
      <4>2. \A i \in 1 .. Len(toPi') : i = Len(toPi) + 1 \/ i \in 1 .. Len(toPi)  BY <1>8, <4>1
      <4>3. ~OfCall(byte, "size", call)  BY <1>5 DEF OfCall
      <4> QED  BY <4>1, <4>2, <4>3 DEF NothingOf
    <3> QED  BY <1>6, <3>1, <3>2
  <2> QED  BY <2>2, <2>3
<1> QED  BY <1>13, <1>14, <1>15, <1>16, <1>17, <1>18 DEF LoadKept

(* The host reads a byte of an answer, or reads none: what it has yet to   *)
(* read is shorter.                                                        *)
LEMMA AnswerReadKeepsLoad ==
  ASSUME LoadInv, UNCHANGED <<pi, toPi, calls, failed, resets, met>>,
         Shorter(toHost, toHost'), host'.scan = host.scan, host'.breaks = host.breaks,
         host.pc \in BeforeOK, host'.pc \in BeforeOK,
         host'.pc \in {"space1", "space2", "O", "K", "notO"} => host'.pos = 0
  PROVE  LoadInv'
<1>1. LoadTypes  BY DEF LoadInv
<1>2. Calling /\ Calling' /\ Unspoilt' = Unspoilt  BY DEF BeforeOK, Calling, Unspoilt
<1>3. /\ host.pc \notin {"sendSize", "sendKernel", "jump"} /\ host'.pc \notin {"sendSize", "sendKernel", "jump"}
      /\ calls \in Nat /\ calls >= 1 /\ toHost \in Seq(Printed) /\ toHost' \in Seq(Printed) /\ calls \in 1 .. calls
  BY <1>1, <1>2, ShorterIs DEF BeforeOK, LoadTypes
<1>4. LoadTypes'  BY <1>1, <1>2, <1>3 DEF LoadTypes, CallsKnown
<1> SUFFICES ASSUME ~met, resets <= 1  PROVE LoadKept'
  BY <1>4 DEF LoadInv
<1>5. LoadKept  BY DEF LoadInv
<1>6. FirstAsk'  BY <1>3 DEF FirstAsk
<1>7. OnlyCall'
  <2> SUFFICES ASSUME resets = 0, calls > 0  PROVE OnlyCall'
    BY DEF OnlyCall
  <2>1. Without("break", toHost')  BY <1>3, <1>5, ShorterWithout DEF LoadKept, OnlyCall
  <2> QED  BY <1>2, <1>3, <1>5, <2>1 DEF LoadKept, OnlyCall, SizeComes
<1>8. NoOldK'
  <2>1. Shorter(host.scan, host'.scan)  BY DEF Shorter
  <2> QED  BY <1>1, <1>5, <2>1, QuietKeepsNoOldK DEF LoadKept
<1>9. Waiting'
  <2> SUFFICES ASSUME Unspoilt, pi.pc = "size"  PROVE Waiting'
    BY <1>2 DEF Waiting
  <2>1. Without("K", toHost')  BY <1>3, <1>5, ShorterWithout DEF LoadKept, Waiting
  <2> QED  BY <1>3, <1>5, <2>1 DEF LoadKept, Waiting
<1>10. InTime'  BY DEF InTime
<1>11. Answered'
  <2> SUFFICES ASSUME Unspoilt, pi.pc # "size", pi.size = SizeOf(calls)  PROVE Answered'
    BY <1>2 DEF Answered
  <2>1. pi.pc = "kernel" /\ toPi = << >> /\ pi.loaded = << >> /\ pi.left = FileLength /\ KLast
    BY <1>3, <1>5 DEF LoadKept, Answered
  <2>2. KLast'
    <3>1. PICK d \in 0 .. 1 :
            \A i \in 1 .. Len(toHost') : i + d \in 1 .. Len(toHost) /\ toHost'[i] = toHost[i + d] /\ Len(toHost') + d = Len(toHost)
      BY <1>3, ShorterIs
    <3>2. ASSUME NEW i \in 1 .. Len(toHost'), toHost'[i] = "K"  PROVE i = Len(toHost') /\ pi.out = << >>
      <4>1. i + d \in 1 .. Len(toHost) /\ toHost[i + d] = "K" /\ Len(toHost') + d = Len(toHost)  BY <3>1, <3>2
      <4>2. i + d = Len(toHost) /\ pi.out = << >>  BY <2>1, <4>1 DEF KLast
      <4>3. Len(toHost') \in Nat  BY <1>3
      <4> QED  BY <4>1, <4>2, <4>3
    <3> QED  BY <2>1, <3>2 DEF KLast
  <2> QED  BY <2>1, <2>2 DEF Answered
<1>12. Ended'  BY <1>2, <1>5 DEF LoadKept, Ended, Over, Loaded
<1> QED  BY <1>6, <1>7, <1>8, <1>9, <1>10, <1>11, <1>12 DEF LoadKept

(* The last letter of OK: nothing else is on the line in either direction. *)
LEMMA OKReadKeepsLoad ==
  ASSUME LoadInv, UNCHANGED <<pi, toPi, calls, failed, resets, met>>,
         toHost # << >>, Head(toHost) = "K", toHost' = Tail(toHost),
         host'.scan = host.scan, host'.breaks = host.breaks, host'.pos = host.pos,
         host.pc = "K", host'.pc = "sendKernel"
  PROVE  LoadInv'
<1>1. LoadTypes  BY DEF LoadInv
<1>2. Calling /\ Calling' /\ Unspoilt' = Unspoilt  BY DEF Calling, Unspoilt
<1>3. /\ host.pos = 0 /\ calls \in Nat /\ calls >= 1 /\ toHost \in Seq(Printed) /\ calls \in 1 .. calls
  BY <1>1, <1>2 DEF LoadTypes
<1>4. /\ toHost' \in Seq(Printed) /\ Shorter(toHost, toHost')
      /\ Len(toHost) \in Nat \ {0} /\ 1 \in 1 .. Len(toHost) /\ toHost[1] = "K" /\ Len(toHost') = Len(toHost) - 1
  BY <1>3, TailIs DEF Shorter
<1>5. LoadTypes'
  <2>1. 0 \in 0 .. FileLength - 1  BY LineAssumption
  <2> QED  BY <1>1, <1>2, <1>3, <1>4, <2>1 DEF LoadTypes, CallsKnown
<1> SUFFICES ASSUME ~met, resets <= 1  PROVE LoadKept'
  BY <1>5 DEF LoadInv
<1>6. LoadKept  BY DEF LoadInv
<1>7. FirstAsk'  BY <1>3 DEF FirstAsk
<1>8. Unspoilt => pi.pc # "size"  BY <1>4, <1>6 DEF LoadKept, Waiting, Without
<1>9. OnlyCall'
  <2> SUFFICES ASSUME resets = 0, calls > 0  PROVE OnlyCall'
    BY DEF OnlyCall
  <2>1. Without("break", toHost')  BY <1>3, <1>4, <1>6, ShorterWithout DEF LoadKept, OnlyCall
  <2>2. calls \notin failed  BY <1>2, <1>6 DEF LoadKept, OnlyCall
  <2>3. pi.pc # "size"  BY <1>2, <1>8, <2>2 DEF Unspoilt
  <2> QED  BY <1>6, <2>1, <2>2, <2>3 DEF LoadKept, OnlyCall
<1>10. NoOldK'
  <2>1. Shorter(host.scan, host'.scan)  BY DEF Shorter
  <2> QED  BY <1>1, <1>4, <1>6, <2>1, QuietKeepsNoOldK DEF LoadKept
<1>11. Waiting' /\ InTime'  BY <1>2, <1>8 DEF Waiting, InTime
<1>12. Answered'
  <2> SUFFICES ASSUME Unspoilt, pi.pc # "size", pi.size = SizeOf(calls)  PROVE Answered'
    BY <1>2 DEF Answered
  <2>1. pi.pc = "kernel" /\ toPi = << >> /\ pi.loaded = << >> /\ pi.left = FileLength /\ KLast
    BY <1>6 DEF LoadKept, Answered
  <2>2. 1 = Len(toHost) /\ pi.out = << >>  BY <1>4, <2>1 DEF KLast
  <2>3. toHost' = << >>  BY <1>4, <2>2
  <2>4. Len(pi.loaded) = 0 /\ Len(toPi) = 0 /\ FileLength - 0 = FileLength  BY <2>1, LineAssumption
  <2>5. FileComes(host.pos)'  BY <1>3, <2>1, <2>2, <2>3, <2>4 DEF FileComes
  <2> QED  BY <2>5 DEF Answered
<1>13. Ended'  BY <1>2, <1>6 DEF LoadKept, Ended, Over, Loaded
<1> QED  BY <1>7, <1>9, <1>10, <1>11, <1>12, <1>13 DEF LoadKept

(* What the Pi prints when it jumps: the call ends when it jumped.         *)
LEMMA JumpReadKeepsLoad ==
  ASSUME LoadInv, UNCHANGED <<pi, toPi, calls, failed, resets, met>>,
         toHost # << >>, toHost' = Tail(toHost),
         host'.scan = host.scan, host'.breaks = host.breaks,
         host.pc = "jump", host'.pc \in {"jump", "loop"}
  PROVE  LoadInv'
<1>1. LoadTypes  BY DEF LoadInv
<1>2. Calling /\ (Unspoilt' => Unspoilt)  BY DEF Calling, Unspoilt
<1>3. /\ calls \in Nat /\ calls >= 1 /\ toHost \in Seq(Printed) /\ calls \in 1 .. calls
  BY <1>1, <1>2 DEF LoadTypes
<1>4. toHost' \in Seq(Printed) /\ Shorter(toHost, toHost')  BY <1>3, TailIs DEF Shorter
<1>5. LoadTypes'  BY <1>1, <1>2, <1>3, <1>4 DEF LoadTypes, CallsKnown, BeforeOK
<1> SUFFICES ASSUME ~met, resets <= 1  PROVE LoadKept'
  BY <1>5 DEF LoadInv
<1>6. LoadKept  BY DEF LoadInv
<1>7. FirstAsk'  BY <1>3 DEF FirstAsk
<1>8. calls \notin failed => pi.pc # "size" /\ (pi.size = SizeOf(calls) => Loaded(calls))
  BY <1>2, <1>6 DEF LoadKept, InTime, Answered, BeforeOK, FileComes, Unspoilt
<1>9. OnlyCall'
  <2> SUFFICES ASSUME resets = 0, calls > 0  PROVE OnlyCall'
    BY DEF OnlyCall
  <2>1. Without("break", toHost')  BY <1>3, <1>4, <1>6, ShorterWithout DEF LoadKept, OnlyCall
  <2>2. calls \notin failed  BY <1>2, <1>6 DEF LoadKept, OnlyCall
  <2> QED  BY <1>6, <1>8, <2>1, <2>2 DEF LoadKept, OnlyCall
<1>10. NoOldK'
  <2>1. Shorter(host.scan, host'.scan)  BY DEF Shorter
  <2> QED  BY <1>1, <1>4, <1>6, <2>1, QuietKeepsNoOldK DEF LoadKept
<1>11. Waiting' /\ InTime'  BY <1>2, <1>8 DEF Waiting, InTime, Unspoilt
<1>12. Answered'
  <2> SUFFICES ASSUME Unspoilt', pi.pc # "size", pi.size = SizeOf(calls)  PROVE Answered'
    BY DEF Answered
  <2>1. Loaded(calls)'  BY <1>2, <1>8 DEF Unspoilt, Loaded
  <2>2. host'.pc = "jump"  BY DEF Unspoilt, Calling
  <2> QED  BY <2>1, <2>2 DEF Answered
<1>13. Ended'
  <2> SUFFICES ASSUME NEW call \in 1 .. calls, Over(call)'
               PROVE  /\ pi.pc = "size" => NothingOf(call, toPi) /\ NothingOf(call, pi.size)
                      /\ pi.pc # "size" /\ pi.size = SizeOf(call) => Loaded(call)
    BY DEF Ended, Loaded
  <2>1. CASE call = calls  BY <1>8, <2>1 DEF Over
  <2>2. CASE call # calls  BY <1>6, <2>2 DEF LoadKept, Ended, Over
  <2> QED  BY <2>1, <2>2
<1> QED  BY <1>7, <1>9, <1>10, <1>11, <1>12, <1>13 DEF LoadKept

LEMMA CallKeepsLoad == ASSUME LoadInv, SelectFound, Call PROVE LoadInv'
<1>1. CASE SendSize  BY <1>1, SendSizeKeepsLoad
<1>2. CASE SendKernel  BY <1>2, SendKernelKeepsLoad
<1>3. CASE WriteFails  BY <1>3, do_exitKeepsLoad DEF WriteFails, line, Shorter
<1>4. ASSUME NEW part \in {"first", "second"}, NEW next \in {"space1", "space2"}, Reads(part, Digits, next)
      PROVE  LoadInv'
  <2>1. /\ UNCHANGED <<pi, toPi, calls, failed, resets, met>> /\ host.pc = part
        /\ Shorter(toHost, toHost') /\ Step(part, Digits, next)
    BY <1>4 DEF Reads, counts, Shorter
  <2>2. /\ host'.scan = host.scan /\ host'.breaks = host.breaks
        /\ (host'.pc = next /\ host'.pos = 0) \/ host'.pc = part
    BY <2>1 DEF Step, SelectFound
  <2> QED  BY <2>1, <2>2, AnswerReadKeepsLoad DEF BeforeOK
<1>5. ASSUME NEW part \in {"space1", "space2"}, NEW next \in {"second", "O"}, ReadsOne(part, next)
      PROVE  LoadInv'
  <2>1. /\ UNCHANGED <<pi, toPi, calls, failed, resets, met>> /\ host.pc = part
        /\ Shorter(toHost, toHost') /\ host' = [host EXCEPT !.pc = next]
    BY <1>5 DEF ReadsOne, counts, Shorter
  <2>2. host'.scan = host.scan /\ host'.breaks = host.breaks /\ host'.pc = next /\ host'.pos = host.pos
    BY <2>1 DEF SelectFound
  <2>3. host.pos = 0  BY <2>1 DEF LoadInv, LoadTypes
  <2> QED  BY <2>1, <2>2, <2>3, AnswerReadKeepsLoad DEF BeforeOK
<1>6. CASE ReadsO
  <2>1. /\ UNCHANGED <<pi, toPi, calls, failed, resets, met>> /\ host.pc = "O" /\ Shorter(toHost, toHost')
        /\ \E next \in {"K", "notO"} : host' = [host EXCEPT !.pc = next]
    BY <1>6 DEF ReadsO, Shorter, counts
  <2>2. /\ host'.scan = host.scan /\ host'.breaks = host.breaks /\ host'.pc \in {"K", "notO"}
        /\ host'.pos = host.pos
    BY <2>1 DEF SelectFound
  <2>3. host.pos = 0  BY <2>1 DEF LoadInv, LoadTypes
  <2> QED  BY <2>1, <2>2, <2>3, AnswerReadKeepsLoad DEF BeforeOK
<1>7. CASE ReadsK
  <2>1. /\ UNCHANGED <<pi, toPi, calls, resets, met>> /\ toHost # << >> /\ toHost' = Tail(toHost)
        /\ \/ /\ host.pc = "K" /\ Head(toHost) = "K"
              /\ host' = [host EXCEPT !.pc = "sendKernel"] /\ UNCHANGED failed
           \/ do_exit
    BY <1>7 DEF ReadsK
  <2>2. CASE host.pc = "K" /\ Head(toHost) = "K" /\ host' = [host EXCEPT !.pc = "sendKernel"] /\ UNCHANGED failed
    <3>1. host'.scan = host.scan /\ host'.breaks = host.breaks /\ host'.pc = "sendKernel" /\ host'.pos = host.pos
      BY <2>2 DEF SelectFound
    <3> QED  BY <2>1, <2>2, <3>1, OKReadKeepsLoad
  <2>3. CASE do_exit  BY <2>1, <2>3, do_exitKeepsLoad DEF Shorter
  <2> QED  BY <2>1, <2>2, <2>3
<1>8. CASE ReadJump
  <2>1. /\ UNCHANGED <<pi, toPi, calls, failed, resets, met>> /\ host.pc = "jump"
        /\ toHost # << >> /\ toHost' = Tail(toHost) /\ Step("jump", 4, "loop")
    BY <1>8 DEF ReadJump, Reads, counts
  <2>2. host'.scan = host.scan /\ host'.breaks = host.breaks /\ host'.pc \in {"jump", "loop"}
    BY <2>1 DEF Step, SelectFound
  <2> QED  BY <2>1, <2>2, JumpReadKeepsLoad
<1>9. CASE ReadAnswer  BY <1>4, <1>5, <1>6, <1>7, <1>9 DEF ReadAnswer
<1> QED  BY <1>1, <1>2, <1>3, <1>8, <1>9 DEF Call

(* The Pi prints a byte; without a device it is lost.                      *)
LEMMA Moved ==
  \A h, o, t, i, o2, t2 \in Int :
    o2 = o - 1 /\ t2 = t + 1 /\ h + o + t - i <= 2 => h + o2 + t2 - i <= 2
OBVIOUS

LEMMA Arrived ==
  \A h, o, o2, t2 \in Int : o2 = o - 1 /\ h + o - 1 <= 2 => h + o2 + t2 - t2 <= 2
OBVIOUS

LEMMA NotMore ==
  \A h, o, t, o2, t2 \in Nat : o2 = o - 1 /\ t2 \in {t, t + 1} =>
    /\ h + o + t \in Nat /\ h + o2 + t2 \in Nat /\ h + o2 + t2 <= h + o + t
    /\ h + o \in Nat /\ h + o2 \in Nat /\ h + o2 <= h + o
OBVIOUS

LEMMA uart_putcKeepsLoad == ASSUME LoadInv, uart_putc PROVE LoadInv'
<1>1. LoadTypes  BY DEF LoadInv
<1>2. /\ pi.out # << >> /\ pi' = [pi EXCEPT !.out = Tail(@)]
      /\ toHost' = toHost \/ toHost' = Append(toHost, Head(pi.out))
      /\ UNCHANGED <<toPi, host, calls, failed, resets, met>>
  BY DEF uart_putc
<1>3. /\ toHost \in Seq(Printed) /\ pi.out \in Seq(Printed) /\ host.scan \in Seq(Printed)
      /\ Len(toHost) \in Nat /\ host.breaks \in 0 .. 2 /\ host.breaks \in Nat
  BY <1>1 DEF LoadTypes
<1>4. /\ pi'.pc = pi.pc /\ pi'.size = pi.size /\ pi'.loaded = pi.loaded /\ pi'.left = pi.left
      /\ pi'.out = Tail(pi.out)
  BY <1>1, <1>2 DEF LoadTypes
<1>5. /\ Len(pi.out) \in Nat \ {0} /\ Head(pi.out) = pi.out[1] /\ pi.out[1] \in Printed /\ 1 \in 1 .. Len(pi.out)
      /\ pi'.out \in Seq(Printed) /\ Len(pi'.out) \in Nat /\ Len(pi'.out) = Len(pi.out) - 1
      /\ \A i \in 1 .. Len(pi'.out) : i + 1 \in 1 .. Len(pi.out) /\ pi'.out[i] = pi.out[i + 1]
  BY <1>2, <1>3, <1>4, TailIs
<1>6. /\ toHost' \in Seq(Printed) /\ Len(toHost') \in Nat /\ Len(toHost') \in {Len(toHost), Len(toHost) + 1}
      /\ \A i \in 1 .. Len(toHost) : toHost'[i] = toHost[i]
      /\ \A i \in 1 .. Len(toHost') : i \in 1 .. Len(toHost)
                                      \/ (i = Len(toHost') /\ Len(toHost') = Len(toHost) + 1 /\ toHost'[i] = pi.out[1])
  <2>1. CASE toHost' = toHost  BY <1>3, <2>1
  <2>2. CASE toHost' = Append(toHost, Head(pi.out))
    <3>1. /\ toHost' \in Seq(Printed) /\ Len(toHost') = Len(toHost) + 1 /\ toHost'[Len(toHost) + 1] = pi.out[1]
          /\ \A i \in 1 .. Len(toHost) : toHost'[i] = toHost[i]
      BY <1>3, <1>5, <2>2, AppendIs
    <3> QED  BY <1>3, <3>1
  <2> QED  BY <1>2, <2>1, <2>2
<1>7. Calling' = Calling /\ Unspoilt' = Unspoilt  BY <1>2 DEF Calling, Unspoilt
<1>8. LoadTypes'
  <2>1. pi' \in [pc : {"size", "kernel", "running"}, out : Seq(Printed), size : Seq(Bytes), left : Int, loaded : Seq(Bytes)]
    BY <1>1, <1>2, <1>4, <1>5 DEF LoadTypes
  <2> QED  BY <1>1, <1>2, <1>4, <1>6, <1>7, <2>1 DEF LoadTypes, CallsKnown
<1> SUFFICES ASSUME ~met, resets <= 1  PROVE LoadKept'
  BY <1>2, <1>8 DEF LoadInv
<1>9. LoadKept  BY DEF LoadInv
<1>10. FirstAsk'
  <2> SUFFICES ASSUME resets = 0, calls = 0  PROVE FirstAsk'
    BY <1>2 DEF FirstAsk
  <2>1. /\ pi.pc = "size" /\ pi.size = << >>
        /\ \A i \in 1 .. Len(toPi) : toPi[i][1] = "typed"
        /\ BreaksBehind(pi.out, host.breaks)
        /\ BreaksBehind(toHost, host.breaks + Len(pi.out))
        /\ BreaksBehind(host.scan, host.breaks + Len(pi.out) + Len(toHost))
    BY <1>9 DEF LoadKept, FirstAsk
  <2>2. /\ host.breaks + Len(pi.out) + Len(toHost) \in Nat /\ host.breaks + Len(pi'.out) + Len(toHost') \in Nat
        /\ host.breaks + Len(pi'.out) + Len(toHost') <= host.breaks + Len(pi.out) + Len(toHost)
        /\ host.breaks + Len(pi.out) \in Nat /\ host.breaks + Len(pi'.out) \in Nat
        /\ host.breaks + Len(pi'.out) <= host.breaks + Len(pi.out)
    BY <1>3, <1>5, <1>6, NotMore
  <2>3. BreaksBehind(pi'.out, host.breaks)
    <3>1. Shorter(pi.out, pi'.out)  BY <1>2, <1>4 DEF Shorter
    <3> QED  BY <1>3, <2>1, <3>1, ShorterBehind
  <2>4. BreaksBehind(host.scan, host.breaks + Len(pi'.out) + Len(toHost'))
    BY <1>3, <2>1, <2>2, ShorterBehind DEF Shorter
  <2>5. BreaksBehind(toHost', host.breaks + Len(pi'.out))
    <3>1. CASE toHost' = toHost
      <4>1. BreaksBehind(toHost, host.breaks + Len(pi'.out))  BY <1>3, <2>1, <2>2, ShorterBehind DEF Shorter
      <4> QED  BY <3>1, <4>1
    <3>2. CASE toHost' = Append(toHost, Head(pi.out))
      <4>1. /\ Len(toHost') = Len(toHost) + 1
            /\ host.breaks \in Int /\ Len(pi.out) \in Int /\ Len(toHost) \in Int
            /\ Len(pi'.out) \in Int /\ Len(toHost') \in Int
        BY <1>3, <1>5, <1>6, <3>2, AppendIs
      <4>2. ASSUME NEW i \in 1 .. Len(toHost), toHost[i] = "break"
            PROVE  host.breaks + Len(pi'.out) + Len(toHost') - i <= 2
        <5>1. host.breaks + Len(pi.out) + Len(toHost) - i <= 2  BY <2>1, <4>2 DEF BreaksBehind
        <5>2. i \in Int  BY <4>1
        <5> QED  BY <1>5, <4>1, <5>1, <5>2, Moved
      <4>3. pi.out[1] = "break" => host.breaks + Len(pi'.out) + Len(toHost') - Len(toHost') <= 2
        <5>1. pi.out[1] = "break" => host.breaks + Len(pi.out) - 1 <= 2  BY <1>5, <2>1 DEF BreaksBehind
        <5> QED  BY <1>5, <4>1, <5>1, Arrived
      <4>4. pi.out[1] # "K" /\ \A i \in 1 .. Len(toHost) : toHost[i] # "K"  BY <1>5, <2>1 DEF BreaksBehind
      <4> QED  BY <1>6, <4>2, <4>3, <4>4 DEF BreaksBehind
    <3> QED  BY <1>2, <3>1, <3>2
  <2> QED  BY <1>2, <1>4, <2>1, <2>3, <2>4, <2>5 DEF FirstAsk
<1>11. \A x : Without(x, pi.out) => Without(x, pi'.out) /\ (Without(x, toHost) => Without(x, toHost'))
  BY <1>5, <1>6 DEF Without
<1>12. OnlyCall'
  <2> SUFFICES ASSUME resets = 0, calls > 0  PROVE OnlyCall'
    BY <1>2 DEF OnlyCall
  <2>1. /\ host.breaks = 0 /\ (Calling => calls \notin failed)
        /\ Without("break", pi.out) /\ Without("break", toHost) /\ Without("break", host.scan)
    BY <1>9 DEF LoadKept, OnlyCall
  <2>2. pi.pc # "size"  BY <1>2, <1>9 DEF LoadKept, OnlyCall
  <2> QED  BY <1>2, <1>4, <1>7, <1>11, <2>1, <2>2 DEF OnlyCall
<1>13. NoOldK'
  <2> SUFFICES ASSUME pi.pc = "size"  PROVE NoOldK'
    BY <1>4 DEF NoOldK
  <2>1. /\ Without("K", pi.out) /\ KFirst(toHost, host.breaks) /\ KFirst(host.scan, host.breaks)
        /\ Without("K", toHost) \/ Without("break", host.scan)
    BY <1>9 DEF LoadKept, NoOldK
  <2>2. KFirst(toHost', host.breaks)
    <3>1. ASSUME NEW i \in 1 .. Len(toHost'), toHost'[i] = "K"
          PROVE  host.breaks = 0 /\ \A j \in 1 .. i : toHost'[j] # "break"
      <4>1. i \in 1 .. Len(toHost)  BY <1>5, <1>6, <2>1, <3>1 DEF Without
      <4>2. host.breaks = 0 /\ \A j \in 1 .. i : toHost[j] # "break"  BY <1>6, <2>1, <3>1, <4>1 DEF KFirst
      <4>3. \A j \in 1 .. i : j \in 1 .. Len(toHost)  BY <1>3, <4>1
      <4> QED  BY <1>6, <4>2, <4>3
    <3> QED  BY <3>1 DEF KFirst
  <2> QED  BY <1>2, <1>4, <1>11, <2>1, <2>2 DEF NoOldK
<1>14. Waiting'
  <2> SUFFICES ASSUME Unspoilt, pi.pc = "size"  PROVE Waiting'
    BY <1>4, <1>7 DEF Waiting
  <2>1. Without("K", toHost')  BY <1>9, <1>11 DEF LoadKept, Waiting, NoOldK
  <2> QED  BY <1>2, <1>4, <1>9, <2>1 DEF LoadKept, Waiting, SentOnly
<1>15. InTime'  BY <1>2, <1>4, <1>7, <1>9 DEF LoadKept, InTime
<1>16. Answered'
  <2> SUFFICES ASSUME Unspoilt, pi.pc # "size", pi.size = SizeOf(calls)  PROVE Answered'
    BY <1>2, <1>4, <1>7 DEF Answered
  <2>1. CASE host.pc \in BeforeOK
    <3>1. pi.pc = "kernel" /\ toPi = << >> /\ pi.loaded = << >> /\ pi.left = FileLength /\ KLast
      BY <1>9, <2>1 DEF LoadKept, Answered, BeforeOK
    <3>2. ASSUME NEW i \in 1 .. Len(pi'.out), pi'.out[i] = "K"  PROVE i = Len(pi'.out)
      <4>1. i + 1 \in 1 .. Len(pi.out) /\ pi.out[i + 1] = "K"  BY <1>5, <3>2
      <4>2. i + 1 = Len(pi.out)  BY <3>1, <4>1 DEF KLast
      <4> QED  BY <1>5, <4>2
    <3>3. ASSUME NEW i \in 1 .. Len(toHost'), toHost'[i] = "K"  PROVE i = Len(toHost') /\ pi'.out = << >>
      <4>1. i \notin 1 .. Len(toHost)  BY <1>2, <1>6, <3>1, <3>3 DEF KLast
      <4>2. i = Len(toHost') /\ pi.out[1] = "K"  BY <1>6, <3>3, <4>1
      <4>3. 1 = Len(pi.out)  BY <1>5, <3>1, <4>2 DEF KLast
      <4>4. Len(pi'.out) = 0  BY <1>5, <4>3
      <4> QED  BY <1>5, <4>2, <4>4
    <3> QED  BY <1>2, <1>4, <2>1, <3>1, <3>2, <3>3 DEF Answered, KLast
  <2>2. CASE host.pc \notin BeforeOK
    <3>1. host.pc = "jump" /\ Loaded(calls)  BY <1>2, <1>9, <2>2 DEF LoadKept, Answered, FileComes
    <3> QED  BY <1>2, <1>4, <3>1 DEF Answered, Loaded
  <2> QED  BY <2>1, <2>2
<1>17. Ended'  BY <1>2, <1>4, <1>7, <1>9 DEF LoadKept, Ended, Over, Loaded
<1> QED  BY <1>10, <1>12, <1>13, <1>14, <1>15, <1>16, <1>17 DEF LoadKept

(* A reset empties the Pi, and fails the call.                             *)
LEMMA ResetKeepsLoad == ASSUME LoadInv, Reset PROVE LoadInv'
<1>1. LoadTypes  BY DEF LoadInv
<1>2. /\ pi' = Start /\ toPi' = << >> /\ resets' = resets + 1
      /\ failed' = failed \cup IF Calling THEN {calls} ELSE {}
      /\ UNCHANGED <<toHost, host, calls, met>>
  BY DEF Reset
<1>3. /\ pi'.pc = "size" /\ pi'.out = Banner /\ pi'.size = << >> /\ pi'.left = 0 /\ pi'.loaded = << >>
  BY <1>2 DEF Start
<1>4. Calling' = Calling /\ ~Unspoilt'  BY <1>2 DEF Calling, Unspoilt
<1>5. resets \in Nat /\ calls \in Nat  BY <1>1 DEF LoadTypes
<1>6. LoadTypes'
  <2>1. pi' \in [pc : {"size", "kernel", "running"}, out : Seq(Printed), size : Seq(Bytes), left : Int, loaded : Seq(Bytes)]
    BY <1>2, BannerIs DEF Start
  <2>2. failed' \subseteq 1 .. calls  BY <1>1, <1>2 DEF LoadTypes
  <2> QED  BY <1>1, <1>2, <1>3, <1>4, <2>1, <2>2, LineAssumption DEF LoadTypes, CallsKnown
<1> SUFFICES ASSUME ~met, resets' <= 1  PROVE LoadKept'
  BY <1>2, <1>6 DEF LoadInv
<1>7. resets = 0 /\ resets' = 1  BY <1>2, <1>5
<1>8. LoadKept  BY <1>7 DEF LoadInv
<1>9. FirstAsk' /\ OnlyCall'  BY <1>7 DEF FirstAsk, OnlyCall
<1>10. NoOldK'
  <2>1. CASE calls = 0
    <3>1. Without("K", toHost) /\ Without("K", host.scan)  BY <1>7, <1>8, <2>1 DEF LoadKept, FirstAsk, BreaksBehind, Without
    <3> QED  BY <1>2, <1>3, <3>1, BannerIs DEF NoOldK, KFirst, Without
  <2>2. CASE calls # 0
    <3>1. host.breaks = 0 /\ Without("break", toHost) /\ Without("break", host.scan)
      BY <1>5, <1>7, <1>8, <2>2 DEF LoadKept, OnlyCall
    <3>2. /\ \A i \in 1 .. Len(toHost) : \A j \in 1 .. i : toHost[j] # "break"
          /\ \A i \in 1 .. Len(host.scan) : \A j \in 1 .. i : host.scan[j] # "break"
      <4>1. Len(toHost) \in Nat /\ Len(host.scan) \in Nat  BY <1>1 DEF LoadTypes
      <4>2. ASSUME NEW n \in Nat, NEW i \in 1 .. n, NEW j \in 1 .. i  PROVE j \in 1 .. n  OBVIOUS
      <4> QED  BY <3>1, <4>1, <4>2 DEF Without
    <3> QED  BY <1>2, <1>3, <3>1, <3>2, BannerIs DEF NoOldK, KFirst
  <2> QED  BY <2>1, <2>2
<1>11. Waiting' /\ InTime' /\ Answered'  BY <1>4 DEF Waiting, InTime, Answered
<1>12. Ended'  BY <1>2, <1>3 DEF Ended, NothingOf
<1> QED  BY <1>9, <1>10, <1>11, <1>12 DEF LoadKept

-----------------------------------------------------------------------------
(* The Pi takes a byte.  Until the size is complete it only keeps it.      *)
LEMMA ByteTaken ==
  ASSUME LoadTypes, toPi # << >>, toPi' = Tail(toPi)
  PROVE  /\ Len(toPi) \in Nat \ {0} /\ 1 \in 1 .. Len(toPi) /\ Head(toPi) = toPi[1] /\ toPi[1] \in Bytes
         /\ toPi' \in Seq(Bytes) /\ Len(toPi') \in Nat /\ Len(toPi') = Len(toPi) - 1
         /\ \A i \in 1 .. Len(toPi') : i + 1 \in 1 .. Len(toPi) /\ toPi'[i] = toPi[i + 1]
         /\ toPi[1][1] # "typed" => toPi[1][2] \in 1 .. calls
         /\ UNCHANGED calls => CallsKnown(toPi)'
<1>1. toPi \in Seq(Bytes) /\ CallsKnown(toPi)  BY DEF LoadTypes
<1>2. /\ Len(toPi) \in Nat \ {0} /\ 1 \in 1 .. Len(toPi) /\ Head(toPi) = toPi[1] /\ toPi[1] \in Bytes
      /\ toPi' \in Seq(Bytes) /\ Len(toPi') \in Nat /\ Len(toPi') = Len(toPi) - 1
      /\ \A i \in 1 .. Len(toPi') : i + 1 \in 1 .. Len(toPi) /\ toPi'[i] = toPi[i + 1]
  BY <1>1, TailIs
<1> QED  BY <1>1, <1>2 DEF CallsKnown

LEMMA SizeByteKeepsLoad ==
  ASSUME LoadInv, toPi # << >>, toPi' = Tail(toPi), pi.pc = "size", pi.out = << >>, Len(pi.size) + 1 < SizeBytes,
         pi' = [pi EXCEPT !.size = Append(@, Head(toPi))], met' = (met \/ Head(toPi)[1] = "typed"),
         UNCHANGED <<toHost, host, calls, failed, resets>>
  PROVE  LoadInv'
<1> DEFINE byte == toPi[1]
<1>1. LoadTypes  BY DEF LoadInv
<1>2. /\ Len(toPi) \in Nat \ {0} /\ 1 \in 1 .. Len(toPi) /\ Head(toPi) = byte /\ byte \in Bytes
      /\ toPi' \in Seq(Bytes) /\ Len(toPi') \in Nat /\ Len(toPi') = Len(toPi) - 1
      /\ \A i \in 1 .. Len(toPi') : i + 1 \in 1 .. Len(toPi) /\ toPi'[i] = toPi[i + 1]
      /\ byte[1] # "typed" => byte[2] \in 1 .. calls
      /\ CallsKnown(toPi)'
  BY <1>1, ByteTaken
<1> HIDE DEF byte
<1>3. pi.size \in Seq(Bytes) /\ Len(pi.size) \in Nat /\ CallsKnown(pi.size) /\ pi.loaded = << >>
  BY <1>1 DEF LoadTypes
<1>4. /\ pi'.pc = "size" /\ pi'.out = << >> /\ pi'.loaded = pi.loaded
      /\ pi'.size = Append(pi.size, byte)
  BY <1>1, <1>2 DEF LoadTypes
<1>5. /\ pi'.size \in Seq(Bytes) /\ Len(pi'.size) = Len(pi.size) + 1 /\ Len(pi'.size) \in Nat
      /\ pi'.size[Len(pi.size) + 1] = byte
      /\ \A i \in 1 .. Len(pi.size) : pi'.size[i] = pi.size[i]
  BY <1>2, <1>3, <1>4, AppendIs
<1>6. \A i \in 1 .. Len(pi'.size) : i \in 1 .. Len(pi.size) \/ (i = Len(pi.size) + 1 /\ pi'.size[i] = byte)
  BY <1>3, <1>5
<1>7. Calling' = Calling /\ Unspoilt' = Unspoilt  BY DEF Calling, Unspoilt
<1>8. LoadTypes'
  <2>1. pi' \in [pc : {"size", "kernel", "running"}, out : Seq(Printed), size : Seq(Bytes), left : Int, loaded : Seq(Bytes)]
    BY <1>1, <1>4, <1>5 DEF LoadTypes
  <2>2. CallsKnown(pi.size)'  BY <1>2, <1>3, <1>5, <1>6 DEF CallsKnown
  <2> QED  BY <1>1, <1>2, <1>3, <1>4, <1>5, <1>7, <2>1, <2>2 DEF LoadTypes
<1> SUFFICES ASSUME ~met', resets <= 1  PROVE LoadKept'
  BY <1>8 DEF LoadInv
<1>9. LoadKept /\ byte[1] # "typed"  BY <1>2 DEF LoadInv
<1>10. FirstAsk'
  <2>1. ~(resets = 0 /\ calls = 0)  BY <1>2, <1>9 DEF LoadKept, FirstAsk, byte
  <2> QED  BY <2>1 DEF FirstAsk
<1>11. OnlyCall'
  <2> SUFFICES ASSUME resets = 0, calls > 0  PROVE OnlyCall'
    BY DEF OnlyCall
  <2>1. /\ host.breaks = 0 /\ (Calling => calls \notin failed)
        /\ Without("break", pi.out) /\ Without("break", toHost) /\ Without("break", host.scan)
        /\ calls = 1
        /\ \A i \in 1 .. Len(pi.size) : pi.size[i] = <<"size", 1, i>>
        /\ \A n \in 1 .. Len(toPi) : SizeComes(n)
        /\ \/ host.pc # "sendSize"
           \/ \E j \in 1 .. Len(toPi) : toPi[j][1] = "typed"
           \/ Len(pi.size) + Len(toPi) = host.pos
    BY <1>9 DEF LoadKept, OnlyCall
  <2>2. byte = <<"size", 1, Len(pi.size) + 1>>
    <3>1. SizeComes(1)  BY <1>2, <2>1
    <3>2. \A j \in 1 .. 1 : j = 1  OBVIOUS
    <3> QED  BY <1>2, <1>9, <3>1, <3>2 DEF SizeComes, byte
  <2>3. \A i \in 1 .. Len(pi'.size) : pi'.size[i] = <<"size", 1, i>>  BY <1>5, <1>6, <2>1, <2>2
  <2>4. \A j \in 1 .. Len(toPi) : toPi[j][1] = "typed" => j - 1 \in 1 .. Len(toPi') /\ toPi'[j - 1][1] = "typed"
    <3> SUFFICES ASSUME NEW j \in 1 .. Len(toPi), toPi[j][1] = "typed"
                 PROVE  j - 1 \in 1 .. Len(toPi') /\ toPi'[j - 1][1] = "typed"
      OBVIOUS
    <3>1. j # 1  BY <1>9 DEF byte
    <3>2. j - 1 \in 1 .. Len(toPi') /\ (j - 1) + 1 = j  BY <1>2, <3>1
    <3> QED  BY <1>2, <3>2
  <2>5. ASSUME NEW n \in 1 .. Len(toPi')  PROVE SizeComes(n)'
    <3>1. SizeComes(n + 1) /\ n + 1 \in 1 .. Len(toPi)  BY <1>2, <2>1
    <3>2. CASE \E j \in 1 .. n + 1 : j <= Len(toPi) /\ toPi[j][1] = "typed"
      <4>1. PICK j \in 1 .. n + 1 : j <= Len(toPi) /\ toPi[j][1] = "typed"  BY <3>2
      <4>2. j \in 1 .. Len(toPi) /\ j - 1 <= n  BY <1>2, <4>1
      <4>3. j - 1 \in 1 .. Len(toPi') /\ toPi'[j - 1][1] = "typed"  BY <2>4, <4>1, <4>2
      <4>4. j - 1 \in 1 .. n /\ j - 1 <= Len(toPi')  BY <1>2, <4>2, <4>3
      <4> QED  BY <4>3, <4>4 DEF SizeComes
    <3>3. CASE toPi[n + 1] = <<"size", 1, Len(pi.size) + (n + 1)>>
      <4>1. Len(pi.size) + (n + 1) = Len(pi'.size) + n
        <5>1. \A a, b, m \in Int : b = a + 1 => a + (m + 1) = b + m  OBVIOUS
        <5>2. Len(pi.size) \in Int /\ Len(pi'.size) \in Int /\ n \in Int  BY <1>2, <1>3, <1>5
        <5> QED  BY <1>5, <5>1, <5>2
      <4> QED  BY <1>2, <3>3, <4>1 DEF SizeComes
    <3> QED  BY <3>1, <3>2, <3>3 DEF SizeComes
  <2>6. Len(pi.size) + Len(toPi) = host.pos => Len(pi'.size) + Len(toPi') = host.pos
    <3>1. \A a, b, c, d, sum \in Int : b = a + 1 /\ d = c - 1 /\ a + c = sum => b + d = sum  OBVIOUS
    <3>2. Len(pi.size) \in Int /\ Len(pi'.size) \in Int /\ Len(toPi) \in Int /\ Len(toPi') \in Int
          /\ Len(pi.size) + Len(toPi) \in Int
      BY <1>2, <1>3, <1>5
    <3>3. Len(pi'.size) + Len(toPi') = Len(pi.size) + Len(toPi)  BY <1>2, <1>5, <3>1, <3>2
    <3> QED  BY <3>3
  <2>7. \/ host.pc # "sendSize"
        \/ \E j \in 1 .. Len(toPi') : toPi'[j][1] = "typed"
        \/ Len(pi'.size) + Len(toPi') = host.pos
    BY <2>1, <2>4, <2>6
  <2> QED  BY <1>4, <1>7, <2>1, <2>3, <2>5, <2>7 DEF OnlyCall
<1>12. NoOldK'  BY <1>4, <1>9 DEF LoadKept, NoOldK
<1>13. Waiting'
  <2> SUFFICES ASSUME Unspoilt  PROVE Waiting'
    BY <1>7 DEF Waiting
  <2>1. /\ Without("K", toHost)
        /\ \A i \in 1 .. Len(toPi) : toPi[i] = <<"size", calls, SizeBytes>> => i = Len(toPi)
        /\ host.pc = "sendSize" => SentOnly(toPi) /\ SentOnly(pi.size)
    BY <1>9 DEF LoadKept, Waiting
  <2>2. \A i \in 1 .. Len(toPi') : toPi'[i] = <<"size", calls, SizeBytes>> => i = Len(toPi')
    BY <1>2, <2>1
  <2>3. ASSUME host.pc = "sendSize"  PROVE SentOnly(toPi)' /\ SentOnly(pi.size)'
    <3>1. SentOnly(toPi) /\ SentOnly(pi.size)  BY <2>1, <2>3
    <3>2. SentOnly(toPi)'  BY <1>2, <3>1 DEF SentOnly
    <3>3. SentOnly(pi.size)'  BY <1>2, <1>5, <1>6, <3>1 DEF SentOnly, byte
    <3> QED  BY <3>2, <3>3
  <2> QED  BY <2>1, <2>2, <2>3 DEF Waiting
<1>14. InTime'  BY <1>7, <1>9 DEF LoadKept, InTime
<1>15. Answered'  BY <1>4 DEF Answered
<1>16. Ended'
  <2> SUFFICES ASSUME NEW call \in 1 .. calls, Over(call)'
               PROVE  NothingOf(call, toPi') /\ NothingOf(call, pi'.size)
    BY <1>4 DEF Ended
  <2>1. NothingOf(call, toPi) /\ NothingOf(call, pi.size)  BY <1>7, <1>9 DEF LoadKept, Ended, Over
  <2> QED  BY <1>2, <1>5, <1>6, <2>1 DEF NothingOf, byte
<1> QED  BY <1>10, <1>11, <1>12, <1>13, <1>14, <1>15, <1>16 DEF LoadKept

LEMMA PiRecord ==
  ASSUME NEW refused \in Seq(Printed)
  PROVE  [pc |-> "size", out |-> refused, size |-> << >>, left |-> 0, loaded |-> << >>]
           \in [pc : {"size", "kernel", "running"}, out : Seq(Printed), size : Seq(Bytes), left : Int, loaded : Seq(Bytes)]
<1>1. << >> \in Seq(Bytes)  BY EmptySeq
<1> QED  BY <1>1

(* A size is complete: the Pi refuses it and asks again, or takes it.      *)
LEMMA RefusedKeepsLoad ==
  ASSUME LoadInv, toPi # << >>, toPi' = Tail(toPi), pi.pc = "size", pi.out = << >>,
         \A call \in 1 .. calls : Append(pi.size, Head(toPi)) # SizeOf(call), Len(pi.size) + 1 = SizeBytes,
         pi' = [Start EXCEPT !.out = Answer \o <<"S", "E">> \o Banner],
         met' = (met \/ Head(toPi)[1] = "typed"),
         UNCHANGED <<toHost, host, calls, failed, resets>>
  PROVE  LoadInv'
<1> DEFINE byte == toPi[1]
           size == Append(pi.size, byte)
<1>1. LoadTypes  BY DEF LoadInv
<1>2. /\ Len(toPi) \in Nat \ {0} /\ 1 \in 1 .. Len(toPi) /\ Head(toPi) = byte /\ byte \in Bytes
      /\ toPi' \in Seq(Bytes) /\ Len(toPi') \in Nat /\ Len(toPi') = Len(toPi) - 1
      /\ \A i \in 1 .. Len(toPi') : i + 1 \in 1 .. Len(toPi) /\ toPi'[i] = toPi[i + 1]
      /\ CallsKnown(toPi)'
  BY <1>1, ByteTaken
<1> HIDE DEF byte
<1>3. /\ pi'.pc = "size" /\ pi'.out \in Seq(Printed) /\ Without("K", pi'.out) /\ pi'.loaded = << >> /\ pi'.size = << >>
      /\ pi' \in [pc : {"size", "kernel", "running"}, out : Seq(Printed), size : Seq(Bytes), left : Int, loaded : Seq(Bytes)]
  <2> DEFINE refused == Answer \o <<"S", "E">> \o Banner
  <2>1. refused \in Seq(Printed) /\ Without("K", refused)  BY RefusedIs
  <2>2. pi' = [Start EXCEPT !.out = refused]  OBVIOUS
  <2> HIDE DEF refused
  <2>3. pi' = [pc |-> "size", out |-> refused, size |-> << >>, left |-> 0, loaded |-> << >>]  BY <2>2 DEF Start
  <2>4. pi'.pc = "size" /\ pi'.out = refused /\ pi'.size = << >> /\ pi'.left = 0 /\ pi'.loaded = << >>  BY <2>3
  <2>5. pi' \in [pc : {"size", "kernel", "running"}, out : Seq(Printed), size : Seq(Bytes), left : Int, loaded : Seq(Bytes)]
    BY <2>1, <2>3, PiRecord
  <2> QED  BY <2>1, <2>4, <2>5
<1>4. Calling' = Calling /\ Unspoilt' = Unspoilt  BY DEF Calling, Unspoilt
<1>5. LoadTypes'
  <2>1. CallsKnown(pi.size)'  BY <1>3 DEF CallsKnown
  <2>2. Len(pi'.size) < SizeBytes  BY <1>3, LineAssumption
  <2> QED  BY <1>1, <1>2, <1>3, <1>4, <2>1, <2>2 DEF LoadTypes
<1> SUFFICES ASSUME ~met', resets <= 1  PROVE LoadKept'
  BY <1>5 DEF LoadInv
<1>6. LoadKept /\ byte[1] # "typed"  BY <1>2 DEF LoadInv
<1>7. calls \in Nat /\ resets \in Nat  BY <1>1 DEF LoadTypes
<1>8. ~(resets = 0 /\ calls = 0)  BY <1>2, <1>6 DEF LoadKept, FirstAsk, byte
<1>9. ~(resets = 0 /\ calls > 0)
  <2> SUFFICES ASSUME resets = 0, calls > 0  PROVE FALSE
    OBVIOUS
  <2>1. /\ calls = 1
        /\ \A i \in 1 .. Len(pi.size) : pi.size[i] = <<"size", 1, i>>
        /\ SizeComes(1)
    BY <1>2, <1>6 DEF LoadKept, OnlyCall
  <2>2. byte = <<"size", 1, Len(pi.size) + 1>>
    <3>1. \A j \in 1 .. 1 : j = 1  OBVIOUS
    <3> QED  BY <1>2, <1>6, <2>1, <3>1 DEF SizeComes, byte
  <2>3. pi.size \in Seq(Bytes) /\ Len(pi.size) \in Nat  BY <1>1 DEF LoadTypes
  <2>4. /\ size \in Seq(Bytes) /\ Len(size) = SizeBytes /\ size[Len(pi.size) + 1] = byte
        /\ \A i \in 1 .. Len(pi.size) : size[i] = pi.size[i]
    BY <1>2, <2>3, AppendIs
  <2>5. \A i \in 1 .. SizeBytes : i \in 1 .. Len(pi.size) \/ i = Len(pi.size) + 1  BY <2>3
  <2> HIDE DEF size
  <2>6. \A i \in 1 .. SizeBytes : size[i] = <<"size", 1, i>>  BY <2>1, <2>2, <2>4, <2>5
  <2>7. size = SizeOf(1)
    <3>1. size = [i \in 1 .. SizeBytes |-> size[i]]  BY <2>4, LenProperties
    <3> QED  BY <2>6, <3>1 DEF SizeOf
  <2> QED  BY <1>2, <2>1, <2>7 DEF size
<1>10. FirstAsk' /\ OnlyCall'  BY <1>8, <1>9 DEF FirstAsk, OnlyCall
<1>11. NoOldK'  BY <1>3, <1>6 DEF LoadKept, NoOldK
<1>12. Waiting'
  <2> SUFFICES ASSUME Unspoilt  PROVE Waiting'
    BY <1>4 DEF Waiting
  <2>1. /\ Without("K", toHost)
        /\ \A i \in 1 .. Len(toPi) : toPi[i] = <<"size", calls, SizeBytes>> => i = Len(toPi)
        /\ host.pc = "sendSize" => SentOnly(toPi)
    BY <1>6 DEF LoadKept, Waiting
  <2>2. \A i \in 1 .. Len(toPi') : toPi'[i] = <<"size", calls, SizeBytes>> => i = Len(toPi')
    BY <1>2, <2>1
  <2>3. host.pc = "sendSize" => SentOnly(toPi)' /\ SentOnly(pi.size)'  BY <1>2, <1>3, <2>1 DEF SentOnly
  <2> QED  BY <2>1, <2>2, <2>3 DEF Waiting
<1>13. InTime'  BY <1>4, <1>6 DEF LoadKept, InTime
<1>14. Answered'  BY <1>3 DEF Answered
<1>15. Ended'
  <2> SUFFICES ASSUME NEW call \in 1 .. calls, Over(call)'
               PROVE  NothingOf(call, toPi') /\ NothingOf(call, pi'.size)
    BY <1>3 DEF Ended
  <2>1. NothingOf(call, toPi)  BY <1>4, <1>6 DEF LoadKept, Ended, Over
  <2> QED  BY <1>2, <1>3, <2>1 DEF NothingOf
<1> QED  BY <1>10, <1>11, <1>12, <1>13, <1>14, <1>15 DEF LoadKept

LEMMA TakenKeepsLoad ==
  ASSUME LoadInv, toPi # << >>, toPi' = Tail(toPi), pi.pc = "size", pi.out = << >>,
         Len(pi.size) + 1 = SizeBytes, NEW size \in Meant(Append(pi.size, Head(toPi))), size # -1,
         pi' = [pi EXCEPT !.pc = IF size = 0 THEN "running" ELSE "kernel", !.size = Append(pi.size, Head(toPi)), !.left = size,
                          !.out = Answer \o <<"O", "K">> \o IF size = 0 THEN Jump.out ELSE << >>],
         met' = (met \/ Head(toPi)[1] = "typed"),
         UNCHANGED <<toHost, host, calls, failed, resets>>
  PROVE  LoadInv'
<1> DEFINE byte  == toPi[1]
           bytes == Append(pi.size, byte)
           jump  == IF size = 0 THEN Jump.out ELSE << >>
           taken == Answer \o <<"O", "K">> \o jump
<1>1. LoadTypes  BY DEF LoadInv
<1>2. /\ Len(toPi) \in Nat \ {0} /\ 1 \in 1 .. Len(toPi) /\ Head(toPi) = byte /\ byte \in Bytes
      /\ toPi' \in Seq(Bytes) /\ Len(toPi') \in Nat /\ Len(toPi') = Len(toPi) - 1
      /\ byte[1] # "typed" => byte[2] \in 1 .. calls
      /\ CallsKnown(toPi)'
  BY <1>1, ByteTaken
<1> HIDE DEF byte
<1>3. pi.size \in Seq(Bytes) /\ Len(pi.size) \in Nat /\ CallsKnown(pi.size) /\ pi.loaded = << >>
  BY <1>1 DEF LoadTypes
<1>4. /\ bytes \in Seq(Bytes) /\ Len(bytes) = SizeBytes /\ bytes[SizeBytes] = byte
      /\ \A i \in 1 .. Len(pi.size) : bytes[i] = pi.size[i]
  <2>1. /\ bytes \in Seq(Bytes) /\ Len(bytes) = Len(pi.size) + 1 /\ bytes[Len(pi.size) + 1] = byte
        /\ \A i \in 1 .. Len(pi.size) : bytes[i] = pi.size[i]
    BY <1>2, <1>3, AppendIs
  <2> QED  BY <2>1
<1>5. jump \in Seq(Printed) /\ Without("break", jump)
  <2>1. CASE size = 0
    <3>1. Jump.out = <<"J", "U", "M", "P">>  BY <1>1 DEF Jump, LoadTypes
    <3>2. jump = <<"J", "U", "M", "P">>  BY <2>1, <3>1
    <3> HIDE DEF jump
    <3>3. jump \in Seq(Printed) /\ Len(jump) = 4 /\ jump[1] = "J" /\ jump[2] = "U" /\ jump[3] = "M" /\ jump[4] = "P"
      BY <3>2 DEF Printed
    <3> QED  BY <3>3 DEF Without
  <2>2. CASE size # 0
    <3>1. jump = << >>  BY <2>2
    <3> HIDE DEF jump
    <3> QED  BY <3>1 DEF Without
  <2> QED  BY <2>1, <2>2
<1>6. /\ taken \in Seq(Printed) /\ Without("break", taken)
      /\ jump = << >> => \A i \in 1 .. Len(taken) : taken[i] = "K" => i = Len(taken)
  <2> HIDE DEF jump
  <2> QED  BY <1>5, TakenIs
<1>7. /\ pi'.pc = (IF size = 0 THEN "running" ELSE "kernel") /\ pi'.pc # "size" /\ pi'.pc \in {"kernel", "running"}
      /\ pi'.size = bytes /\ pi'.left = size /\ pi'.out = taken /\ pi'.loaded = << >>
  BY <1>1, <1>2, <1>3 DEF LoadTypes
<1>8. size \in Int
  BY LineAssumption DEF Meant
<1>9. \A call \in 1 .. calls : bytes = SizeOf(call) => size = FileLength /\ byte = <<"size", call, SizeBytes>>
  <2> SUFFICES ASSUME NEW call \in 1 .. calls, bytes = SizeOf(call)
               PROVE  size = FileLength /\ byte = <<"size", call, SizeBytes>>
    OBVIOUS
  <2>1. size = FileLength  BY <1>2 DEF Meant
  <2>2. SizeOf(call)[SizeBytes] = <<"size", call, SizeBytes>>  BY LineAssumption DEF SizeOf
  <2> QED  BY <1>4, <2>1, <2>2
<1>10. pi' \in [pc : {"size", "kernel", "running"}, out : Seq(Printed), size : Seq(Bytes), left : Int, loaded : Seq(Bytes)]
  <2> HIDE DEF bytes, taken
  <2>1. pi'.size \in Seq(Bytes) /\ pi'.out \in Seq(Printed) /\ pi'.left \in Int /\ pi'.loaded \in Seq(Bytes)
    <3>1. << >> \in Seq(Bytes)  BY EmptySeq
    <3> QED  BY <1>4, <1>6, <1>7, <1>8, <3>1
  <2> QED  BY <1>1, <1>7, <2>1 DEF LoadTypes
<1>11. \A i \in 1 .. Len(bytes) : i \in 1 .. Len(pi.size) \/ bytes[i] = byte
  <2>1. \A i \in 1 .. SizeBytes : i \in 1 .. Len(pi.size) \/ i = SizeBytes  BY <1>3
  <2> QED  BY <1>4, <2>1
<1> HIDE DEF bytes, jump, taken
<1>12. Calling' = Calling /\ Unspoilt' = Unspoilt  BY DEF Calling, Unspoilt
<1>13. LoadTypes'
  <2>1. CallsKnown(pi.size)'  BY <1>2, <1>3, <1>4, <1>7, <1>11 DEF CallsKnown
  <2> QED  BY <1>1, <1>2, <1>7, <1>10, <1>12, <2>1 DEF LoadTypes
<1> SUFFICES ASSUME ~met', resets <= 1  PROVE LoadKept'
  BY <1>13 DEF LoadInv
<1>14. LoadKept /\ byte[1] # "typed"  BY <1>2 DEF LoadInv
<1>15. FirstAsk'
  <2>1. ~(resets = 0 /\ calls = 0)  BY <1>2, <1>14 DEF LoadKept, FirstAsk, byte
  <2> QED  BY <2>1 DEF FirstAsk
<1>16. OnlyCall'
  <2> SUFFICES ASSUME resets = 0, calls > 0  PROVE OnlyCall'
    BY DEF OnlyCall
  <2>1. /\ host.breaks = 0 /\ (Calling => calls \notin failed)
        /\ Without("break", toHost) /\ Without("break", host.scan)
    BY <1>14 DEF LoadKept, OnlyCall
  <2> QED  BY <1>6, <1>7, <1>12, <2>1 DEF OnlyCall
<1>17. NoOldK' /\ Waiting' /\ InTime'  BY <1>7 DEF NoOldK, Waiting, InTime
<1>18. Answered'
  <2> SUFFICES ASSUME Unspoilt, bytes = SizeOf(calls)  PROVE Answered'
    BY <1>7, <1>12 DEF Answered
  <2>1. calls \in 1 .. calls  BY <1>1 DEF Unspoilt, LoadTypes
  <2>2. size = FileLength /\ byte = <<"size", calls, SizeBytes>>  BY <1>9, <2>1
  <2>3. size # 0  BY <2>2, LineAssumption
  <2>4. jump = << >>  BY <2>3 DEF jump
  <2>5. /\ Without("K", toHost)
        /\ \A i \in 1 .. Len(toPi) : toPi[i] = <<"size", calls, SizeBytes>> => i = Len(toPi)
        /\ host.pc = "sendSize" => SentOnly(toPi)
    BY <1>14 DEF LoadKept, Waiting
  <2>6. 1 = Len(toPi)  BY <1>2, <2>2, <2>5 DEF byte
  <2>7. toPi' = << >>  BY <1>2, <2>6
  <2>8. host.pc \in BeforeOK
    <3>1. host.pc # "sendSize"
      <4>1. ASSUME host.pc = "sendSize"  PROVE FALSE
        <5>1. byte[1] = "size" /\ byte[2] = calls /\ byte[3] = SizeBytes  BY <2>2
        <5>2. SizeBytes <= host.pos  BY <1>2, <2>5, <4>1, <5>1 DEF SentOnly, OfCall, byte
        <5>3. host.pos \in 0 .. SizeBytes - 1  BY <1>1, <4>1 DEF LoadTypes
        <5> QED  BY <5>2, <5>3, LineAssumption
      <4> QED  BY <4>1
    <3> QED  BY <1>14, <3>1 DEF LoadKept, InTime
  <2>9. KLast'  BY <1>6, <1>7, <2>4, <2>5 DEF KLast, Without
  <2>10. pi'.pc = "kernel"  BY <1>7, <2>3
  <2> QED  BY <1>7, <2>2, <2>7, <2>8, <2>9, <2>10 DEF Answered
<1>19. Ended'
  <2> SUFFICES ASSUME NEW call \in 1 .. calls, Over(call)'
               PROVE  bytes # SizeOf(call)
    BY <1>7 DEF Ended
  <2>1. NothingOf(call, toPi)  BY <1>12, <1>14 DEF LoadKept, Ended, Over
  <2>2. ~(byte[1] = "size" /\ byte[2] = call)  BY <1>2, <2>1 DEF NothingOf, OfCall, byte
  <2> QED  BY <1>9, <2>2
<1> QED  BY <1>15, <1>16, <1>17, <1>18, <1>19 DEF LoadKept

(* A byte of the kernel; with the last one the Pi jumps.                   *)
LEMMA KernelByteKeepsLoad ==
  ASSUME LoadInv, toPi # << >>, toPi' = Tail(toPi), pi.pc = "kernel", pi.out = << >>, KernelRead(Head(toPi)),
         met' = (met \/ Head(toPi)[1] = "typed"),
         UNCHANGED <<toHost, host, calls, failed, resets>>
  PROVE  LoadInv'
<1> DEFINE byte == toPi[1]
<1>1. LoadTypes  BY DEF LoadInv
<1>2. /\ Len(toPi) \in Nat \ {0} /\ 1 \in 1 .. Len(toPi) /\ Head(toPi) = byte /\ byte \in Bytes
      /\ toPi' \in Seq(Bytes) /\ Len(toPi') \in Nat /\ Len(toPi') = Len(toPi) - 1
      /\ \A i \in 1 .. Len(toPi') : i + 1 \in 1 .. Len(toPi) /\ toPi'[i] = toPi[i + 1]
      /\ CallsKnown(toPi)'
  BY <1>1, ByteTaken
<1> HIDE DEF byte
<1>3. pi.loaded \in Seq(Bytes) /\ Len(pi.loaded) \in Nat /\ pi.left \in Int  BY <1>1 DEF LoadTypes
<1>4. /\ pi'.size = pi.size /\ pi'.loaded = Append(pi.loaded, byte)
      /\ \/ pi.left = 1 /\ pi'.pc = "running" /\ pi'.out = <<"J", "U", "M", "P">> /\ pi'.left = 0
         \/ pi.left # 1 /\ pi'.pc = "kernel" /\ pi'.out = << >> /\ pi'.left = pi.left - 1
      /\ DOMAIN pi' = DOMAIN pi
  <2>1. CASE pi.left = 1
    <3>1. pi' = [Jump EXCEPT !.loaded = Append(pi.loaded, byte), !.left = 0]
      BY <1>1, <1>2, <2>1 DEF KernelRead, LoadTypes
    <3> QED  BY <1>1, <2>1, <3>1 DEF Jump, LoadTypes
  <2>2. CASE pi.left # 1
    <3>1. pi' = [pi EXCEPT !.loaded = Append(@, byte), !.left = @ - 1]
      BY <1>2, <2>2 DEF KernelRead
    <3> QED  BY <1>1, <2>2, <3>1 DEF LoadTypes
  <2> QED  BY <2>1, <2>2
<1>5. /\ pi'.loaded \in Seq(Bytes) /\ Len(pi'.loaded) = Len(pi.loaded) + 1 /\ Len(pi'.loaded) \in Nat
      /\ pi'.loaded[Len(pi.loaded) + 1] = byte
      /\ \A i \in 1 .. Len(pi.loaded) : pi'.loaded[i] = pi.loaded[i]
  BY <1>2, <1>3, <1>4, AppendIs
<1>6. pi'.pc # "size" /\ pi'.out \in Seq(Printed) /\ Without("break", pi'.out)
  <2>1. CASE pi'.out = << >>  BY <1>4, <2>1 DEF Without
  <2>2. CASE pi'.out = <<"J", "U", "M", "P">>
    <3>1. /\ pi'.out \in Seq(Printed) /\ Len(pi'.out) = 4
          /\ pi'.out[1] = "J" /\ pi'.out[2] = "U" /\ pi'.out[3] = "M" /\ pi'.out[4] = "P"
      BY <2>2 DEF Printed
    <3> QED  BY <1>4, <3>1 DEF Without
  <2> QED  BY <1>4, <2>1, <2>2
<1>7. Calling' = Calling /\ Unspoilt' = Unspoilt  BY DEF Calling, Unspoilt
<1>8. LoadTypes'
  <2>1. pi' \in [pc : {"size", "kernel", "running"}, out : Seq(Printed), size : Seq(Bytes), left : Int, loaded : Seq(Bytes)]
    <3>1. pi'.pc \in {"size", "kernel", "running"} /\ pi'.left \in Int /\ pi'.size \in Seq(Bytes)
      BY <1>1, <1>3, <1>4 DEF LoadTypes
    <3>2. pi' = [pc |-> pi'.pc, out |-> pi'.out, size |-> pi'.size, left |-> pi'.left, loaded |-> pi'.loaded]
      <4>1. CASE pi.left = 1  BY <1>1, <4>1 DEF KernelRead, Jump, LoadTypes
      <4>2. CASE pi.left # 1  BY <1>1, <4>2 DEF KernelRead, LoadTypes
      <4> QED  BY <4>1, <4>2
    <3> QED  BY <1>5, <1>6, <3>1, <3>2
  <2>2. CallsKnown(pi.size)'  BY <1>1, <1>4 DEF LoadTypes, CallsKnown
  <2> QED  BY <1>1, <1>2, <1>6, <1>7, <2>1, <2>2 DEF LoadTypes
<1> SUFFICES ASSUME ~met', resets <= 1  PROVE LoadKept'
  BY <1>8 DEF LoadInv
<1>9. LoadKept  BY <1>2 DEF LoadInv
<1>10. FirstAsk'
  <2>1. ~(resets = 0 /\ calls = 0)  BY <1>9 DEF LoadKept, FirstAsk
  <2> QED  BY <2>1 DEF FirstAsk
<1>11. OnlyCall'  BY <1>6, <1>7, <1>9 DEF LoadKept, OnlyCall
<1>12. NoOldK' /\ Waiting' /\ InTime'  BY <1>6 DEF NoOldK, Waiting, InTime
<1>13. Answered'
  <2> SUFFICES ASSUME Unspoilt, pi.size = SizeOf(calls)  PROVE Answered'
    BY <1>4, <1>7 DEF Answered
  <2>1. \/ host.pc = "sendKernel" /\ FileComes(host.pos)
        \/ host.pc = "jump" /\ FileComes(FileLength)
    BY <1>9 DEF LoadKept, Answered, Loaded
  <2>2. PICK sent \in 0 .. FileLength :
          /\ FileComes(sent)
          /\ \/ host.pc = "sendKernel" /\ sent = host.pos /\ sent # FileLength
             \/ host.pc = "jump" /\ sent = FileLength
    <3>1. CASE host.pc = "sendKernel"
      <4>1. host.pos \in 0 .. FileLength - 1  BY <1>1, <3>1 DEF LoadTypes
      <4>2. host.pos \in 0 .. FileLength /\ host.pos # FileLength  BY <4>1, LineAssumption
      <4> QED  BY <2>1, <3>1, <4>2
    <3>2. CASE host.pc = "jump"
      <4>1. FileLength \in 0 .. FileLength  BY LineAssumption
      <4> QED  BY <2>1, <3>2, <4>1
    <3> QED  BY <2>1, <3>1, <3>2
  <2>3. /\ toHost = << >>
        /\ Len(pi.loaded) + Len(toPi) = sent /\ pi.left = FileLength - Len(pi.loaded)
        /\ \A i \in 1 .. Len(pi.loaded) : pi.loaded[i] = <<"file", calls, i>>
        /\ \A i \in 1 .. Len(toPi) : toPi[i] = <<"file", calls, Len(pi.loaded) + i>>
    BY <2>2 DEF FileComes
  <2>4. byte = <<"file", calls, Len(pi.loaded) + 1>>  BY <1>2, <2>3 DEF byte
  <2>5. \A i \in 1 .. Len(pi'.loaded) : pi'.loaded[i] = <<"file", calls, i>>
    <3>1. \A i \in 1 .. Len(pi'.loaded) : i \in 1 .. Len(pi.loaded) \/ i = Len(pi.loaded) + 1  BY <1>3, <1>5
    <3> QED  BY <1>5, <2>3, <2>4, <3>1
  <2>6. CASE pi.left = 1
    <3>1. Len(pi'.loaded) = FileLength
      <4>1. \A a, f \in Int : 1 = f - a => a + 1 = f  BY LineAssumption
      <4> QED  BY <1>3, <1>5, <2>3, <2>6, <4>1, LineAssumption
    <3>2. pi'.loaded = FileOf(calls)
      <4>1. pi'.loaded = [i \in 1 .. FileLength |-> pi'.loaded[i]]  BY <1>5, <3>1, LenProperties
      <4> QED  BY <2>5, <3>1, <4>1 DEF FileOf
    <3>3. host.pc = "jump"
      <4>1. \A a, b, s, f \in Int : a + b = s /\ b >= 1 /\ s <= f /\ a + 1 = f => s = f  OBVIOUS
      <4>2. Len(pi.loaded) \in Int /\ Len(toPi) \in Int /\ Len(toPi) >= 1 /\ sent \in Int /\ sent <= FileLength
            /\ FileLength \in Int
        BY <1>2, <1>3, LineAssumption
      <4>3. sent = FileLength  BY <1>5, <2>3, <3>1, <4>1, <4>2
      <4> QED  BY <2>2, <4>3
    <3> QED  BY <1>4, <2>6, <3>2, <3>3 DEF Answered, Loaded
  <2>7. CASE pi.left # 1
    <3>1. Len(pi'.loaded) + Len(toPi') = sent
      <4>1. \A a, b, c, d \in Int : b = a + 1 /\ d = c - 1 => b + d = a + c  OBVIOUS
      <4>2. Len(pi.loaded) \in Int /\ Len(pi'.loaded) \in Int /\ Len(toPi) \in Int /\ Len(toPi') \in Int
        BY <1>2, <1>3, <1>5
      <4> QED  BY <1>2, <1>5, <2>3, <4>1, <4>2
    <3>2. pi'.left = FileLength - Len(pi'.loaded)
      <4>1. \A f, a \in Int : (f - a) - 1 = f - (a + 1)  OBVIOUS
      <4>2. Len(pi.loaded) \in Int /\ FileLength \in Int  BY <1>3, LineAssumption
      <4> QED  BY <1>4, <1>5, <2>3, <2>7, <4>1, <4>2
    <3>3. ASSUME NEW i \in 1 .. Len(toPi')  PROVE toPi'[i] = <<"file", calls, Len(pi'.loaded) + i>>
      <4>1. toPi'[i] = <<"file", calls, Len(pi.loaded) + (i + 1)>>  BY <1>2, <2>3
      <4>2. \A a, b, n \in Int : b = a + 1 => a + (n + 1) = b + n  OBVIOUS
      <4>3. Len(pi.loaded) \in Int /\ Len(pi'.loaded) \in Int /\ i \in Int  BY <1>2, <1>3, <1>5
      <4>4. Len(pi.loaded) + (i + 1) = Len(pi'.loaded) + i  BY <1>5, <4>2, <4>3
      <4> QED  BY <4>1, <4>4
    <3>4. FileComes(sent)'  BY <1>4, <2>3, <2>5, <2>7, <3>1, <3>2, <3>3 DEF FileComes
    <3>5. \/ host.pc = "sendKernel" /\ FileComes(host.pos)'
          \/ host.pc = "jump" /\ FileComes(FileLength)'
      BY <2>2, <3>4 DEF FileComes
    <3> QED  BY <3>5 DEF Answered, FileComes
  <2> QED  BY <2>6, <2>7
<1>14. Ended'
  <2> SUFFICES ASSUME NEW call \in 1 .. calls, Over(call)', pi.size = SizeOf(call)  PROVE FALSE
    BY <1>4, <1>6 DEF Ended
  <2>1. Over(call)  BY <1>7 DEF Over
  <2> QED  BY <1>9, <2>1 DEF LoadKept, Ended, Loaded
<1> QED  BY <1>10, <1>11, <1>12, <1>13, <1>14 DEF LoadKept

LEMMA uart_getcKeepsLoad == ASSUME LoadInv, uart_getc PROVE LoadInv'
<1>1. /\ toPi # << >> /\ toPi' = Tail(toPi) /\ pi.out = << >> /\ met' = (met \/ Head(toPi)[1] = "typed")
      /\ UNCHANGED <<toHost, host, calls, failed, resets>>
  BY DEF uart_getc, PiReads
<1>2. CASE pi.pc = "size" /\ Len(pi.size) + 1 < SizeBytes /\ pi' = [pi EXCEPT !.size = Append(@, Head(toPi))]
  BY <1>1, <1>2, SizeByteKeepsLoad
<1>3. CASE pi.pc = "size" /\ Len(pi.size) + 1 = SizeBytes /\ SizeRead(Append(pi.size, Head(toPi)))
  <2> DEFINE bytes == Append(pi.size, Head(toPi))
  <2>1. PICK size \in Meant(bytes) :
          pi' = IF size = -1 THEN [Start EXCEPT !.out = Answer \o <<"S", "E">> \o Banner]
                ELSE [pi EXCEPT !.pc = IF size = 0 THEN "running" ELSE "kernel", !.size = bytes, !.left = size,
                                !.out = Answer \o <<"O", "K">> \o IF size = 0 THEN Jump.out ELSE << >>]
    BY <1>3 DEF SizeRead
  <2>2. CASE size = -1
    <3>1. \A call \in 1 .. calls : bytes # SizeOf(call)
      <4>1. ASSUME NEW call \in 1 .. calls, bytes = SizeOf(call)  PROVE FALSE
        <5>1. size = FileLength  BY <2>1, <4>1 DEF Meant
        <5> QED  BY <2>2, <5>1, LineAssumption
      <4> QED  BY <4>1
    <3>2. pi' = [Start EXCEPT !.out = Answer \o <<"S", "E">> \o Banner]  BY <2>1, <2>2
    <3> QED  BY <1>1, <1>3, <3>1, <3>2, RefusedKeepsLoad
  <2>3. CASE size # -1
    <3>1. pi' = [pi EXCEPT !.pc = IF size = 0 THEN "running" ELSE "kernel", !.size = bytes, !.left = size,
                           !.out = Answer \o <<"O", "K">> \o IF size = 0 THEN Jump.out ELSE << >>]
      BY <2>1, <2>3
    <3> QED  BY <1>1, <1>3, <2>3, <3>1, TakenKeepsLoad
  <2> QED  BY <2>2, <2>3
<1>4. CASE pi.pc = "kernel" /\ KernelRead(Head(toPi))  BY <1>1, <1>4, KernelByteKeepsLoad
<1> QED  BY <1>2, <1>3, <1>4 DEF uart_getc

(* A Pi that took the size of a call that did not fail has, when it jumps, *)
(* loaded the whole file and nothing else (kernel.c, raspbootcom.cc).      *)
THEOREM KernelIsWhole == Spec => []KernelWhole
<1>1. InputInv /\ LoadInv /\ [Next]_vars => LoadInv'
  <2> SUFFICES ASSUME InputInv, LoadInv, [Next]_vars  PROVE LoadInv'
    OBVIOUS
  <2>1. SelectFound  BY DEF InputInv
  <2>2. CASE Pi  BY <2>2, uart_putcKeepsLoad, uart_getcKeepsLoad DEF Pi
  <2>3. CASE Call  BY <2>1, <2>3, CallKeepsLoad
  <2>4. CASE JumpMissing  BY <2>1, <2>4, do_exitKeepsLoad DEF JumpMissing, line, Shorter
  <2>5. CASE Loop
    BY <2>1, <2>5, open_serialKeepsLoad, SelectKeepsLoad, CopyInputKeepsLoad, ReadInputKeepsLoad, ReadDeviceKeepsLoad,
       ScanOutputKeepsLoad, LoopEndsKeepsLoad DEF Loop
  <2>6. CASE Restart  BY <2>6, RestartKeepsLoad
  <2>7. CASE Reset  BY <2>7, ResetKeepsLoad
  <2>8. CASE Unplug  BY <2>1, <2>8, UnplugKeepsLoad
  <2>9. CASE Plug \/ UNCHANGED vars
    <3>1. UNCHANGED <<pi, toPi, toHost, host, calls, failed, resets, met>>  BY <2>9 DEF Plug, vars, counts
    <3> QED  BY <3>1, UnchangedKeepsLoad
  <2> QED  BY <2>2, <2>3, <2>4, <2>5, <2>6, <2>7, <2>8, <2>9 DEF Next
<1>2. LoadInv => KernelWhole
  <2> SUFFICES ASSUME LoadInv, ~met, resets <= 1, NEW call \in (1 .. calls) \ failed,
                      pi.pc = "running", pi.size = SizeOf(call)
               PROVE  pi.loaded = FileOf(call)
    BY DEF KernelWhole
  <2>1. LoadKept  BY DEF LoadInv
  <2>2. CASE Over(call)  BY <2>1, <2>2 DEF LoadKept, Ended, Loaded
  <2>3. CASE Calling /\ call = calls
    BY <2>1, <2>3 DEF LoadKept, Answered, Unspoilt, FileComes, Loaded
  <2> QED  BY <2>2, <2>3 DEF Over
<1>3. InputInv /\ [Next]_vars => InputInv'  BY InputInvKept
<1> QED  BY <1>1, <1>2, <1>3, InputInvHoldsFirst, LoadInvHoldsFirst, PTL DEF Spec
=============================================================================
