--------------------------------- MODULE Boot ---------------------------------
(***************************************************************************)
(* The boot loader: src/src/00-bootloader/kernel.c on the Pi, raspbootcom  *)
(* on the host, and the serial line between them.  The Pi asks with three  *)
(* breaks; the host sends the size of the kernel, reads the answer and     *)
(* sends the kernel; else it is a terminal.  Meanwhile the user types, the *)
(* Pi is reset, and the serial device is pulled out and plugged in again.  *)
(*                                                                         *)
(* The host writes and reads byte by byte: its loops take what read and    *)
(* write give them.  Of what the Pi prints, only what the host tells apart *)
(* is kept; a byte that goes to the Pi says where it is from.              *)
(***************************************************************************)
EXTENDS Integers, SequencesExt, FiniteSets

CONSTANTS
  BannerLength,   \* what is printed before the breaks (117 bytes)
  Digits,         \* digits that hexstrings prints, before its space (8)
  SizeBytes,      \* bytes of a size (4)
  FileLength,     \* bytes of the kernel
  OtherSizes,     \* small enough sizes that other bytes may come to
  RxDepth,        \* bytes that the Pi's UART keeps (16)
  BUF_SIZE,       \* bytes of input that the host keeps (65536)
  MaxTroubles     \* bound on what happens to the two programs

(* The buffer of input keeps something.                                    *)
ASSUME BootAssumption == BUF_SIZE \in Nat \ {0}

(* A size and a kernel have bytes; what is printed may be of any length.   *)
ASSUME LineAssumption ==
  /\ SizeBytes \in Nat \ {0} /\ FileLength \in Nat \ {0}
  /\ BannerLength \in Nat /\ Digits \in Nat /\ OtherSizes \subseteq Nat

VARIABLES
  pi,             \* out, what it is printing; pc; what it took for a size; what it loaded
  toPi, toHost,   \* the line
  present,        \* the serial device is plugged in
  host,           \* pc; what select found; the rest of buf2; breaks; done; leave; pos
  input,          \* what the host read from the user: buf, start, end
  typed, passed,  \* bytes typed; those of them written to the line or given up
  asked, calls, failed, runs, resets, unplugs,
  met             \* something that was typed met the loader

line == <<toPi, toHost, present>>
counts == <<typed, passed, asked, calls, failed, runs, resets, unplugs, met>>
vars == <<pi, toPi, toHost, present, host, input, typed, passed, asked, calls, failed, runs, resets, unplugs, met>>

(* A reset, a device pulled out and another run of the host count twice.   *)
Troubles == typed + 2 * (resets + unplugs + runs - 1)

Times(n, byte) == [i \in 1 .. n |-> byte]

(* Mutant of hexstrings: without the space after the digits.               *)
hexstrings_NoSpace(d) == Times(Digits, d)

hexstrings(d) == Times(Digits, d) \o <<"space">>

Banner == Times(BannerLength, "text") \o <<"break", "break", "break">>

SizeOf(call) == [i \in 1 .. SizeBytes |-> <<"size", call, i>>]
FileOf(call) == [i \in 1 .. FileLength |-> <<"file", call, i>>]

Start    == [pc |-> "size", out |-> Banner, size |-> << >>, left |-> 0, loaded |-> << >>]
NoInput  == [buf |-> [i \in 0 .. BUF_SIZE - 1 |-> 0], start |-> 0, end |-> 0]
Opening  == [pc |-> "open", ready |-> {}, scan |-> << >>, breaks |-> 0, done |-> FALSE, leave |-> FALSE, pos |-> 0,
             dead |-> FALSE]

Init ==
  /\ pi = Start /\ toPi = << >> /\ toHost = << >> /\ present = TRUE
  /\ host = Opening /\ input = NoInput
  /\ typed = 0 /\ passed = 0 /\ asked = 0 /\ calls = 0 /\ failed = {} /\ runs = 1 /\ resets = 0 /\ unplugs = 0
  /\ met = FALSE

-----------------------------------------------------------------------------
(* The Pi.                                                                 *)
PiReads == pi.out = << >> /\ pi.pc \in {"size", "kernel"}

(* uart_putc of what it is printing.                                       *)
uart_putc ==
  /\ pi.out # << >>
  /\ pi' = [pi EXCEPT !.out = Tail(@)]
  /\ toHost' = IF present THEN Append(toHost, Head(pi.out)) ELSE toHost
  /\ asked' = IF pi.out = <<"break">> THEN asked + 1 ELSE asked
  /\ UNCHANGED <<toPi, present, host, input, typed, passed, calls, failed, runs, resets, unplugs, met>>

Answer == hexstrings("digit") \o hexstrings("digit")
Jump   == [pi EXCEPT !.pc = "running", !.out = <<"J", "U", "M", "P">>]

(* What a size means: the length of a file, or whatever the bytes make.    *)
Meant(bytes) ==
  IF \E call \in 1 .. calls : bytes = SizeOf(call) THEN {FileLength} ELSE OtherSizes \cup {-1}

SizeRead(bytes) ==
  \E size \in Meant(bytes) :
    pi' = IF size = -1 THEN [Start EXCEPT !.out = Answer \o <<"S", "E">> \o Banner]
          ELSE [pi EXCEPT !.pc = IF size = 0 THEN "running" ELSE "kernel", !.size = bytes, !.left = size,
                          !.out = Answer \o <<"O", "K">> \o IF size = 0 THEN Jump.out ELSE << >>]

(* Mutant of KernelRead: the size is counted down before it is looked at.  *)
KernelRead_OneShort(byte) ==
  LET more == [pi EXCEPT !.loaded = Append(@, byte), !.left = @ - 1]
  IN pi' = IF pi.left <= 2 THEN [Jump EXCEPT !.loaded = more.loaded, !.left = 0] ELSE more

KernelRead(byte) ==
  LET more == [pi EXCEPT !.loaded = Append(@, byte), !.left = @ - 1]
  IN pi' = IF pi.left = 1 THEN [Jump EXCEPT !.loaded = more.loaded, !.left = 0] ELSE more

uart_getc ==
  /\ PiReads /\ toPi # << >>
  /\ toPi' = Tail(toPi)
  /\ \/ /\ pi.pc = "size" /\ Len(pi.size) + 1 < SizeBytes
        /\ pi' = [pi EXCEPT !.size = Append(@, Head(toPi))]
     \/ /\ pi.pc = "size" /\ Len(pi.size) + 1 = SizeBytes
        /\ SizeRead(Append(pi.size, Head(toPi)))
     \/ /\ pi.pc = "kernel"
        /\ KernelRead(Head(toPi))
  /\ met' = (met \/ Head(toPi)[1] = "typed")
  /\ UNCHANGED <<toHost, present, host, input, typed, passed, asked, calls, failed, runs, resets, unplugs>>

-----------------------------------------------------------------------------
(* The host.  A byte that finds the Pi's UART full while the Pi prints is  *)
(* lost; a Pi that reads is as fast as the line.  The loaded kernel does   *)
(* with the bytes what it likes.                                           *)
Calling == host.pc \notin {"open", "loop", "exited", "hung"}
Written(byte) ==
  toPi' = IF pi.pc = "running" \/ (Len(toPi) >= RxDepth /\ ~PiReads) THEN toPi ELSE Append(toPi, byte)

do_exit ==
  /\ host' = [host EXCEPT !.pc = "exited"]
  /\ failed' = failed \cup IF Calling THEN {calls} ELSE {}

(* A reset in a call spoils the call.                                      *)
Reset ==
  /\ Troubles + 2 <= MaxTroubles
  /\ pi' = Start /\ toPi' = << >> /\ resets' = resets + 1
  /\ failed' = failed \cup IF Calling THEN {calls} ELSE {}
  /\ UNCHANGED <<toHost, present, host, input, typed, passed, asked, calls, runs, unplugs, met>>

(* open_serial: TCSAFLUSH throws away what was not read; a run of breaks   *)
(* is counted on.                                                          *)
open_serial ==
  /\ host.pc = "open" /\ present
  /\ host' = [Opening EXCEPT !.pc = "loop", !.breaks = host.breaks]
  /\ input' = [input EXCEPT !.start = 0, !.end = 0]
  /\ toHost' = << >>
  /\ UNCHANGED <<pi, toPi, present, counts>>

Looping == host.pc = "loop" /\ host.scan = << >>

Select ==
  /\ Looping /\ host.ready = {} /\ (~host.done \/ input.start # input.end)
  /\ \E ready \in SUBSET {"out", "in", "device"} \ {{}} :
       /\ "out" \in ready => input.start # input.end
       /\ "in" \in ready => ~host.done /\ input.end < BUF_SIZE
       /\ "device" \in ready => host.dead \/ toHost # << >>
       /\ host' = [host EXCEPT !.ready = ready]
  /\ UNCHANGED <<pi, line, input, counts>>

(* Mutant of Shifted: the bytes are moved down, the start is not.          *)
Shifted_StartStays(in) ==
  IF in.start = in.end THEN [in EXCEPT !.start = 0, !.end = 0]
  ELSE IF in.end < BUF_SIZE THEN in
  ELSE [buf |-> [i \in DOMAIN in.buf |-> IF i < in.end - in.start THEN in.buf[in.start + i] ELSE in.buf[i]],
        start |-> in.start, end |-> in.end - in.start]

Shifted(in) ==
  IF in.start = in.end THEN [in EXCEPT !.start = 0, !.end = 0]
  ELSE IF in.end < BUF_SIZE THEN in
  ELSE [buf |-> [i \in DOMAIN in.buf |-> IF i < in.end - in.start THEN in.buf[in.start + i] ELSE in.buf[i]],
        start |-> 0, end |-> in.end - in.start]

CopyInput ==
  /\ Looping /\ "out" \in host.ready
  /\ \/ /\ ~host.dead
        /\ host' = [host EXCEPT !.ready = @ \ {"out"}]
        /\ input' = Shifted([input EXCEPT !.start = @ + 1])
        /\ Written(<<"typed", input.buf[input.start]>>)
        /\ passed' = passed + 1
        /\ UNCHANGED failed
     \/ /\ host.dead
        /\ do_exit
        /\ UNCHANGED <<input, toPi, passed>>
  /\ UNCHANGED <<pi, toHost, present, typed, asked, calls, runs, resets, unplugs, met>>

(* The user types a byte, or ends the input.                               *)
ReadInput ==
  /\ Looping /\ "in" \in host.ready /\ "out" \notin host.ready
  /\ \/ /\ Troubles < MaxTroubles
        /\ typed' = typed + 1
        /\ input' = [input EXCEPT !.buf[input.end] = typed + 1, !.end = @ + 1]
        /\ host' = [host EXCEPT !.ready = @ \ {"in"}]
     \/ /\ host' = [host EXCEPT !.ready = @ \ {"in"}, !.done = TRUE, !.leave = TRUE]
        /\ UNCHANGED <<typed, input>>
  /\ UNCHANGED <<pi, line, passed, asked, calls, failed, runs, resets, unplugs, met>>

(* A device that is gone reads as the end of the file, or as an error.     *)
ReadDevice ==
  /\ Looping /\ host.ready = {"device"}
  /\ \/ /\ host.dead
        /\ host' \in {[host EXCEPT !.ready = {}, !.done = TRUE], [host EXCEPT !.pc = "exited"]}
        /\ UNCHANGED toHost
     \/ \E n \in 1 .. Len(toHost) :
          /\ ~host.dead
          /\ host' = [host EXCEPT !.ready = {}, !.scan = SubSeq(toHost, 1, n)]
          /\ toHost' = SubSeq(toHost, n + 1, Len(toHost))
  /\ UNCHANGED <<pi, toPi, present, input, counts>>

(* The bytes read are looked through.  The third break begins a call of    *)
(* send_kernel, in which host.pos counts.                                  *)
(* Mutant of BreaksAfter: other bytes do not end a run of breaks.          *)
BreaksAfter_Kept(breaks, byte) == IF byte = "break" THEN breaks + 1 ELSE breaks

BreaksAfter(breaks, byte) == IF byte = "break" THEN breaks + 1 ELSE 0

ScanOutput ==
  /\ host.pc = "loop" /\ host.scan # << >>
  /\ LET breaks == BreaksAfter(host.breaks, Head(host.scan))
     IN IF breaks = 3
        THEN /\ host' = [host EXCEPT !.pc = "sendSize", !.scan = Tail(@), !.breaks = 0, !.pos = 0]
             /\ input' = [input EXCEPT !.start = 0, !.end = 0]
             /\ passed' = typed
             /\ calls' = calls + 1
        ELSE /\ host' = [host EXCEPT !.scan = Tail(@), !.breaks = breaks]
             /\ UNCHANGED <<input, passed, calls>>
  /\ UNCHANGED <<pi, line, typed, asked, failed, runs, resets, unplugs, met>>

LoopEnds ==
  /\ Looping /\ host.ready = {} /\ host.done /\ input.start = input.end
  /\ host' = IF host.leave THEN [host EXCEPT !.pc = "exited"] ELSE [Opening EXCEPT !.breaks = host.breaks]
  /\ UNCHANGED <<pi, line, input, counts>>

(* send_kernel: the host goes on to the next part after n bytes of one.    *)
Step(part, n, next) ==
  host' = IF host.pos + 1 = n THEN [host EXCEPT !.pc = next, !.pos = 0] ELSE [host EXCEPT !.pos = @ + 1]

Sends(part, bytes, next) ==
  /\ host.pc = part /\ ~host.dead
  /\ Written(bytes[host.pos + 1])
  /\ Step(part, Len(bytes), next)
  /\ UNCHANGED <<pi, toHost, present, input, counts>>

SendSize   == Sends("sendSize", SizeOf(calls), "first")
SendKernel == Sends("sendKernel", FileOf(calls), "jump")

(* The third break was read before the device went.                        *)
WriteFails ==
  /\ host.pc = "sendSize" /\ host.dead
  /\ do_exit
  /\ UNCHANGED <<pi, line, input, typed, passed, asked, calls, runs, resets, unplugs, met>>

Reads(part, n, next) ==
  /\ host.pc = part /\ ~host.dead /\ toHost # << >>
  /\ toHost' = Tail(toHost)
  /\ Step(part, n, next)
  /\ UNCHANGED <<pi, toPi, present, input, counts>>

(* One read whose result nobody looks at: without a byte it has none.      *)
ReadsOne(part, next) ==
  /\ host.pc = part
  /\ toHost' = IF toHost = << >> THEN toHost ELSE Tail(toHost)
  /\ host' = [host EXCEPT !.pc = next]
  /\ UNCHANGED <<pi, toPi, present, input, counts>>

(* The letters of "OK" are looked at when both are there.                  *)
ReadsO ==
  /\ host.pc = "O" /\ ~host.dead /\ toHost # << >>
  /\ toHost' = Tail(toHost)
  /\ host' = [host EXCEPT !.pc = IF Head(toHost) = "O" THEN "K" ELSE "notO"]
  /\ UNCHANGED <<pi, toPi, present, input, counts>>

ReadsK ==
  /\ host.pc \in {"K", "notO"} /\ ~host.dead /\ toHost # << >>
  /\ toHost' = Tail(toHost)
  /\ IF host.pc = "K" /\ Head(toHost) = "K"
     THEN host' = [host EXCEPT !.pc = "sendKernel"] /\ UNCHANGED failed
     ELSE do_exit
  /\ UNCHANGED <<pi, toPi, present, input, typed, passed, asked, calls, runs, resets, unplugs, met>>

ReadAnswer ==
  \/ Reads("first", Digits, "space1")
  \/ ReadsOne("space1", "second")
  \/ Reads("second", Digits, "space2")
  \/ ReadsOne("space2", "O")
  \/ ReadsO
  \/ ReadsK

ReadJump == Reads("jump", 4, "loop")

(* By then a read that finds nothing may be an error; or it is tried again. *)
JumpMissing ==
  /\ host.pc = "jump" /\ toHost = << >>
  /\ do_exit
  /\ UNCHANGED <<pi, line, input, typed, passed, asked, calls, runs, resets, unplugs, met>>

Restart ==
  /\ host.pc \in {"exited", "hung"} /\ Troubles + 2 <= MaxTroubles
  /\ host' = Opening /\ input' = NoInput /\ passed' = typed /\ runs' = runs + 1
  /\ UNCHANGED <<pi, line, typed, asked, calls, failed, resets, unplugs, met>>

(* The device goes.  In a call, reads and writes fail, or reads give       *)
(* nothing for ever; in the loop that is how the host learns of it.        *)
Unplug ==
  /\ present /\ Troubles + 2 <= MaxTroubles
  /\ present' = FALSE /\ toPi' = << >> /\ toHost' = << >>
  /\ unplugs' = unplugs + 1
  /\ \/ Calling /\ do_exit
     \/ Calling /\ host' = [host EXCEPT !.pc = "hung"] /\ failed' = failed \cup {calls}
     \/ ~Calling /\ host' = [host EXCEPT !.dead = host.pc = "loop"] /\ UNCHANGED failed
  /\ UNCHANGED <<pi, input, typed, passed, asked, calls, runs, resets, met>>

Plug ==
  /\ ~present
  /\ present' = TRUE
  /\ UNCHANGED <<pi, toPi, toHost, host, input, counts>>

Pi   == uart_putc \/ uart_getc
Call == SendSize \/ WriteFails \/ ReadAnswer \/ SendKernel \/ ReadJump
Loop == open_serial \/ Select \/ CopyInput \/ ReadInput \/ ReadDevice \/ ScanOutput \/ LoopEnds

Next == Pi \/ Call \/ JumpMissing \/ Loop \/ Restart \/ Reset \/ Unplug \/ Plug

(* Both programs go on while they can.                                     *)
Spec == Init /\ [][Next]_vars /\ WF_vars(Pi) /\ WF_vars(Call) /\ WF_vars(Loop)

-----------------------------------------------------------------------------
(* A Pi that took a size that the host sent has, when it jumps, loaded the *)
(* file, the whole file and nothing else, unless the call failed or the Pi *)
(* was reset in it, or the Pi ever took for its own what was typed: no     *)
(* byte is lost and none of another call gets in.  (Twice reset, a Pi may  *)
(* leave an old answer on the line that the next call takes for its own.)  *)
KernelWhole ==
  ~met /\ resets <= 1 =>
    \A call \in (1 .. calls) \ failed :
      pi.pc = "running" /\ pi.size = SizeOf(call) => pi.loaded = FileOf(call)

(* The host sends a kernel only when the Pi asked for one: breaks of two   *)
(* lives of the Pi do not make three, however they are cut into reads.     *)
(* (They may when the device was pulled out in between, and after a second *)
(* reset, when a call reads away what stood between the breaks.)           *)
OnlyWhenAsked == unplugs = 0 /\ resets <= 1 => calls <= asked

(* Of what the user typed, the host keeps in its order all that it has not *)
(* written or thrown away at a call, through writes of any length, shifts  *)
(* of a full buffer and another opening of the device.                     *)
InputKept ==
  /\ input.end - input.start = typed - passed
  /\ \A i \in input.start .. input.end - 1 : input.buf[i] = typed - (input.end - 1 - i)

(* A call ends, with the kernel sent or with an error, as long as nobody   *)
(* disturbs it: the two programs agree on how much each waits for, even    *)
(* when the host has read less than was there.                             *)
Disturbed == met \/ resets + unplugs > 0
LoadEnds == [](Calling => <>(~Calling \/ Disturbed))
=============================================================================
