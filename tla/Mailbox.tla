------------------------------- MODULE Mailbox -------------------------------
(***************************************************************************)
(* The mailbox and the property interface (arch/arm/rpi-mailbox.c and      *)
(* rpi-mailbox-interface.c), with the functions of the kernel that use     *)
(* them.  A caller writes a list of tags into the one buffer `pt`, hands   *)
(* the buffer to the firmware of the VideoCore, waits for its answer and   *)
(* looks tags up in the same buffer.                                       *)
(*                                                                         *)
(* Words are signed 32 bit numbers, as pt has them.  The firmware is       *)
(* external: it walks the list by itself, answers a tag or leaves it as it *)
(* is, and may send messages of other channels at any time.                *)
(***************************************************************************)
EXTENDS Integers, SequencesExt

CONSTANTS
  Words,       \* words of pt (8192)
  LongBytes,   \* the long space for an answer, in bytes (256)
  Depth,       \* messages that mailbox 0 holds (8)
  Requests,    \* requests that are made, each from a caller below
  MaxCalls,    \* bound: requests in a behaviour
  MaxOthers    \* bound: messages of other channels during a request

VARIABLES
  pt, pt_index,    \* the buffer and the next word of it
  property,        \* the static variable of RPI_PropertyGet
  arm_mem_size,    \* of physmem.c
  pc, request,     \* what the kernel does, for whom; adds and gets that remain
  mail0, mail1,    \* messages to the ARM, and to the firmware
  calls, others,   \* requests so far; other messages during this one
  served,          \* tags with their values, as the firmware found them
  answered,        \* those of them that it answered
  got              \* the last RPI_PropertyGet of this request

vars == <<pt, pt_index, property, arm_mem_size, pc, request, mail0, mail1, calls, others, served, answered, got>>

TAG_GET_FIRMWARE_VERSION == 1
TAG_GET_ARM_MEMORY       == 65541
TAG_GET_CLOCKS           == 65543
TAG_GET_POWER_STATE      == 131073
TAG_SET_POWER_STATE      == 163841
TAG_GET_MAX_CLOCK_RATE   == 196612
TAG_ALLOCATE_MEMORY      == 196620
TAG_LOCK_MEMORY          == 196621
TAG_UNLOCK_MEMORY        == 196622
TAG_RELEASE_MEMORY       == 196623
TAG_EXECUTE_CODE         == 196624
TAG_EXECUTE_QPU          == 196625
TAG_ENABLE_QPU           == 196626
TAG_SET_CLOCK_RATE       == 229378
TAG_ALLOCATE_BUFFER      == 262145
TAG_GET_PHYSICAL_SIZE    == 262147
TAG_GET_DEPTH            == 262149
TAG_GET_PITCH            == 262152
TAG_GET_OVERSCAN         == 262154
TAG_RELEASE_BUFFER       == 294913
TAG_SET_PHYSICAL_SIZE    == 294915
TAG_SET_VIRTUAL_SIZE     == 294916
TAG_SET_DEPTH            == 294917
TAG_SET_VIRTUAL_OFFSET   == 294921
TAG_SET_OVERSCAN         == 294922

MB0_TAGS_ARM_TO_VC == 8

(* What AddTag's cases write after the tag: the bytes of space, arguments, *)
(* zeros, and the words that it steps over; of each case the tags that the *)
(* callers use, or one of its tags.                                        *)
Case(bytes, arguments, zeros, over) == [bytes |-> bytes, arguments |-> arguments, zeros |-> zeros, over |-> over]

Layout ==
  [t \in {TAG_GET_FIRMWARE_VERSION, TAG_GET_ARM_MEMORY} |-> Case(8, 0, 0, 2)]
  @@ [t \in {TAG_GET_CLOCKS} |-> Case(LongBytes, 0, 0, LongBytes \div 4)]
  @@ [t \in {TAG_GET_POWER_STATE, TAG_ALLOCATE_BUFFER, TAG_GET_MAX_CLOCK_RATE} |-> Case(8, 1, 1, 0)]
  @@ [t \in {TAG_SET_CLOCK_RATE, TAG_ALLOCATE_MEMORY} |-> Case(12, 3, 0, 0)]
  @@ [t \in {TAG_SET_PHYSICAL_SIZE, TAG_SET_VIRTUAL_SIZE, TAG_SET_VIRTUAL_OFFSET, TAG_SET_POWER_STATE}
        |-> Case(8, 2, 0, 0)]
  @@ [t \in {TAG_GET_PHYSICAL_SIZE} |-> Case(8, 0, 0, 2)]
  @@ [t \in {TAG_SET_DEPTH, TAG_ENABLE_QPU, TAG_LOCK_MEMORY, TAG_UNLOCK_MEMORY, TAG_RELEASE_MEMORY}
        |-> Case(4, 1, 0, 0)]
  @@ [t \in {TAG_GET_DEPTH, TAG_GET_PITCH} |-> Case(4, 0, 0, 1)]
  @@ [t \in {TAG_GET_OVERSCAN} |-> Case(16, 0, 0, 4)]
  @@ [t \in {TAG_SET_OVERSCAN, TAG_EXECUTE_QPU} |-> Case(16, 4, 0, 0)]
  @@ [t \in {TAG_EXECUTE_CODE} |-> Case(28, 7, 0, 0)]

Supported == DOMAIN Layout

-----------------------------------------------------------------------------
(* The callers: the tags they add, with their arguments, and what they get *)
(* after RPI_PropertyProcess, with the words of the answer that they use.  *)
Add(tag, arguments) == <<tag, arguments>>
Get(tag, words)     == <<tag, words>>
Asks(who, adds, gets) == [who |-> who, adds |-> adds, gets |-> gets]

turn_usb(state) == Asks("turn_usb", <<Add(TAG_SET_POWER_STATE, <<3, state>>)>>, <<Get(TAG_SET_POWER_STATE, {})>>)
print_usb_power_state ==
  Asks("print_usb_power_state", <<Add(TAG_GET_POWER_STATE, <<3>>)>>, <<Get(TAG_GET_POWER_STATE, {0, 1})>>)
get_mem_size == Asks("get_mem_size", <<Add(TAG_GET_ARM_MEMORY, << >>)>>, <<Get(TAG_GET_ARM_MEMORY, {1})>>)
get_console_width_height_depth ==
  Asks("get_console_width_height_depth",
       <<Add(TAG_SET_VIRTUAL_OFFSET, <<0, 0>>), Add(TAG_GET_PHYSICAL_SIZE, << >>), Add(TAG_GET_DEPTH, << >>),
         Add(TAG_GET_PITCH, << >>)>>,
       <<Get(TAG_GET_PHYSICAL_SIZE, {0, 1}), Get(TAG_GET_DEPTH, {0}), Get(TAG_GET_PITCH, {0})>>)
get_console_frame_buffer(width, height, depth) ==
  Asks("get_console_frame_buffer",
       <<Add(TAG_SET_VIRTUAL_OFFSET, <<0, 0>>), Add(TAG_SET_PHYSICAL_SIZE, <<width, height>>),
         Add(TAG_SET_VIRTUAL_SIZE, <<width, height>>), Add(TAG_SET_DEPTH, <<depth>>), Add(TAG_ALLOCATE_BUFFER, <<16>>)>>,
       <<Get(TAG_ALLOCATE_BUFFER, {0, 1})>>)

(* set_max_speed makes two requests, init_v3d another one.                 *)
max_clock_rate == Asks("set_max_speed", <<Add(TAG_GET_MAX_CLOCK_RATE, <<5>>)>>, <<Get(TAG_GET_MAX_CLOCK_RATE, {1})>>)
set_max_speed(rate) == Asks("set_max_speed", <<Add(TAG_SET_CLOCK_RATE, <<5, rate, 1>>)>>, <<Get(TAG_SET_CLOCK_RATE, {0})>>)
init_v3d == Asks("init_v3d", <<Add(TAG_ENABLE_QPU, <<1>>)>>, << >>)
v3d_mem_alloc(size, align, flags) ==
  Asks("v3d_mem_alloc", <<Add(TAG_ALLOCATE_MEMORY, <<size, align, flags>>)>>, <<Get(TAG_ALLOCATE_MEMORY, {0})>>)
v3d_mem_free(handle)   == Asks("v3d_mem_free", <<Add(TAG_RELEASE_MEMORY, <<handle>>)>>, <<Get(TAG_RELEASE_MEMORY, {0})>>)
v3d_mem_lock(handle)   == Asks("v3d_mem_lock", <<Add(TAG_LOCK_MEMORY, <<handle>>)>>, <<Get(TAG_LOCK_MEMORY, {0})>>)
v3d_mem_unlock(handle) == Asks("v3d_mem_unlock", <<Add(TAG_UNLOCK_MEMORY, <<handle>>)>>, <<Get(TAG_UNLOCK_MEMORY, {0})>>)
v3d_execute_code(code, r) == Asks("v3d_execute_code", <<Add(TAG_EXECUTE_CODE, <<code>> \o r)>>, << >>)
v3d_execute_qpu(num_qpus, control, noflush, timeout) ==
  Asks("v3d_execute_qpu", <<Add(TAG_EXECUTE_QPU, <<num_qpus, control, noflush, timeout>>)>>,
       <<Get(TAG_UNLOCK_MEMORY, {0})>>)

-----------------------------------------------------------------------------
None == << >>

Init ==
  /\ pt = [i \in 0 .. Words - 1 |-> 0] /\ pt_index = 0
  /\ property = [byte_length |-> 0, data |-> [w \in 0 .. LongBytes \div 4 - 1 |-> 0]]
  /\ arm_mem_size = 0
  /\ pc = "idle" /\ request = None
  /\ mail0 = << >> /\ mail1 = << >>
  /\ calls = 0 /\ others = 0 /\ served = None /\ answered = {} /\ got = None

(* A caller starts with RPI_PropertyInit; get_mem_size only asks once.     *)
RPI_PropertyInit(r) ==
  /\ pc = "idle" /\ calls < MaxCalls
  /\ r.who = "get_mem_size" => arm_mem_size = 0
  /\ pt' = [pt EXCEPT ![0] = 12, ![1] = 0, ![2] = 0] /\ pt_index' = 2
  /\ pc' = "add" /\ request' = r @@ [toAdd |-> r.adds, toGet |-> r.gets]
  /\ calls' = calls + 1 /\ others' = 0 /\ served' = None /\ answered' = {} /\ got' = None
  /\ UNCHANGED <<property, arm_mem_size, mail0, mail1>>

Placed(at, words, buffer) == [i \in DOMAIN buffer |-> IF i \in at .. at + Len(words) - 1 THEN words[i - at + 1] ELSE buffer[i]]

(* Mutant of Terminated: the end of the list is not marked.                *)
Terminated_Open(at, buffer) == buffer

Terminated(at, buffer) == [buffer EXCEPT ![at] = 0]

(* An unsupported tag leaves the list as it was.                           *)
RPI_PropertyAddTag ==
  /\ pc = "add" /\ request.toAdd # << >>
  /\ LET tag   == Head(request.toAdd)[1]
         case  == Layout[tag]
         words == <<tag, case.bytes, 0>> \o Head(request.toAdd)[2] \o [z \in 1 .. case.zeros |-> 0]
         next  == pt_index + Len(words) + case.over
     IN  IF tag \in Supported
         THEN pt_index' = next /\ pt' = Terminated(next, Placed(pt_index, words, pt))
         ELSE pt_index' = pt_index /\ pt' = Terminated(pt_index, pt)
  /\ request' = [request EXCEPT !.toAdd = Tail(@)]
  /\ UNCHANGED <<property, arm_mem_size, pc, mail0, mail1, calls, others, served, answered, got>>

RPI_PropertyProcess ==
  /\ pc = "add" /\ request.toAdd = << >>
  /\ pt' = [pt EXCEPT ![0] = (pt_index + 1) * 4, ![1] = 0]
  /\ pc' = "write"
  /\ UNCHANGED <<pt_index, property, arm_mem_size, request, mail0, mail1, calls, others, served, answered, got>>

(* Mutant of Message: the channel is not added to the address.             *)
Message_NoChannel(channel) == 0

Message(channel) == channel

(* The status it waits for is mailbox 0's, which carries the answers.      *)
RPI_Mailbox0Write ==
  /\ pc = "write" /\ Len(mail0) < Depth
  /\ mail1' = Append(mail1, Message(MB0_TAGS_ARM_TO_VC))
  /\ pc' = "read"
  /\ UNCHANGED <<pt, pt_index, property, arm_mem_size, request, mail0, calls, others, served, answered, got>>

(* Messages of other channels are taken out and thrown away.               *)
RPI_Mailbox0Read ==
  /\ pc = "read" /\ mail0 # << >>
  /\ mail0' = Tail(mail0)
  /\ pc' = IF Head(mail0) = MB0_TAGS_ARM_TO_VC THEN "get" ELSE pc
  /\ UNCHANGED <<pt, pt_index, property, arm_mem_size, request, mail1, calls, others, served, answered, got>>

(* Mutant of Onward: without the three words of a tag's head.              *)
Onward_NoHead(i) == i + pt[i + 1] \div 4 + 2

Onward(i) == i + pt[i + 1] \div 4 + 3

(* The walk of RPI_PropertyGet: the index of the tag, Words when the list  *)
(* ends, and -1 when it goes back (out of the buffer, or round for ever).  *)
Found(tag) ==
  LET from[i \in Nat] ==
        IF i >= pt[0] \div 4 THEN Words
        ELSE IF pt[i] = tag THEN i
        ELSE IF Onward(i) <= i THEN -1
        ELSE from[Onward(i)]
  IN  from[2]

(* The length of an answer is in the low 16 bits; the copy is of whole     *)
(* words, for the tags that are asked for.                                 *)
Copied(i) ==
  LET length == pt[i + 2] % 65536
  IN  [byte_length |-> length,
       data |-> [w \in DOMAIN property.data |-> IF w < length \div 4 THEN pt[i + 3 + w] ELSE property.data[w]]]

RPI_PropertyGet ==
  /\ pc = "get" /\ request.toGet # << >>
  /\ LET get == Head(request.toGet)
         i   == Found(get[1])
     IN  /\ got' = [tag |-> get[1], words |-> get[2],
                    mp |-> IF i = Words THEN "NULL" ELSE IF i = -1 THEN "lost" ELSE "property"]
         /\ property' = IF i \in 0 .. Words - 1 THEN Copied(i) ELSE property
         /\ arm_mem_size' = IF request.who = "get_mem_size" /\ i \in 0 .. Words - 1 THEN property'.data[1]
                            ELSE arm_mem_size
         /\ pc' = IF i = -1 THEN "lost" ELSE pc
  /\ request' = [request EXCEPT !.toGet = Tail(@)]
  /\ UNCHANGED <<pt, pt_index, mail0, mail1, calls, others, served, answered>>

Return ==
  /\ pc = "get" /\ request.toGet = << >>
  /\ pc' = "idle"
  /\ UNCHANGED <<pt, pt_index, property, arm_mem_size, request, mail0, mail1, calls, others, served, answered, got>>

-----------------------------------------------------------------------------
(* The firmware.  The words of the list at which its tags start.           *)
Starts ==
  LET from[i \in Nat] ==
        IF i >= pt[0] \div 4 \/ pt[i] = 0 THEN << >> ELSE <<i>> \o from[i + 3 + pt[i + 1] \div 4]
  IN  from[2]

(* The words of a tag's space, those past the buffer left out.             *)
Space(i) == [w \in {w \in 1 .. pt[i + 1] \div 4 : i + 2 + w < Words} |-> pt[i + 2 + w]]

AnswerWord(call, k, w) == 100 * call + 10 * k + w

AnswerAt(i, k, buffer) ==
  Placed(i + 2, <<pt[i + 1] - 2147483647 - 1>> \o [w \in 1 .. pt[i + 1] \div 4 |-> AnswerWord(calls, k, w - 1)], buffer)

(* It answers all, or all but one of the tags.                             *)
Serve ==
  /\ mail1 = <<MB0_TAGS_ARM_TO_VC>> /\ Len(mail0) < Depth
  /\ served' = [k \in DOMAIN Starts |-> <<pt[Starts[k]], Space(Starts[k])>>]
  /\ \E skipped \in {0} \cup DOMAIN Starts :
       /\ answered' = DOMAIN Starts \ {skipped}
       /\ pt' = FoldLeftDomain(LAMBDA b, k : IF k = skipped THEN b ELSE AnswerAt(Starts[k], k, b), pt, Starts)
  /\ mail1' = << >> /\ mail0' = Append(mail0, MB0_TAGS_ARM_TO_VC)
  /\ UNCHANGED <<pt_index, property, arm_mem_size, pc, request, calls, others, got>>

OtherMessage ==
  /\ pc # "idle" /\ others < MaxOthers /\ Len(mail0) < Depth
  /\ mail0' = Append(mail0, 0) /\ others' = others + 1
  /\ UNCHANGED <<pt, pt_index, property, arm_mem_size, pc, request, mail1, calls, served, answered, got>>

Kernel ==
  \/ \E r \in Requests : RPI_PropertyInit(r)
  \/ RPI_PropertyAddTag
  \/ RPI_PropertyProcess
  \/ RPI_Mailbox0Write
  \/ RPI_Mailbox0Read
  \/ RPI_PropertyGet
  \/ Return

Next == Kernel \/ Serve \/ OtherMessage

(* The kernel runs, and the firmware serves what it is sent.               *)
Spec == Init /\ [][Next]_vars /\ WF_vars(Kernel) /\ WF_vars(Serve)

-----------------------------------------------------------------------------
Asked == SelectSeq(request.adds, LAMBDA add : add[1] \in Supported)

(* The firmware finds the supported tags that the caller added, in their   *)
(* order and with their arguments, and no tag of an earlier request whose  *)
(* words are still in the buffer.                                          *)
ServedAsAsked ==
  served # None =>
    /\ Len(served) = Len(Asked)
    /\ \A k \in DOMAIN served :
         /\ served[k][1] = Asked[k][1]
         /\ IsPrefix(Asked[k][2], served[k][2])

(* What a caller takes from RPI_PropertyGet is the firmware's answer to    *)
(* this very request, when it answered the tag; for a tag that was not     *)
(* added it gets NULL, unless the word behind the list is negative, by     *)
(* which the walk then goes on.                                            *)
TakenIsAnswer ==
  got # None =>
    LET k == SelectInSeq(Asked, LAMBDA add : add[1] = got.tag)
    IN  IF k = 0 THEN got.mp = "NULL" \/ pt[pt_index + 1] < 0
        ELSE /\ got.mp = "property"
             /\ k \in answered => \A w \in got.words : property.data[w] = AnswerWord(calls, k, w)

(* A request that is written is answered, unless mailbox 0 stays full: the *)
(* write waits for room in the mailbox that only the read after it empties.*)
ProcessReturns == []<>(Len(mail0) < Depth) => (pc = "write" ~> pc = "get")

=============================================================================
