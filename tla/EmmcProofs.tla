------------------------------ MODULE EmmcProofs ------------------------------
(***************************************************************************)
(* Theorems about the SD card driver, for every size of the card, every    *)
(* card and every transfer that module Emmc allows: a block holds what a   *)
(* call asked it to hold, but for the one block too many of an erasure,    *)
(* and a transfer that returns OK moved every block it was asked for.      *)
(*                                                                         *)
(* What makes it true is that four parties who do not wait for each other  *)
(* agree on which block is next: the driver (call.done), the host's block  *)
(* of memory (fifo), the host's count (BLKCNT) and the card (card.block).  *)
(* They agree while no error is set, Stream; an error stays set until the  *)
(* driver has seen it and given up.  What a transfer that was given up     *)
(* leaves behind, a block in the host and a card that waits for blocks, is *)
(* harmless: the block is still the one the card waits for, FifoPlaced,    *)
(* and the next command empties the host before the card can be told of    *)
(* another place.                                                          *)
(*                                                                         *)
(* The second part is about the start of a card, StartInv: whatever it was *)
(* left in, it uses the lines of the host from its answer to ALL_SEND_CID  *)
(* on, and SET_BUS_WIDTH is sent only to a card whose answer said that it  *)
(* takes the next command for an application's.                            *)
(*                                                                         *)
(* The third is about what was meant for a block, MeantInv: the block in   *)
(* the host is one that a call asked to write, and when ERASE is sent the  *)
(* card was told the limits of this very erasure, although each of the     *)
(* two commands before it may have failed, come late or gone unanswered.   *)
(***************************************************************************)
EXTENDS Fat, Integers, SequenceTheorems, TLAPS

-----------------------------------------------------------------------------
(* The fields of the driver's records, and what is in them.                *)
EmmcShapes ==
  /\ DOMAIN host = {"ints", "cmd", "arg", "cmdInhibit", "datInhibit", "dir", "BLKCNT", "fifo",
                    "wide", "reply"}
  /\ DOMAIN card = {"kind", "scr", "state", "app", "wide", "blockLen", "left", "block", "from",
                    "misread"}
  /\ DOMAIN sd = {"type", "rca", "powered", "capacity", "voltage", "APP_CMD", "CMD_SUPPORT",
                  "BUS_WIDTH"}
  /\ DOMAIN call = {"op", "at", "cmd", "prefix", "old", "tries", "start", "num", "buffer", "done",
                    "result"}
  /\ disk \in [Blocks -> Nat]
  /\ host.fifo \in Seq(Nat) /\ Len(host.fifo) <= 1
  /\ call.buffer \in Seq(Nat)

(* The type that the driver takes the card for is one whose addresses it   *)
(* takes: who has told of its capacity is a card that counts in blocks.    *)
TypeAgrees ==
  /\ host.reply.capacity = (host.reply.powered /\ card.kind = "HC")
  /\ sd.type = "TYPE_2_HC" => card.kind = "HC"
  /\ sd.type = "TYPE_2_SC" => card.kind # "HC"
  /\ sd.type \in SDTypes

(* A command on its way has an empty host and a taken command line.        *)
WireKnown ==
  /\ host.cmd # "none" => host.fifo = << >> /\ host.cmdInhibit
  /\ "WRITE_RDY" \in host.ints => host.fifo = << >> /\ host.dir = "write"

(* A block that waits in the host for the card is the one it waits for.    *)
FifoPlaced ==
  host.fifo # << >> /\ host.dir = "write" /\ card.state = "rcv" /\ card.block \in Blocks
    => host.fifo[1] = New(card.block)

(* A block that has a number goes to its place, or comes from there.       *)
Placed == call.start \in Int /\ sd.type # "TYPE_1"

Moves == call.op \in {"read", "write"}
Clean == host.ints \cap {"ERR", "CTO_ERR", "DTO_ERR"} = {}

(* A transfer in progress, and its place in the driver.                    *)
TransferKnown ==
  /\ call.num \in Nat \ {0} /\ call.done \in 0 .. call.num /\ ~call.prefix
  /\ sd.type # "UNKNOWN"
  /\ call.at \in {"waitData", "send", "sent", "data", "done"}
  /\ call.at \in {"send", "sent"} => call.cmd \in {"SET_BLOCKCNT", TransferCommand, "STOP_TRANS"}
  /\ call.op = "write" => /\ Placed
                          /\ call.buffer = [i \in 1 .. call.num |-> New(call.start + i - 1)]
  /\ call.op = "read" => call.at # "done" /\ (Placed => Len(call.buffer) = call.done)
  /\ call.at = "waitData" \/ (call.at \in {"send", "sent"} /\ call.cmd # "STOP_TRANS")
       => call.done = 0

(* The command of a transfer is with the card, or was answered.            *)
Commanded ==
  call.at = "sent" =>
    /\ host.cmd # "none" => host.cmd = call.cmd /\ host.arg = Argument /\ host.ints = {}
    /\ call.cmd = TransferCommand => /\ host.dir = call.op
                                     /\ host.cmd # "none" => host.BLKCNT = call.num

(* What of the blocks is where: those read so far, and the next one in the *)
(* host; those written so far, all but the last certainly on the card.     *)
StreamRead ==
  /\ card.state = "data" => card.block = call.start + call.done + Len(host.fifo)
  /\ host.fifo # << >> => call.start + call.done \in Blocks /\ host.fifo[1] = disk[call.start + call.done]
  /\ "READ_RDY" \in host.ints => host.fifo # << >>
  /\ \A i \in 1 .. call.done : call.start + i - 1 \in Blocks /\ call.buffer[i] = disk[call.start + i - 1]

StreamWrite ==
  /\ card.state = "rcv" => card.block = call.start + call.done - Len(host.fifo)
  /\ host.fifo # << >> => call.done > 0 /\ host.fifo[1] = New(call.start + call.done - 1)
  /\ host.BLKCNT = call.num - call.done + Len(host.fifo)
  /\ "DATA_DONE" \in host.ints => call.done = call.num /\ host.fifo = << >>
  /\ \A i \in 1 .. call.done - Len(host.fifo) :
       call.start + i - 1 \in Blocks /\ disk[call.start + i - 1] = New(call.start + i - 1)

Stream == /\ call.op = "read" /\ Placed => StreamRead
          /\ call.op = "write" => StreamWrite

Answers == /\ call.at = "sent" /\ call.cmd = TransferCommand /\ host.cmd = "none"
           /\ "CMD_DONE" \in host.ints /\ ~host.reply.error

Streams ==
  /\ Answers /\ Clean => Stream
  /\ call.at \in {"data", "done"} =>
       /\ host.cmd = "none" /\ host.dir = call.op
       /\ call.at = "data" => call.done < call.num
       /\ call.at = "done" => call.done = call.num
       /\ Clean => Stream

(* A transfer of which all that is left is to be stopped, or nothing: all  *)
(* its blocks are in place, and nothing can be put there any more.         *)
Complete ==
  /\ host.fifo = << >> \/ host.dir # "write"
  /\ host.cmd \in {"none", "STOP_TRANS"}
  /\ Placed => /\ Len(call.buffer) = call.num
               /\ \A i \in 1 .. call.num : /\ call.start + i - 1 \in Blocks
                                           /\ call.buffer[i] = disk[call.start + i - 1]
Ended == \/ call.at \in {"send", "sent"} /\ call.cmd = "STOP_TRANS"
         \/ call.at = "idle" /\ call.result = "OK"

CallKnown ==
  /\ Moves /\ call.at # "idle" => TransferKnown /\ Commanded /\ Streams
  /\ Moves /\ Ended => Complete /\ call.num \in Nat

(* What a block can hold.                                                  *)
DiskValues == \A b \in Blocks : disk[b] \in {b, New(b), Erased}

EmmcInv == EmmcShapes /\ TypeAgrees /\ WireKnown /\ FifoPlaced /\ CallKnown /\ DiskValues

-----------------------------------------------------------------------------
(* An address that the driver makes of a block's number is that block, for *)
(* a card of the type it is taken for.                                     *)
LEMMA ByteAddress ==
  ASSUME NEW b \in Int, NEW n \in Nat \ {0}
  PROVE  (b * n) % n = 0 /\ (b * n) \div n = b
<1> DEFINE q == (b * n) \div n
           r == (b * n) % n
<1>1. q \in Int /\ r \in 0 .. n - 1 /\ b * n = n * q + r  OBVIOUS
<1>2. (b - q) * n = r  BY <1>1
<1>3. b - q = 0
  <2>1. ASSUME b - q >= 1 PROVE FALSE
    <3>1. (b - q) * n = n + (b - q - 1) * n  BY <1>1
    <3>2. (b - q - 1) * n >= 0  BY <1>1, <2>1
    <3> QED  BY <1>1, <1>2, <3>1, <3>2
  <2>2. ASSUME b - q <= -1 PROVE FALSE
    <3>1. (b - q) * n = -n - (q - b - 1) * n  BY <1>1
    <3>2. (q - b - 1) * n >= 0  BY <1>1, <2>2
    <3> QED  BY <1>1, <1>2, <3>1, <3>2
  <2> QED  BY <1>1, <2>1, <2>2
<1> QED  BY <1>1, <1>2, <1>3

LEMMA AddressIsBlock ==
  ASSUME TypeAgrees, sd.type \in {"TYPE_2_SC", "TYPE_2_HC"}, NEW b \in Int
  PROVE  FirstBlock(blockAddress(b)) = b
<1>1. CASE sd.type = "TYPE_2_SC"
  BY <1>1, ByteAddress, EmmcAssumption DEF FirstBlock, blockAddress, TypeAgrees
<1>2. CASE sd.type = "TYPE_2_HC"
  BY <1>2 DEF FirstBlock, blockAddress, TypeAgrees
<1> QED  BY <1>1, <1>2

LEMMA AddressIsPlace ==
  ASSUME TypeAgrees, Placed, sd.type # "UNKNOWN"
  PROVE  FirstBlock(blockAddress(call.start)) = call.start
BY AddressIsBlock DEF TypeAgrees, SDTypes, Placed

(* What a wait says is whether an error is set.                            *)
LEMMA WaitedClean == (Waited(host.ints) = "OK") <=> Clean
BY DEF Waited, Clean, INT_ERROR_MASK

(* A call that was given up, and one that moves no blocks, promise nothing.*)
LEMMA NothingPromised ==
  ASSUME (call'.at = "idle" /\ call'.result # "OK") \/ call'.op \notin {"read", "write"}
  PROVE  CallKnown'
BY DEF CallKnown, Moves, Ended

LEMMA ReturnedShape ==
  ASSUME NEW result, Return(result), EmmcShapes
  PROVE  /\ DOMAIN call' = DOMAIN call /\ call'.buffer \in Seq(Nat)
         /\ call'.op = call.op /\ call'.at = "idle" /\ call'.result = result
         /\ call'.start \in {call.start, 0}
         /\ result = "OK" => call'.start = call.start /\ call'.num = call.num /\ call'.buffer = call.buffer
<1>1. << >> \in Seq(Nat)  OBVIOUS
<1>2. CASE result = "OK"  BY <1>2 DEF Return, Returned, NoCall, EmmcShapes
<1>3. CASE result # "OK"  BY <1>1, <1>3 DEF Return, Returned, NoCall, EmmcShapes
<1> QED  BY <1>2, <1>3

(* The card after a command it obeys: of the same kind, and in a transfer  *)
(* at the place it was told.                                               *)
LEMMA ObeyedShape ==
  ASSUME EmmcShapes, NEW cmd, NEW arg
  PROVE  /\ DOMAIN Obeyed(cmd, arg) = DOMAIN card
         /\ Obeyed(cmd, arg).kind = card.kind
         /\ cmd \in {"READ_SINGLE", "READ_MULTI", "WRITE_SINGLE", "WRITE_MULTI"}
              => Obeyed(cmd, arg).block = FirstBlock(arg)
<1> DEFINE busy == card.state \in {"data", "rcv"}
           next == [card EXCEPT !.app = cmd = "APP_CMD", !.block = IF busy THEN @ ELSE 0,
                                !.left = IF busy \/ cmd \in MultiCommands THEN @ ELSE 0,
                                !.from = IF cmd = "ERASE_WR_END" THEN @ ELSE 0]
<1>1. DOMAIN next = DOMAIN card /\ next.kind = card.kind  BY DEF EmmcShapes
<1> HIDE DEF next
<1> QED  BY <1>1 DEF Obeyed, MultiCommands, EmmcShapes

-----------------------------------------------------------------------------
(* What the card and the host do while no command is on its way leaves     *)
(* alone where the driver is: what is to be shown is that the blocks go on *)
(* to agree.                                                               *)
LEMMA DataStep ==
  ASSUME EmmcInv, UNCHANGED <<sd, call>>,
         host.cmd = "none", host'.cmd = "none", host'.dir = host.dir, host'.reply = host.reply,
         "CMD_DONE" \in host'.ints => "CMD_DONE" \in host.ints,
         Clean' => Clean,
         Moves /\ TransferKnown /\ host.dir = call.op /\ Stream /\ Clean' => Stream',
         Moves /\ Complete => Complete'
  PROVE  CallKnown'
<1>1. Moves' = Moves /\ Ended' = Ended  BY DEF Moves, Ended
<1>2. ASSUME Moves, call.at # "idle" PROVE (TransferKnown /\ Commanded /\ Streams)'
  <2>1. TransferKnown /\ Commanded /\ Streams  BY <1>2 DEF EmmcInv, CallKnown
  <2>2. TransferKnown'  BY <2>1 DEF TransferKnown, Placed, TransferCommand
  <2>3. Commanded'  BY <2>1 DEF Commanded, TransferCommand
  <2>4. Answers' => Answers  BY DEF Answers, TransferCommand
  <2>5. ASSUME Answers', Clean' PROVE Stream'
    <3>1. host.dir = call.op  BY <2>1, <2>4, <2>5 DEF Commanded, Answers
    <3>2. Stream  BY <2>1, <2>4, <2>5 DEF Streams
    <3> QED  BY <1>2, <2>1, <2>5, <3>1, <3>2
  <2>6. ASSUME call.at \in {"data", "done"}, Clean' PROVE Stream'
    BY <1>2, <2>1, <2>6 DEF Streams
  <2>7. Streams'  BY <2>1, <2>5, <2>6 DEF Streams
  <2> QED  BY <2>2, <2>3, <2>7
<1>3. ASSUME Moves, Ended PROVE Complete' /\ call.num \in Nat
  BY <1>3 DEF EmmcInv, CallKnown
<1> QED  BY <1>1, <1>2, <1>3 DEF CallKnown

LEMMA FifoValues == ASSUME EmmcShapes, host.fifo # << >> PROVE Len(host.fifo) = 1 /\ host.fifo[1] \in Nat
<1>1. host.fifo \in Seq(Nat) /\ Len(host.fifo) <= 1  BY DEF EmmcShapes
<1>2. Len(host.fifo) # 0  BY <1>1, EmptySeq
<1>3. Len(host.fifo) \in Nat  BY <1>1, LenProperties
<1>4. ASSUME NEW n \in Nat, n <= 1, n # 0 PROVE n = 1  BY <1>4
<1>5. Len(host.fifo) <= 1  BY <1>1
<1>6. Len(host.fifo) = 1  BY ONLY <1>2, <1>3, <1>4, <1>5
<1> QED  BY <1>1, <1>6, ElementOfSeq

LEMMA OneBlockOnShape ==
  ASSUME EmmcShapes
  PROVE  /\ DOMAIN OneBlockOn = DOMAIN card /\ OneBlockOn.kind = card.kind
         /\ OneBlockOn.state \in {card.state, "tran"}
         /\ OneBlockOn.state = card.state /\ card.state # "tran" => OneBlockOn.block = card.block + 1
BY DEF OneBlockOn, EmmcShapes

LEMMA CardSendsKeepsInv == ASSUME EmmcInv, CardSends PROVE EmmcInv'
<1> USE DEF CardSends, Streaming
<1>1. EmmcShapes /\ TypeAgrees /\ WireKnown /\ FifoPlaced /\ DiskValues  BY DEF EmmcInv
<1>2. host'.fifo = <<disk[card.block]>> /\ disk[card.block] \in Nat /\ host'.ints = host.ints \cup {"READ_RDY"}
      /\ host'.dir = "read" /\ host'.cmd = "none" /\ host'.reply = host.reply /\ host'.BLKCNT = host.BLKCNT - 1
      /\ DOMAIN host' = DOMAIN host
  BY <1>1 DEF EmmcShapes
<1>3. /\ DOMAIN card' = DOMAIN card /\ card'.kind = card.kind
      /\ card'.state \in {"data", "tran"} /\ (card'.state = "data" => card'.block = card.block + 1)
  BY <1>1, OneBlockOnShape
<1>4. EmmcShapes'
  <2>1. host'.fifo \in Seq(Nat) /\ Len(host'.fifo) = 1  BY <1>2
  <2> QED  BY <1>1, <1>2, <1>3, <2>1 DEF EmmcShapes
<1>5. TypeAgrees'  BY <1>1, <1>2, <1>3 DEF TypeAgrees
<1>6. WireKnown'  BY <1>1, <1>2 DEF WireKnown
<1>7. FifoPlaced'  BY <1>2, <1>3 DEF FifoPlaced
<1>8. DiskValues'  BY <1>1 DEF DiskValues
<1>9. ASSUME Moves, TransferKnown, host.dir = call.op, Stream PROVE Stream'
  <2>1. call.op = "read" /\ call.done \in Nat  BY <1>9 DEF TransferKnown
  <2>2. ASSUME Placed PROVE StreamRead'
    <3>1. StreamRead /\ call.start \in Int  BY <1>9, <2>1, <2>2 DEF Stream, Placed
    <3>2. card.block = call.start + call.done  BY <2>1, <3>1 DEF StreamRead
    <3> QED  BY <1>2, <1>3, <2>1, <3>1, <3>2 DEF StreamRead
  <2> QED  BY <2>1, <2>2 DEF Stream, Placed
<1>10. Complete => Complete'  BY <1>2 DEF Complete, Placed
<1>11. CallKnown'
  <2>1. Clean' => Clean  BY <1>2 DEF Clean
  <2> QED  BY <1>2, <1>9, <1>10, <2>1, DataStep
<1> QED  BY <1>4, <1>5, <1>6, <1>7, <1>8, <1>11 DEF EmmcInv

LEMMA HostWantsKeepsInv == ASSUME EmmcInv, HostWants PROVE EmmcInv'
<1> USE DEF HostWants, Streaming
<1>1. EmmcShapes /\ TypeAgrees /\ WireKnown /\ FifoPlaced /\ DiskValues  BY DEF EmmcInv
<1>2. /\ host'.fifo = host.fifo /\ host'.ints = host.ints \cup {"WRITE_RDY"} /\ host'.dir = "write"
      /\ host'.cmd = "none" /\ host'.reply = host.reply /\ host'.BLKCNT = host.BLKCNT
      /\ DOMAIN host' = DOMAIN host
  BY <1>1 DEF EmmcShapes
<1>3. EmmcShapes'  BY <1>1, <1>2 DEF EmmcShapes
<1>4. TypeAgrees' /\ WireKnown' /\ FifoPlaced' /\ DiskValues'
  BY <1>1, <1>2 DEF TypeAgrees, WireKnown, FifoPlaced, DiskValues
<1>5. Stream => Stream'  BY <1>2 DEF Stream, StreamRead, StreamWrite, Placed
<1>6. Complete => Complete'  BY <1>2 DEF Complete, Placed
<1>7. Clean' => Clean  BY <1>2 DEF Clean
<1>8. CallKnown'  BY <1>2, <1>5, <1>6, <1>7, DataStep
<1> QED  BY <1>3, <1>4, <1>8 DEF EmmcInv

LEMMA CardStoresKeepsInv == ASSUME EmmcInv, CardStores PROVE EmmcInv'
<1> USE DEF CardStores, Streaming
<1>1. EmmcShapes /\ TypeAgrees /\ WireKnown /\ FifoPlaced /\ DiskValues  BY DEF EmmcInv
<1>2. /\ host'.fifo = << >> /\ host'.ints = host.ints /\ host'.dir = "write"
      /\ host'.cmd = "none" /\ host'.reply = host.reply /\ host'.BLKCNT = host.BLKCNT - 1
      /\ DOMAIN host' = DOMAIN host
  BY <1>1 DEF EmmcShapes
<1>3. /\ DOMAIN card' = DOMAIN card /\ card'.kind = card.kind
      /\ card'.state \in {"rcv", "tran"} /\ (card'.state = "rcv" => card'.block = card.block + 1)
  BY <1>1, OneBlockOnShape
<1>4. Len(host.fifo) = 1 /\ Head(host.fifo) = host.fifo[1] /\ host.fifo[1] \in Nat
  BY <1>1, FifoValues DEF EmmcShapes
<1>5. disk' = [disk EXCEPT ![card.block] = New(card.block)]  BY <1>1, <1>4 DEF FifoPlaced
<1>6. EmmcShapes'
  <2>1. << >> \in Seq(Nat) /\ Len(<< >>) = 0  OBVIOUS
  <2>2. disk' \in [Blocks -> Nat]  BY <1>1, <1>4 DEF EmmcShapes
  <2> QED  BY <1>1, <1>2, <1>3, <2>1, <2>2 DEF EmmcShapes
<1>7. TypeAgrees' /\ WireKnown' /\ FifoPlaced'
  BY <1>1, <1>2, <1>3 DEF TypeAgrees, WireKnown, FifoPlaced
<1>8. DiskValues'  BY <1>1, <1>5 DEF DiskValues, EmmcShapes
<1>9. ASSUME Moves, TransferKnown, host.dir = call.op, Stream PROVE Stream'
  <2>1. /\ call.op = "write" /\ call.done \in Nat /\ call.num \in Nat /\ Placed /\ call.start \in Int
        /\ StreamWrite
    BY <1>9 DEF TransferKnown, Placed, Stream
  <2>2. card.block = call.start + call.done - 1 /\ call.done > 0  BY <1>4, <2>1 DEF StreamWrite
  <2>3. ~("DATA_DONE" \in host.ints)  BY <2>1 DEF StreamWrite
  <2>4. ASSUME NEW i \in 1 .. call.done
        PROVE  call.start + i - 1 \in Blocks /\ disk'[call.start + i - 1] = New(call.start + i - 1)
    <3>1. CASE i = call.done
      <4>1. call.start + i - 1 = card.block  BY <2>1, <2>2, <3>1
      <4> QED  BY <1>1, <1>5, <4>1 DEF EmmcShapes
    <3>2. CASE i # call.done
      <4>1. i \in 1 .. call.done - Len(host.fifo)  BY <1>4, <2>1, <3>2
      <4>2. call.start + i - 1 \in Blocks /\ disk[call.start + i - 1] = New(call.start + i - 1)
        BY <2>1, <4>1 DEF StreamWrite
      <4> QED  BY <1>1, <1>5, <4>2 DEF EmmcShapes
    <3> QED  BY <3>1, <3>2
  <2>5. StreamWrite'
    <3>1. Len(host'.fifo) = 0  BY <1>2
    <3>2. host'.BLKCNT = call.num - call.done + Len(host'.fifo)
      BY <1>2, <1>4, <2>1, <3>1 DEF StreamWrite
    <3>3. card'.state = "rcv" => card'.block = call.start + call.done - Len(host'.fifo)
      BY <1>3, <2>1, <2>2, <3>1
    <3>4. call'.done - Len(host'.fifo) = call.done  BY <2>1, <3>1
    <3>5. \A i \in 1 .. call'.done - Len(host'.fifo) :
            call'.start + i - 1 \in Blocks /\ disk'[call'.start + i - 1] = New(call'.start + i - 1)
      BY <2>4, <3>4
    <3> QED  BY <1>2, <2>3, <3>2, <3>3, <3>5 DEF StreamWrite
  <2> QED  BY <2>1, <2>5 DEF Stream
<1>10. Complete => Complete'  BY DEF Complete
<1>11. Clean' => Clean  BY <1>2 DEF Clean
<1>12. CallKnown'  BY <1>2, <1>9, <1>10, <1>11, DataStep
<1> QED  BY <1>6, <1>7, <1>8, <1>12 DEF EmmcInv

LEMMA DataEndsKeepsInv == ASSUME EmmcInv, DataEnds PROVE EmmcInv'
<1> USE DEF DataEnds
<1>1. EmmcShapes /\ TypeAgrees /\ WireKnown /\ FifoPlaced /\ DiskValues  BY DEF EmmcInv
<1>2. /\ host'.fifo = host.fifo /\ host'.ints = host.ints \cup {"DATA_DONE"} /\ host'.dir = host.dir
      /\ host'.cmd = "none" /\ host'.reply = host.reply /\ host'.BLKCNT = host.BLKCNT
      /\ DOMAIN host' = DOMAIN host
  BY <1>1 DEF EmmcShapes
<1>3. EmmcShapes'  BY <1>1, <1>2 DEF EmmcShapes
<1>4. TypeAgrees' /\ WireKnown' /\ FifoPlaced' /\ DiskValues'
  BY <1>1, <1>2 DEF TypeAgrees, WireKnown, FifoPlaced, DiskValues
<1>5. ASSUME Moves, TransferKnown, host.dir = call.op, Stream PROVE Stream'
  <2>1. call.op = "write" => call.done = call.num /\ host.fifo = << >>
    BY <1>5 DEF Stream, StreamWrite, TransferKnown
  <2> QED  BY <1>2, <1>5, <2>1 DEF Stream, StreamRead, StreamWrite, Placed
<1>6. Complete => Complete'  BY <1>2 DEF Complete, Placed
<1>7. Clean' => Clean  BY <1>2 DEF Clean
<1>8. CallKnown'  BY <1>2, <1>5, <1>6, <1>7, DataStep
<1> QED  BY <1>3, <1>4, <1>8 DEF EmmcInv

LEMMA DataFailsKeepsInv == ASSUME EmmcInv, DataFails PROVE EmmcInv'
<1>1. EmmcShapes /\ TypeAgrees /\ WireKnown /\ FifoPlaced /\ DiskValues  BY DEF EmmcInv
<1>2. PICK bits \in {{"ERR"}, {"ERR", "DTO_ERR"}}, datInhibit \in BOOLEAN :
        host' = [host EXCEPT !.ints = @ \cup bits, !.datInhibit = datInhibit, !.fifo = << >>]
  BY DEF DataFails
<1>3. /\ host'.fifo = << >> /\ host'.ints = host.ints \cup bits /\ host'.dir = host.dir
      /\ host'.cmd = host.cmd /\ host.cmd = "none" /\ host'.reply = host.reply
      /\ DOMAIN host' = DOMAIN host /\ UNCHANGED <<card, disk, sd, call>>
  BY <1>1, <1>2 DEF EmmcShapes, DataFails
<1>4. EmmcShapes'
  <2>1. << >> \in Seq(Nat) /\ Len(<< >>) = 0  OBVIOUS
  <2> QED  BY <1>1, <1>3, <2>1 DEF EmmcShapes
<1>5. TypeAgrees' /\ WireKnown' /\ FifoPlaced' /\ DiskValues'
  BY <1>1, <1>3 DEF TypeAgrees, WireKnown, FifoPlaced, DiskValues
<1>6. ~Clean'  BY <1>3 DEF Clean
<1>7. Complete => Complete'  BY <1>3 DEF Complete, Placed
<1>8. "CMD_DONE" \in host'.ints => "CMD_DONE" \in host.ints  BY <1>3
<1>9. CallKnown'  BY <1>3, <1>6, <1>7, <1>8, DataStep
<1> QED  BY <1>4, <1>5, <1>9 DEF EmmcInv

-----------------------------------------------------------------------------
(* A command reaches the card, or nobody.                                  *)
LEMMA TransferCommands ==
  ASSUME Moves
  PROVE  /\ call.op = "read"  => TransferCommand \in {"READ_SINGLE", "READ_MULTI"}
         /\ call.op = "write" => TransferCommand \in {"WRITE_SINGLE", "WRITE_MULTI"}
         /\ TransferCommand \in MultiCommands <=> call.num # 1
         /\ TransferCommand \in DOMAIN DataCommands /\ DataCommands[TransferCommand] = call.op
BY DEF TransferCommand, Moves, MultiCommands, DataCommands

LEMMA CardAnswersKeepsInv == ASSUME EmmcInv, CardAnswers PROVE EmmcInv'
<1>1. EmmcShapes /\ TypeAgrees /\ WireKnown /\ FifoPlaced /\ DiskValues  BY DEF EmmcInv
<1>2. PICK error \in BOOLEAN, powered \in BOOLEAN, spoilt \in BOOLEAN :
        Reaches(error, powered, spoilt)
  BY DEF CardAnswers
<1> USE DEF Reaches
<1>3. /\ host'.cmd = "none" /\ host'.fifo = host.fifo /\ host'.dir = host.dir
      /\ host'.BLKCNT = host.BLKCNT /\ DOMAIN host' = DOMAIN host
      /\ host'.ints = host.ints \cup IF spoilt THEN {"ERR"} ELSE {"CMD_DONE"}
  BY <1>1, <1>2 DEF EmmcShapes
<1>4. /\ host'.reply.error = error /\ host'.reply.powered = powered
      /\ host'.reply.capacity = (powered /\ card.kind = "HC")
  BY <1>1, <1>2 DEF EmmcShapes
<1>5. host.cmd # "none" /\ host.fifo = << >> /\ UNCHANGED <<sd, call>>  BY <1>1 DEF CardAnswers, WireKnown
<1>6. DOMAIN card' = DOMAIN card /\ card'.kind = card.kind
  <2>1. CASE error  BY <1>1, <1>2, <2>1 DEF EmmcShapes
  <2>2. CASE ~error  BY <1>1, <1>2, <2>2, ObeyedShape DEF EmmcShapes
  <2> QED  BY <2>1, <2>2
<1>7. disk' \in [Blocks -> Nat] /\ DiskValues'
  <2>1. Erased \in Nat  BY EmmcAssumption DEF Erased, New
  <2>2. CASE disk' = disk  BY <1>1, <2>2 DEF DiskValues, EmmcShapes
  <2>3. CASE disk' = [b \in Blocks |-> IF b \in card.from .. card.block THEN Erased ELSE disk[b]]
    BY <1>1, <2>1, <2>3 DEF DiskValues, EmmcShapes
  <2> QED  BY <1>2, <2>2, <2>3
<1>8. EmmcShapes'  BY <1>1, <1>3, <1>5, <1>6, <1>7 DEF EmmcShapes
<1>9. TypeAgrees' /\ WireKnown' /\ FifoPlaced'
  BY <1>1, <1>3, <1>4, <1>5, <1>6 DEF TypeAgrees, WireKnown, FifoPlaced
<1>10. ASSUME Moves, call.at # "idle" PROVE (TransferKnown /\ Commanded /\ Streams)'
  <2>1. TransferKnown /\ Commanded /\ Streams  BY <1>10 DEF EmmcInv, CallKnown
  <2>2. TransferKnown'  BY <1>5, <2>1 DEF TransferKnown, Placed, TransferCommand
  <2>3. Commanded'  BY <1>3, <1>5, <2>1 DEF Commanded, TransferCommand
  <2>4. call.at \notin {"data", "done"}  BY <1>5, <2>1 DEF Streams
  <2>5. ASSUME Answers', Clean' PROVE Stream'
    <3>1. /\ call.at = "sent" /\ call.cmd = TransferCommand /\ ~error
          /\ host.cmd = TransferCommand /\ host.arg = Argument /\ host.ints = {}
          /\ host.BLKCNT = call.num /\ call.done = 0
      <4>1. call.at = "sent" /\ call.cmd = TransferCommand /\ ~error
        BY <1>4, <1>5, <2>5 DEF Answers, TransferCommand
      <4>2. call.cmd # "STOP_TRANS"  BY <1>10, <4>1, TransferCommands DEF Moves
      <4> QED  BY <1>5, <2>1, <4>1, <4>2 DEF Commanded, TransferKnown
    <3>2. host.cmd \in {"READ_SINGLE", "READ_MULTI", "WRITE_SINGLE", "WRITE_MULTI"}
      BY <1>10, <3>1, TransferCommands DEF Moves
    <3>3. host.arg = blockAddress(call.start)
      BY <2>1, <3>1, <3>2 DEF Argument, TransferKnown
    <3>4. card'.block = FirstBlock(host.arg)
      <4>1. ~powered  BY <1>2, <3>2
      <4>2. "block" \in DOMAIN Obeyed(host.cmd, host.arg)  BY <1>1, ObeyedShape DEF EmmcShapes
      <4>3. card'.block = Obeyed(host.cmd, host.arg).block  BY <1>2, <3>1, <4>2
      <4> QED  BY <1>1, <3>2, <4>3, ObeyedShape
    <3>5. ASSUME Placed PROVE card'.block = call.start /\ call.start \in Int
      BY <1>1, <2>1, <3>3, <3>4, <3>5, AddressIsPlace DEF TransferKnown, Placed
    <3>6. host'.ints = {"CMD_DONE"} /\ host'.fifo = << >> /\ Len(host'.fifo) = 0
      BY <1>3, <1>5, <2>5, <3>1 DEF Clean
    <3>7. ASSUME call.op = "read", Placed PROVE StreamRead'
      BY <1>5, <3>1, <3>5, <3>6, <3>7 DEF StreamRead
    <3>8. ASSUME call.op = "write" PROVE StreamWrite'
      <4>1. Placed /\ call.num \in Nat  BY <2>1, <3>8 DEF TransferKnown
      <4> QED  BY <1>3, <1>5, <3>1, <3>5, <3>6, <4>1 DEF StreamWrite
    <3> QED  BY <1>5, <3>7, <3>8 DEF Stream, Placed
  <2>6. Streams'  BY <1>5, <2>4, <2>5 DEF Streams
  <2> QED  BY <2>2, <2>3, <2>6
<1>11. ASSUME Moves, Ended PROVE Complete' /\ call.num \in Nat
  <2>1. Complete /\ call.num \in Nat  BY <1>11 DEF EmmcInv, CallKnown
  <2>2. disk' = disk  BY <1>2, <1>5, <2>1 DEF Complete
  <2> QED  BY <1>3, <1>5, <2>1, <2>2 DEF Complete, Placed
<1>12. CallKnown'  BY <1>5, <1>10, <1>11 DEF CallKnown, Moves, Ended
<1> QED  BY <1>7, <1>8, <1>9, <1>12 DEF EmmcInv

LEMMA NoAnswerKeepsInv == ASSUME EmmcInv, NoAnswer PROVE EmmcInv'
<1>1. EmmcShapes /\ TypeAgrees /\ WireKnown /\ FifoPlaced /\ DiskValues  BY DEF EmmcInv
<1>2. PICK cmdInhibit \in BOOLEAN, datInhibit \in BOOLEAN :
        host' = [host EXCEPT !.cmd = "none", !.arg = 0, !.cmdInhibit = cmdInhibit,
                   !.datInhibit = datInhibit,
                   !.ints = @ \cup IF Silent(host.cmd) THEN {"CMD_DONE"} ELSE {"ERR", "CTO_ERR"}]
  BY DEF NoAnswer
<1>3. /\ host'.cmd = "none" /\ host'.fifo = host.fifo /\ host'.dir = host.dir
      /\ host'.BLKCNT = host.BLKCNT /\ host'.reply = host.reply /\ DOMAIN host' = DOMAIN host
      /\ host'.ints = host.ints \cup IF Silent(host.cmd) THEN {"CMD_DONE"} ELSE {"ERR", "CTO_ERR"}
  BY <1>1, <1>2 DEF EmmcShapes
<1>4. host.cmd # "none" /\ host.fifo = << >> /\ UNCHANGED <<disk, sd, call>>  BY <1>1 DEF NoAnswer, WireKnown
<1>5. DOMAIN card' = DOMAIN card /\ card'.kind = card.kind  BY <1>1 DEF NoAnswer, EmmcShapes
<1>6. EmmcShapes'  BY <1>1, <1>3, <1>4, <1>5 DEF EmmcShapes
<1>7. TypeAgrees' /\ WireKnown' /\ FifoPlaced' /\ DiskValues'
  BY <1>1, <1>3, <1>4, <1>5 DEF TypeAgrees, WireKnown, FifoPlaced, DiskValues
<1>8. ASSUME Moves, call.at # "idle" PROVE (TransferKnown /\ Commanded /\ Streams)'
  <2>1. TransferKnown /\ Commanded /\ Streams  BY <1>8 DEF EmmcInv, CallKnown
  <2>2. TransferKnown'  BY <1>4, <2>1 DEF TransferKnown, Placed, TransferCommand
  <2>3. Commanded'  BY <1>3, <1>4, <2>1 DEF Commanded, TransferCommand
  <2>4. call.at \notin {"data", "done"}  BY <1>4, <2>1 DEF Streams
  <2>5. ~(Answers' /\ Clean')
    <3>1. SUFFICES ASSUME Answers' PROVE ~Clean'  OBVIOUS
    <3>2. call.at = "sent" /\ call.cmd = TransferCommand  BY <1>4, <3>1 DEF Answers, TransferCommand
    <3>3. host.cmd = TransferCommand  BY <1>4, <2>1, <3>2 DEF Commanded
    <3>4. ~Silent(host.cmd)  BY <1>8, <3>3, TransferCommands DEF Silent, Moves
    <3> QED  BY <1>3, <3>4 DEF Clean
  <2>6. Streams'  BY <1>4, <2>4, <2>5 DEF Streams
  <2> QED  BY <2>2, <2>3, <2>6
<1>9. ASSUME Moves, Ended PROVE Complete' /\ call.num \in Nat
  BY <1>3, <1>4, <1>9 DEF EmmcInv, CallKnown, Complete, Placed
<1>10. CallKnown'  BY <1>4, <1>8, <1>9 DEF CallKnown, Moves, Ended
<1> QED  BY <1>6, <1>7, <1>10 DEF EmmcInv

LEMMA HardwareKeepsInv == ASSUME EmmcInv, Hardware PROVE EmmcInv'
BY CardAnswersKeepsInv, NoAnswerKeepsInv, CardSendsKeepsInv, HostWantsKeepsInv, CardStoresKeepsInv,
   DataEndsKeepsInv, DataFailsKeepsInv DEF Hardware

-----------------------------------------------------------------------------
(* The driver.  What most of its steps leave alone.                        *)
LEMMA DriverStep ==
  ASSUME EmmcInv, UNCHANGED <<card, disk>>, TypeAgrees',
         DOMAIN host' = DOMAIN host, DOMAIN call' = DOMAIN call, DOMAIN sd' = DOMAIN sd,
         call'.buffer \in Seq(Nat),
         host'.cmd = host.cmd, host'.cmdInhibit = host.cmdInhibit, host'.dir = host.dir,
         host'.fifo = host.fifo \/ host'.fifo = << >>,
         host'.ints \subseteq host.ints,
         CallKnown'
  PROVE  EmmcInv'
<1>1. EmmcShapes /\ WireKnown /\ FifoPlaced /\ DiskValues  BY DEF EmmcInv
<1>2. << >> \in Seq(Nat) /\ Len(<< >>) = 0  OBVIOUS
<1>3. EmmcShapes'
  <2>1. host'.fifo \in Seq(Nat) /\ Len(host'.fifo) <= 1
    <3>1. CASE host'.fifo = host.fifo  BY <1>1, <3>1 DEF EmmcShapes
    <3>2. CASE host'.fifo = << >>  BY <1>2, <3>2
    <3> QED  BY <3>1, <3>2
  <2>2. disk' \in [Blocks -> Nat]  BY <1>1 DEF EmmcShapes
  <2> QED  BY <1>1, <2>1, <2>2 DEF EmmcShapes
<1>4. WireKnown'  BY <1>1 DEF WireKnown
<1>5. FifoPlaced'  BY <1>1 DEF FifoPlaced
<1>6. DiskValues'  BY <1>1 DEF DiskValues
<1> QED  BY <1>3, <1>4, <1>5, <1>6 DEF EmmcInv

LEMMA CommandEndsShape ==
  ASSUME EmmcShapes, NEW result, CommandEnds(result)
  PROVE  /\ DOMAIN call' = DOMAIN call /\ call'.buffer \in Seq(Nat)
         /\ call'.op = call.op /\ call'.start \in {call.start, 0}
         /\ call'.at # "idle" => call'.start = call.start /\ call'.num = call.num
<1>1. ASSUME NEW r, Return(r)
      PROVE  /\ DOMAIN call' = DOMAIN call /\ call'.buffer \in Seq(Nat)
             /\ call'.op = call.op /\ call'.start \in {call.start, 0}
             /\ call'.at # "idle" => call'.start = call.start /\ call'.num = call.num
  BY <1>1, ReturnedShape
<1>2. ASSUME NEW cmd, \/ call' = Send(call, cmd) \/ call' = Send([call EXCEPT !.old = TRUE], cmd)
                      \/ call' = Send([call EXCEPT !.tries = @ + 1], cmd)
      PROVE  /\ DOMAIN call' = DOMAIN call /\ call'.buffer \in Seq(Nat)
             /\ call'.op = call.op /\ call'.start \in {call.start, 0}
             /\ call'.at # "idle" => call'.start = call.start /\ call'.num = call.num
  BY <1>2 DEF Send, EmmcShapes
<1>3. CASE PrefixEnds(result)
  BY <1>1, <1>3 DEF PrefixEnds, EmmcShapes
<1>4. CASE GoIdleEnds(result)
  BY <1>1, <1>2, <1>4 DEF GoIdleEnds
<1>5. CASE IfCondEnds(result)
  BY <1>1, <1>2, <1>5 DEF IfCondEnds, EmmcShapes
<1>6. CASE OpCondEnds(result)
  BY <1>1, <1>2, <1>6 DEF OpCondEnds
<1>7. CASE IdentifyEnds(result)
  <2>1. CASE result # "OK" \/ call.cmd = "SET_BLOCKLEN"  BY <1>1, <1>7, <2>1 DEF IdentifyEnds
  <2>2. CASE ~(result # "OK" \/ call.cmd = "SET_BLOCKLEN")
    BY <1>2, <1>7, <2>2, ZenonT(30) DEF IdentifyEnds, EmmcShapes
  <2> QED  BY <2>1, <2>2
<1>8. CASE TransferEnds(result)
  <2>1. CASE result # "OK" \/ call.cmd = "STOP_TRANS"  BY <1>1, <1>8, <2>1 DEF TransferEnds
  <2>2. CASE ~(result # "OK" \/ call.cmd = "STOP_TRANS")
    BY <1>2, <1>8, <2>2, ZenonT(30) DEF TransferEnds, EmmcShapes
  <2> QED  BY <2>1, <2>2
<1> QED  BY <1>3, <1>4, <1>5, <1>6, <1>7, <1>8 DEF CommandEnds

(* A command of a transfer ends as such.                                   *)
LEMMA TransferCommandEnds ==
  ASSUME EmmcInv, Moves, call.at \in {"send", "sent"}, NEW result, CommandEnds(result)
  PROVE  TransferEnds(result)
<1>1. TransferKnown  BY DEF EmmcInv, CallKnown
<1>2. call.cmd \in {"SET_BLOCKCNT", "STOP_TRANS", "READ_SINGLE", "READ_MULTI", "WRITE_SINGLE", "WRITE_MULTI"}
  BY <1>1, TransferCommands DEF TransferKnown, Moves
<1> QED  BY <1>1, <1>2 DEF CommandEnds, PrefixEnds, GoIdleEnds, IfCondEnds, OpCondEnds, IdentifyEnds,
                           TransferKnown, Moves

(* A command that failed, whatever it is part of.                          *)
LEMMA CommandFails ==
  ASSUME EmmcInv, call.at \in {"send", "sent"}, NEW result, result # "OK", CommandEnds(result)
  PROVE  CallKnown'
<1>1. CASE Moves
  <2>1. Return(result)  BY <1>1, TransferCommandEnds DEF TransferEnds
  <2> QED  BY <2>1, ReturnedShape, NothingPromised DEF EmmcInv
<1>2. CASE ~Moves
  BY <1>2, CommandEndsShape, NothingPromised DEF EmmcInv, Moves
<1> QED  BY <1>1, <1>2

LEMMA LearnedShape ==
  ASSUME EmmcShapes, TypeAgrees, NEW cmd
  PROVE  /\ DOMAIN Learned(cmd, host.reply) = DOMAIN sd
         /\ Learned(cmd, host.reply).type = "TYPE_2_HC" => card.kind = "HC"
         /\ Learned(cmd, host.reply).type = "TYPE_2_SC" => card.kind # "HC"
         /\ Learned(cmd, host.reply).type \in SDTypes
         /\ cmd # "APP_SEND_OP_COND" => Learned(cmd, host.reply).type = sd.type
<1>1. CASE cmd = "APP_SEND_OP_COND"
  <2>1. ~Silent(cmd)  BY <1>1 DEF Silent
  <2>2. Learned(cmd, host.reply) =
          [sd EXCEPT !.APP_CMD = FALSE, !.powered = host.reply.powered, !.capacity = host.reply.capacity,
                     !.voltage = host.reply.voltage,
                     !.type = IF ~host.reply.powered \/ ~host.reply.voltage THEN @
                              ELSE IF call.old THEN "TYPE_1"
                              ELSE IF host.reply.capacity THEN "TYPE_2_HC" ELSE "TYPE_2_SC"]
    BY <1>1, <2>1 DEF Learned
  <2> QED  BY <1>1, <2>2 DEF EmmcShapes, TypeAgrees, SDTypes
<1>2. CASE cmd # "APP_SEND_OP_COND"
  <2>1. DOMAIN Learned(cmd, host.reply) = DOMAIN sd /\ Learned(cmd, host.reply).type = sd.type
    BY <1>2 DEF Learned, EmmcShapes
  <2> QED  BY <2>1 DEF TypeAgrees
<1> QED  BY <1>1, <1>2

LEMMA NoReplyAgrees == ASSUME NEW b \in BOOLEAN PROVE NoReply.capacity = (NoReply.powered /\ b)
<1>1. NoReply.capacity = FALSE /\ NoReply.powered = FALSE  BY DEF NoReply
<1> QED  BY <1>1

LEMMA sdResetCardKeepsInv == ASSUME EmmcInv, sdResetCard PROVE EmmcInv'
<1> USE DEF sdResetCard
<1>1. EmmcShapes /\ TypeAgrees /\ DiskValues  BY DEF EmmcInv
<1>2. /\ DOMAIN host' = DOMAIN host /\ host'.cmd = "none" /\ host'.ints = {} /\ host'.fifo = << >>
      /\ host'.reply = NoReply
  BY <1>1 DEF HostReset, EmmcShapes
<1>3. DOMAIN call' = DOMAIN call /\ call'.buffer \in Seq(Nat) /\ call'.op = call.op
  <2>1. ASSUME NEW r, Return(r)
        PROVE  DOMAIN call' = DOMAIN call /\ call'.buffer \in Seq(Nat) /\ call'.op = call.op
    BY <1>1, <2>1, ReturnedShape
  <2>2. CASE call' = Send(call, "GO_IDLE_STATE")  BY <1>1, <2>2 DEF Send, EmmcShapes
  <2> QED  BY <2>1, <2>2
<1>4. DOMAIN sd' = DOMAIN sd /\ sd'.type \in {sd.type, "UNKNOWN"}
  <2>1. CASE sd' = sd  BY <2>1
  <2>2. CASE sd' = [NoCard EXCEPT !.CMD_SUPPORT = sd.CMD_SUPPORT, !.BUS_WIDTH = sd.BUS_WIDTH]
    BY <1>1, <2>2 DEF NoCard, EmmcShapes
  <2> QED  BY <2>1, <2>2
<1>5. EmmcShapes'
  <2>1. << >> \in Seq(Nat) /\ Len(<< >>) = 0  OBVIOUS
  <2> QED  BY <1>1, <1>2, <1>3, <1>4, <2>1 DEF EmmcShapes
<1>6. TypeAgrees'  BY <1>1, <1>2, <1>4, NoReplyAgrees DEF TypeAgrees, SDTypes
<1>7. WireKnown' /\ FifoPlaced' /\ DiskValues'
  BY <1>1, <1>2 DEF WireKnown, FifoPlaced, DiskValues
<1>8. ~Moves  BY DEF EmmcInv, CallKnown, TransferKnown
<1>9. CallKnown'  BY <1>3, <1>8, NothingPromised DEF Moves
<1> QED  BY <1>5, <1>6, <1>7, <1>9 DEF EmmcInv

LEMMA IssueKeepsInv == ASSUME EmmcInv, Issue PROVE EmmcInv'
<1>1. EmmcShapes /\ TypeAgrees /\ DiskValues  BY DEF EmmcInv
<1>2. /\ DOMAIN host' = DOMAIN host /\ host'.cmd = Wire /\ host'.arg = Argument /\ host'.ints = {}
      /\ host'.fifo = << >> /\ host'.reply = host.reply /\ host'.cmdInhibit
      /\ host'.dir = IF Wire \in DOMAIN DataCommands THEN DataCommands[Wire] ELSE "none"
      /\ host'.BLKCNT = IF Wire \notin DOMAIN DataCommands THEN host.BLKCNT
                        ELSE IF Wire \in MultiCommands THEN call.num ELSE 1
  BY <1>1 DEF Issue, EmmcShapes
<1>3. /\ DOMAIN call' = DOMAIN call /\ call'.at = "sent" /\ call.at = "send" /\ UNCHANGED <<card, disk, sd>>
      /\ call'.op = call.op /\ call'.cmd = call.cmd /\ call'.prefix = call.prefix /\ call'.old = call.old
      /\ call'.start = call.start /\ call'.num = call.num /\ call'.buffer = call.buffer
      /\ call'.done = call.done
  BY <1>1 DEF Issue, EmmcShapes
<1>4. EmmcShapes'
  <2>1. << >> \in Seq(Nat) /\ Len(<< >>) = 0  OBVIOUS
  <2> QED  BY <1>1, <1>2, <1>3, <2>1 DEF EmmcShapes
<1>5. TypeAgrees' /\ WireKnown' /\ FifoPlaced' /\ DiskValues'
  BY <1>1, <1>2, <1>3 DEF TypeAgrees, WireKnown, FifoPlaced, DiskValues
<1>6. ASSUME Moves PROVE CallKnown'
  <2>1. TransferKnown  BY <1>3, <1>6 DEF EmmcInv, CallKnown
  <2>2. Wire = call.cmd /\ host'.cmd = call.cmd  BY <1>2, <2>1 DEF Wire, TransferKnown
  <2>3. TransferCommand' = TransferCommand  BY <1>3 DEF TransferCommand
  <2>4. Argument' = Argument  BY <1>3 DEF Argument, blockAddress
  <2>5. TransferKnown'  BY <1>3, <2>1, <2>3 DEF TransferKnown, Placed
  <2>6. Commanded'
    <3>1. ASSUME call.cmd = TransferCommand PROVE host'.dir = call.op /\ host'.BLKCNT = call.num
      <4>1. /\ call.cmd \in DOMAIN DataCommands /\ DataCommands[call.cmd] = call.op
            /\ call.cmd \in MultiCommands <=> call.num # 1
        BY <1>6, <3>1, TransferCommands
      <4> QED  BY <1>2, <2>2, <4>1
    <3> QED  BY <1>2, <1>3, <2>2, <2>3, <2>4, <3>1 DEF Commanded
  <2>7. Streams'
    <3>1. call.cmd # "none"  BY <1>3, <1>6, <2>1, TransferCommands DEF TransferKnown, Moves
    <3> QED  BY <1>3, <2>2, <3>1 DEF Streams, Answers
  <2>8. ASSUME Ended' PROVE Complete' /\ call'.num \in Nat
    <3>1. call.cmd = "STOP_TRANS"  BY <1>3, <2>8 DEF Ended
    <3>2. Complete /\ call.num \in Nat  BY <1>3, <1>6, <3>1 DEF EmmcInv, CallKnown, Ended
    <3> QED  BY <1>2, <1>3, <2>2, <3>1, <3>2 DEF Complete, Placed
  <2> QED  BY <2>5, <2>6, <2>7, <2>8 DEF CallKnown
<1>7. CallKnown'  BY <1>3, <1>6, NothingPromised DEF Moves
<1> QED  BY <1>4, <1>5, <1>7 DEF EmmcInv

LEMMA RefusedKeepsInv == ASSUME EmmcInv, Refused PROVE EmmcInv'
<1>1. EmmcShapes /\ TypeAgrees  BY DEF EmmcInv
<1>2. CommandEnds("BUSY") /\ UNCHANGED <<host, card, disk, sd>> /\ call.at = "send"  BY DEF Refused
<1>3. TypeAgrees'  BY <1>1, <1>2 DEF TypeAgrees
<1>4. CallKnown'  BY <1>2, CommandFails
<1> QED  BY <1>1, <1>2, <1>3, <1>4, CommandEndsShape, DriverStep

LEMMA AnswerLateKeepsInv == ASSUME EmmcInv, AnswerLate PROVE EmmcInv'
<1>1. EmmcShapes /\ TypeAgrees  BY DEF EmmcInv
<1>2. CommandEnds("TIMEOUT") /\ UNCHANGED <<card, disk, sd>> /\ call.at = "sent"  BY DEF AnswerLate
<1>3. /\ DOMAIN host' = DOMAIN host /\ host'.cmd = host.cmd /\ host'.cmdInhibit = host.cmdInhibit
      /\ host'.dir = host.dir /\ host'.fifo = host.fifo /\ host'.ints = {} /\ host'.reply = NoReply
  BY <1>1 DEF AnswerLate, EmmcShapes
<1>4. TypeAgrees'  BY <1>1, <1>2, <1>3, NoReplyAgrees DEF TypeAgrees
<1>5. CallKnown'  BY <1>2, CommandFails
<1> QED  BY <1>1, <1>2, <1>3, <1>4, <1>5, CommandEndsShape, DriverStep

(* An answer of a transfer's command that the driver takes for good.       *)
LEMMA GoodAnswer ==
  ASSUME EmmcInv, Moves, call.at = "sent", Waited(host.ints) = "OK", Raised("CMD_DONE"),
         TransferEnds("OK"), sd'.type = sd.type, UNCHANGED <<card, disk>>,
         host'.ints \subseteq host.ints, host'.fifo = host.fifo, host'.dir = host.dir,
         host'.BLKCNT = host.BLKCNT, host'.cmd = host.cmd, ~host.reply.error
  PROVE  CallKnown'
<1>1. TransferKnown /\ Commanded /\ Streams /\ EmmcShapes  BY DEF EmmcInv, CallKnown
<1>2. Clean /\ "CMD_DONE" \in host.ints
  <2>1. Clean  BY WaitedClean
  <2> QED  BY <2>1 DEF Clean, Raised, INT_ERROR_MASK
<1>3. host.cmd = "none"  BY <1>1, <1>2 DEF Commanded
<1>4. CASE call.cmd = "STOP_TRANS"
  <2>1. Return("OK")  BY <1>4 DEF TransferEnds
  <2>2. Complete /\ call.num \in Nat  BY <1>4 DEF EmmcInv, CallKnown, Ended
  <2>3. Complete' /\ call'.num \in Nat  BY <1>1, <2>1, <2>2, ReturnedShape DEF Complete, Placed
  <2>4. call'.at = "idle"  BY <1>1, <2>1, ReturnedShape
  <2> QED  BY <2>3, <2>4 DEF CallKnown
<1>5. CASE call.cmd = "SET_BLOCKCNT"
  <2>1. call' = Send(call, TransferCommand)  BY <1>5 DEF TransferEnds
  <2>2. /\ call'.at = "send" /\ call'.cmd = TransferCommand /\ call'.op = call.op /\ call'.num = call.num
        /\ call'.done = call.done /\ call'.start = call.start /\ call'.buffer = call.buffer
        /\ call'.prefix = (TransferCommand \in AppCommands)
    BY <1>1, <2>1 DEF Send, EmmcShapes
  <2>3. TransferCommand' = TransferCommand  BY <2>2 DEF TransferCommand
  <2>4. ~call'.prefix /\ TransferCommand # "STOP_TRANS"  BY <2>2, TransferCommands DEF AppCommands, Moves
  <2>5. TransferKnown'  BY <1>1, <1>5, <2>2, <2>3, <2>4 DEF TransferKnown, Placed
  <2>6. Commanded' /\ Streams' /\ ~Ended'  BY <2>2, <2>4 DEF Commanded, Streams, Answers, Ended
  <2> QED  BY <2>5, <2>6 DEF CallKnown
<1>6. CASE call.cmd = TransferCommand
  <2>1. call.cmd \in {"READ_SINGLE", "READ_MULTI", "WRITE_SINGLE", "WRITE_MULTI"}
    BY <1>6, TransferCommands DEF Moves
  <2>2. call' = [call EXCEPT !.at = "data"]  BY <2>1 DEF TransferEnds
  <2>3. /\ call'.at = "data" /\ call'.cmd = call.cmd /\ call'.op = call.op /\ call'.num = call.num
        /\ call'.done = call.done /\ call'.start = call.start /\ call'.buffer = call.buffer
        /\ call'.prefix = call.prefix
    BY <1>1, <2>2 DEF EmmcShapes
  <2>4. call.done = 0 /\ call.num > 0  BY <1>1, <2>1 DEF TransferKnown
  <2>5. Stream  BY <1>1, <1>2, <1>3, <1>6 DEF Streams, Answers
  <2>6. Stream'  BY <2>3, <2>5 DEF Stream, StreamRead, StreamWrite, Placed
  <2>7. TransferKnown'  BY <1>1, <2>3 DEF TransferKnown, Placed
  <2>8. Commanded' /\ ~Ended'  BY <2>3 DEF Commanded, Ended
  <2>9. host'.dir = call.op  BY <1>1, <1>6 DEF Commanded
  <2>10. Streams'  BY <1>3, <2>3, <2>4, <2>6, <2>9 DEF Streams, Answers
  <2> QED  BY <2>7, <2>8, <2>10 DEF CallKnown
<1> QED  BY <1>1, <1>4, <1>5, <1>6 DEF TransferKnown

LEMMA AnsweredKeepsInv == ASSUME EmmcInv, Answered PROVE EmmcInv'
<1> DEFINE waited == Waited(host.ints)
           judged == IF waited = "OK" THEN Judged(Wire, host.reply) ELSE waited
           result == IF judged = "OK" /\ Wire \in AppCommands /\ sd'.rca /\ ~sd'.APP_CMD
                     THEN "ERROR_APP_CMD" ELSE judged
<1>1. EmmcShapes /\ TypeAgrees  BY DEF EmmcInv
<1>2. /\ call.at = "sent" /\ Raised("CMD_DONE") /\ UNCHANGED <<card, disk>>
      /\ sd' = IF waited = "OK" THEN Learned(Wire, host.reply) ELSE sd
      /\ host' = [host EXCEPT !.ints = Cleared("CMD_DONE"), !.reply = NoReply,
                              !.wide = @ \/ (Wire = "SET_BUS_WIDTH" /\ result = "OK")]
      /\ CommandEnds(result)
  BY DEF Answered
<1> HIDE DEF result
<1>3. /\ DOMAIN host' = DOMAIN host /\ host'.cmd = host.cmd /\ host'.cmdInhibit = host.cmdInhibit
      /\ host'.dir = host.dir /\ host'.fifo = host.fifo /\ host'.BLKCNT = host.BLKCNT
      /\ host'.reply = NoReply /\ host'.ints = Cleared("CMD_DONE")
  BY <1>1, <1>2 DEF EmmcShapes
<1>4. host'.ints \subseteq host.ints  BY <1>3 DEF Cleared
<1>5. DOMAIN sd' = DOMAIN sd /\ TypeAgrees' /\ (Wire # "APP_SEND_OP_COND" => sd'.type = sd.type)
  <2>1. CASE sd' = sd  BY <1>1, <1>2, <1>3, <2>1, NoReplyAgrees DEF TypeAgrees
  <2>2. CASE sd' = Learned(Wire, host.reply)
    <3>1. /\ DOMAIN sd' = DOMAIN sd
          /\ sd'.type = "TYPE_2_HC" => card.kind = "HC"
          /\ sd'.type = "TYPE_2_SC" => card.kind # "HC"
          /\ sd'.type \in SDTypes
          /\ Wire # "APP_SEND_OP_COND" => sd'.type = sd.type
      BY <1>1, <2>2, LearnedShape
    <3>2. host'.reply.capacity = (host'.reply.powered /\ card.kind = "HC")  BY <1>3, NoReplyAgrees
    <3> QED  BY <1>2, <3>1, <3>2 DEF TypeAgrees
  <2> QED  BY <1>2, <2>1, <2>2
<1>6. ASSUME Moves, result = "OK" PROVE CallKnown'
  <2>1. TransferKnown  BY <1>2, <1>6 DEF EmmcInv, CallKnown
  <2>2. call.cmd \in {"SET_BLOCKCNT", "STOP_TRANS", "READ_SINGLE", "READ_MULTI", "WRITE_SINGLE", "WRITE_MULTI"}
    BY <1>2, <1>6, <2>1, TransferCommands DEF TransferKnown, Moves
  <2>3. Wire = call.cmd  BY <2>1 DEF Wire, TransferKnown
  <2>4. judged = "OK" /\ waited = "OK"
    <3>1. judged = "OK"  BY <1>6 DEF result
    <3>2. waited # "OK" => judged # "OK"  OBVIOUS
    <3> QED  BY <3>1, <3>2
  <2>5. Judged(Wire, host.reply) = "OK"  BY <2>4
  <2>6. Judged(Wire, host.reply) = IF host.reply.error THEN "ERROR" ELSE "OK"
    BY <2>2, <2>3 DEF Judged, Silent
  <2>7. ~host.reply.error  BY <2>5, <2>6
  <2>8. TransferEnds("OK")  BY <1>2, <1>6, TransferCommandEnds
  <2>9. sd'.type = sd.type  BY <1>5, <2>2, <2>3
  <2> QED  BY <1>2, <1>3, <1>4, <1>6, <2>4, <2>7, <2>8, <2>9, GoodAnswer
<1>7. ASSUME ~Moves PROVE CallKnown'
  BY <1>1, <1>2, <1>7, CommandEndsShape, NothingPromised DEF Moves
<1>8. CallKnown'
  <2>1. CASE result # "OK"  BY <1>2, <2>1, CommandFails
  <2> QED  BY <1>6, <1>7, <2>1
<1> QED  BY <1>1, <1>2, <1>3, <1>4, <1>5, <1>8, CommandEndsShape, DriverStep

(* A call that returns anything but OK.                                    *)
LEMMA GivesUp ==
  ASSUME EmmcInv, NEW result, result # "OK", Return(result), UNCHANGED <<card, disk>>, TypeAgrees',
         DOMAIN host' = DOMAIN host, DOMAIN sd' = DOMAIN sd,
         host'.cmd = host.cmd, host'.cmdInhibit = host.cmdInhibit, host'.dir = host.dir,
         host'.fifo = host.fifo \/ host'.fifo = << >>, host'.ints \subseteq host.ints
  PROVE  EmmcInv'
<1>1. DOMAIN call' = DOMAIN call /\ call'.buffer \in Seq(Nat) /\ call'.at = "idle" /\ call'.result = result
  BY ReturnedShape DEF EmmcInv
<1>2. CallKnown'  BY <1>1, NothingPromised
<1> QED  BY <1>1, <1>2, DriverStep

LEMMA sdSetClockKeepsInv == ASSUME EmmcInv, sdSetClock PROVE EmmcInv'
<1>1. EmmcShapes /\ TypeAgrees  BY DEF EmmcInv
<1>2. UNCHANGED <<host, card, disk, sd>> /\ call.at = "clock"  BY DEF sdSetClock
<1>3. TypeAgrees'  BY <1>1, <1>2 DEF TypeAgrees
<1>4. CASE Return("ERROR_CLOCK")  BY <1>2, <1>3, <1>4, GivesUp
<1>5. CASE call' = Send(call, "CARD_SELECT")
  <2>1. DOMAIN call' = DOMAIN call /\ call'.buffer \in Seq(Nat) /\ call'.op = call.op
    BY <1>1, <1>5 DEF Send, EmmcShapes
  <2>2. ~Moves  BY <1>2 DEF EmmcInv, CallKnown, TransferKnown
  <2>3. CallKnown'  BY <2>1, <2>2, NothingPromised DEF Moves
  <2> QED  BY <1>2, <1>3, <2>1, <2>3, DriverStep
<1> QED  BY <1>4, <1>5 DEF sdSetClock

LEMMA sdWaitForDataKeepsInv == ASSUME EmmcInv, sdWaitForData PROVE EmmcInv'
<1>1. EmmcShapes /\ TypeAgrees  BY DEF EmmcInv
<1>2. UNCHANGED <<host, card, disk, sd>> /\ call.at = "waitData"  BY DEF sdWaitForData
<1>3. TypeAgrees'  BY <1>1, <1>2 DEF TypeAgrees
<1>4. CASE Return("TIMEOUT")  BY <1>2, <1>3, <1>4, GivesUp
<1>5. ASSUME NEW cmd \in {"SET_BLOCKCNT", TransferCommand}, call' = Send(call, cmd) PROVE EmmcInv'
  <2>1. /\ DOMAIN call' = DOMAIN call /\ call'.at = "send" /\ call'.cmd = cmd /\ call'.op = call.op
        /\ call'.num = call.num /\ call'.done = call.done /\ call'.start = call.start
        /\ call'.buffer = call.buffer /\ call'.prefix = (cmd \in AppCommands)
    BY <1>1, <1>5 DEF Send, EmmcShapes
  <2>2. ASSUME Moves PROVE CallKnown'
    <3>1. TransferKnown  BY <1>2, <2>2 DEF EmmcInv, CallKnown
    <3>2. TransferCommand' = TransferCommand  BY <2>1 DEF TransferCommand
    <3>3. ~call'.prefix /\ cmd # "STOP_TRANS"  BY <2>1, <2>2, TransferCommands DEF AppCommands, Moves
    <3>4. TransferKnown'  BY <1>2, <2>1, <3>1, <3>2, <3>3 DEF TransferKnown, Placed
    <3>5. Commanded' /\ Streams' /\ ~Ended'  BY <2>1, <3>3 DEF Commanded, Streams, Answers, Ended
    <3> QED  BY <3>4, <3>5 DEF CallKnown
  <2>3. CallKnown'  BY <2>1, <2>2, NothingPromised DEF Moves
  <2> QED  BY <1>1, <1>2, <1>3, <2>1, <2>3, DriverStep DEF EmmcShapes
<1> QED  BY <1>4, <1>5 DEF sdWaitForData

LEMMA sdReadSCRKeepsInv == ASSUME EmmcInv, sdReadSCR PROVE EmmcInv'
<1>1. EmmcShapes /\ TypeAgrees  BY DEF EmmcInv
<1>2. UNCHANGED <<card, disk>> /\ call.at = "scr"  BY DEF sdReadSCR
<1>3. /\ DOMAIN host' = DOMAIN host /\ host'.cmd = host.cmd /\ host'.cmdInhibit = host.cmdInhibit
      /\ host'.dir = host.dir /\ host'.fifo = << >> /\ host'.reply = host.reply
      /\ host'.ints = Cleared("READ_RDY")
  BY <1>1 DEF sdReadSCR, EmmcShapes
<1>4. host'.ints \subseteq host.ints  BY <1>3 DEF Cleared
<1>5. CASE sd' \in {sd, WithSCR} /\ \E result : result # "OK" /\ Return(result)
  <2>1. DOMAIN sd' = DOMAIN sd /\ sd'.type = sd.type  BY <1>1, <1>5 DEF WithSCR, EmmcShapes
  <2>2. TypeAgrees'  BY <1>1, <1>2, <1>3, <2>1 DEF TypeAgrees
  <2> QED  BY <1>2, <1>3, <1>4, <1>5, <2>1, <2>2, GivesUp
<1>6. CASE /\ sd' = WithSCR
           /\ call' = Send(call, IF sd'.BUS_WIDTH = 4 THEN "SET_BUS_WIDTH" ELSE "SET_BLOCKLEN")
  <2>1. DOMAIN sd' = DOMAIN sd /\ sd'.type = sd.type  BY <1>1, <1>6 DEF WithSCR, EmmcShapes
  <2>2. DOMAIN call' = DOMAIN call /\ call'.buffer \in Seq(Nat) /\ call'.op = call.op
    BY <1>1, <1>6 DEF Send, EmmcShapes
  <2>3. TypeAgrees'  BY <1>1, <1>2, <1>3, <2>1 DEF TypeAgrees
  <2>4. ~Moves  BY <1>2 DEF EmmcInv, CallKnown, TransferKnown
  <2>5. CallKnown'  BY <2>2, <2>4, NothingPromised DEF Moves
  <2> QED  BY <1>2, <1>3, <1>4, <2>1, <2>2, <2>3, <2>5, DriverStep
<1> QED  BY <1>5, <1>6 DEF sdReadSCR

LEMMA DataLateKeepsInv == ASSUME EmmcInv, DataLate PROVE EmmcInv'
<1>1. EmmcShapes /\ TypeAgrees  BY DEF EmmcInv
<1>2. UNCHANGED <<card, disk, sd>> /\ Return("TIMEOUT")  BY DEF DataLate
<1>3. /\ DOMAIN host' = DOMAIN host /\ host'.cmd = host.cmd /\ host'.cmdInhibit = host.cmdInhibit
      /\ host'.dir = host.dir /\ host'.fifo = host.fifo /\ host'.reply = host.reply /\ host'.ints = {}
  BY <1>1 DEF DataLate, EmmcShapes
<1>4. TypeAgrees'  BY <1>1, <1>2, <1>3 DEF TypeAgrees
<1> QED  BY <1>2, <1>3, <1>4, GivesUp

LEMMA EraseEndsKeepsInv == ASSUME EmmcInv, EraseEnds PROVE EmmcInv'
<1>1. EmmcShapes /\ TypeAgrees  BY DEF EmmcInv
<1>2. UNCHANGED <<host, card, disk, sd>> /\ call.at = "erase"  BY DEF EraseEnds
<1>3. PICK result : Return(result)  BY DEF EraseEnds
<1>4. DOMAIN call' = DOMAIN call /\ call'.buffer \in Seq(Nat) /\ call'.op = call.op
  BY <1>1, <1>3, ReturnedShape
<1>5. ~Moves  BY <1>2 DEF EmmcInv, CallKnown, TransferKnown
<1>6. CallKnown'  BY <1>4, <1>5, NothingPromised DEF Moves
<1>7. TypeAgrees'  BY <1>1, <1>2 DEF TypeAgrees
<1> QED  BY <1>1, <1>2, <1>4, <1>6, <1>7, DriverStep

-----------------------------------------------------------------------------
(* A block is moved.  What the driver does next is said of the call with   *)
(* one block more, c.                                                      *)
LEMMA NextBlockShape ==
  ASSUME NEW c, DOMAIN c = DOMAIN call, EmmcShapes, c.done \in Nat, c.num \in Nat, c.op \in {"read", "write"}
  PROVE  \/ c.done < c.num /\ NextBlock(c) = c
         \/ c.done >= c.num /\ c.op = "write" /\ NextBlock(c) = [c EXCEPT !.at = "done"]
         \/ c.done >= c.num /\ c.op = "read" /\ NextBlock(c) \in {Send(c, "STOP_TRANS"), Returned(c, "OK")}
BY DEF NextBlock

(* One more block behind those there are.                                  *)
LEMMA OneMore ==
  ASSUME NEW s \in Seq(Nat), NEW t \in Seq(Nat), Len(t) = 1
  PROVE  /\ Len(s \o t) = Len(s) + 1
         /\ \A i \in 1 .. Len(s) : (s \o t)[i] = s[i]
         /\ (s \o t)[Len(s) + 1] = t[1]
<1>1. /\ Len(s) \in Nat /\ Len(t) \in Nat
      /\ Len(s \o t) = Len(s) + Len(t)
      /\ \A i \in 1 .. Len(s) + Len(t) : (s \o t)[i] = IF i <= Len(s) THEN s[i] ELSE t[i - Len(s)]
  BY ConcatProperties, LenProperties
<1>2. ASSUME NEW m \in Nat, NEW n \in Nat, NEW r, n = 1,
             \A i \in 1 .. m + n : r[i] = IF i <= m THEN s[i] ELSE t[i - m]
      PROVE  (\A i \in 1 .. m : r[i] = s[i]) /\ r[m + 1] = t[1]
  <2>1. m + 1 \in 1 .. m + n /\ ~(m + 1 <= m) /\ (m + 1) - m = 1  BY <1>2
  <2>2. \A i \in 1 .. m : i \in 1 .. m + n /\ i <= m  BY <1>2
  <2> QED  BY ONLY <1>2, <2>1, <2>2
<1> QED  BY <1>1, <1>2, ZenonT(30)

LEMMA ReadsBlock ==
  ASSUME EmmcInv, call.at = "data", call.op = "read", Waited(host.ints) = "OK", Raised("READ_RDY"),
         host' = [host EXCEPT !.ints = Cleared("READ_RDY"), !.fifo = << >>],
         call' = NextBlock([call EXCEPT !.done = @ + 1, !.buffer = @ \o host.fifo]),
         UNCHANGED <<card, disk, sd>>
  PROVE  EmmcInv'
<1> DEFINE c == [call EXCEPT !.done = @ + 1, !.buffer = @ \o host.fifo]
<1>1. EmmcShapes /\ TypeAgrees /\ Moves /\ TransferKnown /\ Streams
  BY DEF EmmcInv, CallKnown, Moves
<1>2. Clean /\ "READ_RDY" \in host.ints
  <2>1. Clean  BY WaitedClean
  <2> QED  BY <2>1 DEF Clean, Raised, INT_ERROR_MASK
<1>3. /\ DOMAIN host' = DOMAIN host /\ host'.cmd = host.cmd /\ host'.cmdInhibit = host.cmdInhibit
      /\ host'.dir = host.dir /\ host'.fifo = << >> /\ host'.reply = host.reply
      /\ host'.ints = host.ints \ {"READ_RDY"}
  BY <1>1 DEF EmmcShapes, Cleared
<1>4. TypeAgrees'  BY <1>1, <1>3 DEF TypeAgrees
<1>5. /\ call.num \in Nat \ {0} /\ call.done \in Nat /\ call.done < call.num
      /\ host.cmd = "none" /\ host.dir = "read" /\ Stream
  BY <1>1, <1>2 DEF TransferKnown, Streams
<1>6. c.buffer = call.buffer \o host.fifo /\ c.buffer \in Seq(Nat)
  <2>1. c.buffer = call.buffer \o host.fifo  BY <1>1 DEF EmmcShapes
  <2>2. call.buffer \o host.fifo \in Seq(Nat)  BY <1>1, ConcatProperties DEF EmmcShapes
  <2> QED  BY <2>1, <2>2
<1>7. /\ DOMAIN c = DOMAIN call /\ c.at = "data" /\ c.op = "read" /\ c.cmd = call.cmd /\ c.num = call.num
      /\ c.done = call.done + 1 /\ c.start = call.start /\ c.prefix = call.prefix
  BY <1>1 DEF EmmcShapes
<1>8. ASSUME Placed
      PROVE  /\ Len(c.buffer) = c.done
             /\ \A i \in 1 .. c.done : call.start + i - 1 \in Blocks /\ c.buffer[i] = disk[call.start + i - 1]
             /\ card.state = "data" => card.block = call.start + c.done
  <2>1. StreamRead /\ call.start \in Int  BY <1>5, <1>8 DEF Stream, Placed
  <2>2. host.fifo # << >> /\ Len(host.fifo) = 1 /\ Len(call.buffer) = call.done
        /\ call.buffer \in Seq(Nat) /\ host.fifo \in Seq(Nat)
    BY <1>1, <1>2, <1>8, <2>1, FifoValues DEF StreamRead, TransferKnown, EmmcShapes
  <2>3. /\ Len(c.buffer) = call.done + 1
        /\ \A i \in 1 .. call.done : c.buffer[i] = call.buffer[i]
        /\ c.buffer[call.done + 1] = host.fifo[1]
    <3>1. /\ Len(call.buffer \o host.fifo) = Len(call.buffer) + 1
          /\ \A i \in 1 .. Len(call.buffer) : (call.buffer \o host.fifo)[i] = call.buffer[i]
          /\ (call.buffer \o host.fifo)[Len(call.buffer) + 1] = host.fifo[1]
      BY <2>2, OneMore, Zenon
    <3>2. Len(call.buffer) = call.done /\ c.buffer = call.buffer \o host.fifo  BY <1>6, <2>2
    <3> HIDE DEF c
    <3> QED  BY ONLY <3>1, <3>2, Zenon
  <2>4. ASSUME NEW i \in 1 .. call.done + 1
        PROVE  call.start + i - 1 \in Blocks /\ c.buffer[i] = disk[call.start + i - 1]
    <3> HIDE DEF c
    <3>1. CASE i \in 1 .. call.done  BY <2>1, <2>3, <3>1 DEF StreamRead
    <3>2. CASE i = call.done + 1
      <4>1. call.start + i - 1 = call.start + call.done  BY <1>5, <2>1, <3>2
      <4> QED  BY <2>1, <2>2, <2>3, <3>2, <4>1 DEF StreamRead
    <3> QED  BY <1>5, <3>1, <3>2
  <2>5. card.state = "data" => card.block = call.start + c.done
    BY <1>5, <1>7, <2>1, <2>2 DEF StreamRead
  <2> QED  BY <1>7, <2>3, <2>4, <2>5
<1> HIDE DEF c
<1>9. Len(<< >>) = 0  OBVIOUS
<1>10. Placed' <=> call'.start \in Int /\ sd.type # "TYPE_1"  BY DEF Placed
<1>11. CASE c.done < c.num /\ call' = c
  <2>1. Stream'
    <3>1. SUFFICES ASSUME Placed PROVE StreamRead'  BY <1>7, <1>10, <1>11 DEF Stream, Placed
    <3>2. host'.fifo = << >> /\ "READ_RDY" \notin host'.ints  BY <1>3
    <3>3. call.start \in Int /\ c.done \in Nat  BY <1>5, <1>7, <3>1 DEF Placed
    <3>4. card'.state = "data" => card'.block = call'.start + call'.done + Len(host'.fifo)
      BY <1>7, <1>8, <1>9, <1>11, <3>1, <3>2, <3>3
    <3>5. \A i \in 1 .. call'.done : call'.start + i - 1 \in Blocks /\ call'.buffer[i] = disk'[call'.start + i - 1]
      BY <1>7, <1>8, <1>11, <3>1
    <3> QED  BY <3>2, <3>4, <3>5 DEF StreamRead
  <2>2. TransferKnown'
    <3>1. Placed' => Len(call'.buffer) = call'.done  BY <1>7, <1>8, <1>10, <1>11 DEF Placed
    <3> QED  BY <1>1, <1>5, <1>7, <1>11, <3>1 DEF TransferKnown
  <2>3. Commanded' /\ ~Ended'  BY <1>7, <1>11 DEF Commanded, Ended
  <2>4. Streams'  BY <1>3, <1>5, <1>7, <1>11, <2>1 DEF Streams, Answers
  <2>5. CallKnown'  BY <2>2, <2>3, <2>4 DEF CallKnown
  <2> QED  BY <1>3, <1>4, <1>6, <1>7, <1>11, <2>5, DriverStep
<1>12. CASE c.done >= c.num /\ call' \in {Send(c, "STOP_TRANS"), Returned(c, "OK")}
  <2>1. c.done = c.num  BY <1>5, <1>7, <1>12
  <2>2. /\ DOMAIN call' = DOMAIN call /\ call'.op = "read" /\ call'.num = call.num /\ call'.start = call.start
        /\ call'.buffer = c.buffer
    <3>1. CASE call' = Send(c, "STOP_TRANS")  BY <1>1, <1>7, <3>1, ZenonT(30) DEF Send, EmmcShapes
    <3>2. CASE call' = Returned(c, "OK")  BY <1>1, <1>7, <3>2, ZenonT(30) DEF Returned, NoCall, EmmcShapes
    <3> QED  BY <1>12, <3>1, <3>2
  <2>3. Complete'
    <3>1. ASSUME Placed'
          PROVE  /\ Len(call'.buffer) = call'.num
                 /\ \A i \in 1 .. call'.num : call'.start + i - 1 \in Blocks
                                              /\ call'.buffer[i] = disk'[call'.start + i - 1]
      <4>1. Placed  BY <1>10, <2>2, <3>1 DEF Placed
      <4> QED  BY <1>7, <1>8, <2>1, <2>2, <4>1
    <3> QED  BY <1>3, <1>5, <3>1 DEF Complete
  <2>4. call'.at # "idle" => TransferKnown' /\ Commanded' /\ Streams'
    <3>1. SUFFICES ASSUME call' = Send(c, "STOP_TRANS") PROVE TransferKnown' /\ Commanded' /\ Streams'
      BY <1>1, <1>12 DEF Returned, NoCall, EmmcShapes
    <3>2. call'.at = "send" /\ call'.cmd = "STOP_TRANS" /\ call'.done = call.num /\ ~call'.prefix
      <4>1. call'.at = "send" /\ call'.cmd = "STOP_TRANS" /\ call'.done = c.done
            /\ call'.prefix = ("STOP_TRANS" \in AppCommands)
        BY <1>1, <1>7, <3>1 DEF Send, EmmcShapes
      <4> QED  BY <1>7, <2>1, <4>1 DEF AppCommands
    <3>3. Placed' => Len(call'.buffer) = call'.done  BY <2>2, <2>3, <3>2 DEF Complete
    <3>4. TransferKnown'  BY <1>1, <1>5, <2>2, <3>2, <3>3 DEF TransferKnown
    <3> QED  BY <3>2, <3>4 DEF Commanded, Streams, Answers
  <2>5. CallKnown'  BY <1>5, <2>2, <2>3, <2>4 DEF CallKnown
  <2> QED  BY <1>3, <1>4, <1>6, <2>2, <2>5, DriverStep
<1>13. call' = NextBlock(c)  BY DEF c
<1> QED  BY <1>1, <1>5, <1>7, <1>11, <1>12, <1>13, NextBlockShape

LEMMA WritesBlock ==
  ASSUME EmmcInv, call.at = "data", call.op = "write", Waited(host.ints) = "OK", Raised("WRITE_RDY"),
         host' = [host EXCEPT !.ints = Cleared("WRITE_RDY"), !.fifo = <<call.buffer[call.done + 1]>>],
         call' = NextBlock([call EXCEPT !.done = @ + 1]),
         UNCHANGED <<card, disk, sd>>
  PROVE  EmmcInv'
<1> DEFINE c == [call EXCEPT !.done = @ + 1]
           b == call.start + call.done
<1>1. EmmcShapes /\ TypeAgrees /\ WireKnown /\ DiskValues /\ Moves /\ TransferKnown /\ Streams
  BY DEF EmmcInv, CallKnown, Moves
<1>2. Clean /\ "WRITE_RDY" \in host.ints
  <2>1. Clean  BY WaitedClean
  <2> QED  BY <2>1 DEF Clean, Raised, INT_ERROR_MASK
<1>3. /\ call.num \in Nat \ {0} /\ call.done \in Nat /\ call.done < call.num
      /\ host.cmd = "none" /\ host.dir = "write" /\ StreamWrite /\ Placed /\ call.start \in Int
      /\ host.fifo = << >> /\ call.buffer = [i \in 1 .. call.num |-> New(call.start + i - 1)]
  BY <1>1, <1>2 DEF TransferKnown, Streams, Stream, WireKnown, Placed
<1>4. call.buffer[call.done + 1] = New(b)
  <2>1. call.done + 1 \in 1 .. call.num /\ call.start + (call.done + 1) - 1 = b  BY <1>3
  <2> QED  BY <1>3, <2>1
<1>5. call.buffer[call.done + 1] \in Nat
  <2>1. Len(call.buffer) = call.num /\ call.buffer \in Seq(Nat)  BY <1>1, <1>3 DEF EmmcShapes
  <2>2. call.done + 1 \in 1 .. Len(call.buffer)  BY <1>3, <2>1
  <2> QED  BY <2>1, <2>2, ElementOfSeq
<1>6. /\ DOMAIN host' = DOMAIN host /\ host'.cmd = host.cmd /\ host'.cmdInhibit = host.cmdInhibit
      /\ host'.dir = host.dir /\ host'.fifo = <<call.buffer[call.done + 1]>> /\ host'.reply = host.reply
      /\ host'.ints = host.ints \ {"WRITE_RDY"} /\ host'.BLKCNT = host.BLKCNT
  BY <1>1 DEF EmmcShapes, Cleared
<1>7. host'.fifo \in Seq(Nat) /\ Len(host'.fifo) = 1 /\ host'.fifo[1] = New(b) /\ host'.fifo # << >>
  BY <1>4, <1>5, <1>6
<1>8. TypeAgrees' /\ DiskValues' /\ WireKnown'
  BY <1>1, <1>3, <1>6 DEF TypeAgrees, DiskValues, WireKnown
<1>9. Len(<< >>) = 0  OBVIOUS
<1>10. card.state = "rcv" => card.block = b  BY <1>3, <1>9 DEF StreamWrite
<1>11. FifoPlaced'  BY <1>7, <1>10 DEF FifoPlaced
<1>12. /\ DOMAIN c = DOMAIN call /\ c.at = "data" /\ c.op = "write" /\ c.cmd = call.cmd /\ c.num = call.num
       /\ c.done = call.done + 1 /\ c.start = call.start /\ c.prefix = call.prefix /\ c.buffer = call.buffer
  BY <1>1 DEF EmmcShapes
<1> HIDE DEF c
<1>13. c.done <= c.num  BY <1>3, <1>12
<1>14. call' = IF c.done < c.num THEN c ELSE [c EXCEPT !.at = "done"]
  <2>1. call' = NextBlock(c)  BY DEF c
  <2> QED  BY <1>12, <2>1 DEF NextBlock
<1>15. /\ DOMAIN call' = DOMAIN call /\ call'.op = "write" /\ call'.cmd = call.cmd /\ call'.num = call.num
       /\ call'.done = call.done + 1 /\ call'.start = call.start /\ call'.prefix = call.prefix
       /\ call'.buffer = call.buffer
       /\ call'.at = IF call.done + 1 < call.num THEN "data" ELSE "done"
  <2>1. CASE c.done < c.num  BY <1>12, <1>14, <2>1
  <2>2. CASE ~(c.done < c.num)  BY <1>1, <1>12, <1>14, <2>2, SMTT(20) DEF EmmcShapes
  <2> QED  BY <2>1, <2>2
<1>16. EmmcShapes'  BY <1>1, <1>6, <1>7, <1>15 DEF EmmcShapes
<1>17. StreamWrite'
  <2>1. call.done + 1 - 1 = call.done /\ call.done - 0 = call.done  BY <1>3
  <2>2. card.state = "rcv" => card.block = call.start + (call.done + 1) - 1  BY <1>3, <1>10
  <2>3. host.BLKCNT = call.num - (call.done + 1) + 1  BY <1>3, <1>9 DEF StreamWrite
  <2>4. "DATA_DONE" \notin host'.ints  BY <1>3, <1>6 DEF StreamWrite
  <2>5. \A i \in 1 .. call.done : call.start + i - 1 \in Blocks /\ disk[call.start + i - 1] = New(call.start + i - 1)
    BY <1>3, <1>9, <2>1 DEF StreamWrite
  <2>6. call'.start + call'.done - 1 = b  BY <1>3, <1>15
  <2>7. call'.done > 0  BY <1>3, <1>15
  <2>8. call'.done - Len(host'.fifo) = call.done  BY <1>3, <1>7, <1>15
  <2>9. \A i \in 1 .. call'.done - Len(host'.fifo) :
          call'.start + i - 1 \in Blocks /\ disk'[call'.start + i - 1] = New(call'.start + i - 1)
    BY <1>15, <2>5, <2>8
  <2>10. host'.BLKCNT = call'.num - call'.done + Len(host'.fifo)  BY <1>6, <1>7, <1>15, <2>3
  <2>11. card'.state = "rcv" => card'.block = call'.start + call'.done - Len(host'.fifo)
    BY <1>7, <1>15, <2>2
  <2>12. host'.fifo[1] = New(call'.start + call'.done - 1)  BY <1>7, <2>6
  <2> QED  BY <2>4, <2>7, <2>9, <2>10, <2>11, <2>12 DEF StreamWrite
<1>18. TransferKnown'
  <2>1. call'.done \in 0 .. call'.num /\ call'.at \in {"data", "done"}  BY <1>3, <1>15
  <2>2. Placed' /\ call'.buffer = [i \in 1 .. call'.num |-> New(call'.start + i - 1)]
    BY <1>3, <1>15 DEF Placed
  <2> QED  BY <1>1, <1>3, <1>15, <2>1, <2>2 DEF TransferKnown
<1>19. Commanded' /\ ~Ended'  BY <1>15 DEF Commanded, Ended
<1>20. Streams'
  <2>1. Stream'  BY <1>15, <1>17 DEF Stream
  <2> QED  BY <1>3, <1>6, <1>15, <2>1 DEF Streams, Answers
<1>21. CallKnown'  BY <1>18, <1>19, <1>20 DEF CallKnown
<1> QED  BY <1>8, <1>11, <1>16, <1>21 DEF EmmcInv

LEMMA MoveBlockKeepsInv == ASSUME EmmcInv, MoveBlock PROVE EmmcInv'
<1> DEFINE ready == IF call.op = "write" THEN "WRITE_RDY" ELSE "READ_RDY"
<1>1. EmmcShapes /\ TypeAgrees  BY DEF EmmcInv
<1>2. UNCHANGED <<card, disk, sd>> /\ call.at = "data" /\ Raised(ready)  BY DEF MoveBlock
<1>3. CASE /\ Waited(host.ints) # "OK" /\ Return(Waited(host.ints))
           /\ host' = [host EXCEPT !.ints = Cleared(ready)]
  <2>1. /\ DOMAIN host' = DOMAIN host /\ host'.cmd = host.cmd /\ host'.cmdInhibit = host.cmdInhibit
        /\ host'.dir = host.dir /\ host'.fifo = host.fifo /\ host'.reply = host.reply
        /\ host'.ints = Cleared(ready)
    BY <1>1, <1>3 DEF EmmcShapes
  <2>2. host'.ints \subseteq host.ints  BY <2>1 DEF Cleared
  <2>3. TypeAgrees'  BY <1>1, <1>2, <2>1 DEF TypeAgrees
  <2> QED  BY <1>2, <1>3, <2>1, <2>2, <2>3, GivesUp
<1>4. CASE /\ Waited(host.ints) = "OK" /\ call.op = "read"
           /\ host' = [host EXCEPT !.ints = Cleared(ready), !.fifo = << >>]
           /\ call' = NextBlock([call EXCEPT !.done = @ + 1, !.buffer = @ \o host.fifo])
  BY <1>2, <1>4, ReadsBlock
<1>5. CASE /\ Waited(host.ints) = "OK" /\ call.op = "write"
           /\ host' = [host EXCEPT !.ints = Cleared(ready), !.fifo = <<call.buffer[call.done + 1]>>]
           /\ call' = NextBlock([call EXCEPT !.done = @ + 1])
  BY <1>2, <1>5, WritesBlock
<1> QED  BY <1>3, <1>4, <1>5 DEF MoveBlock

LEMMA DataDoneKeepsInv == ASSUME EmmcInv, DataDone PROVE EmmcInv'
<1>1. EmmcShapes /\ TypeAgrees  BY DEF EmmcInv
<1>2. UNCHANGED <<card, disk, sd>> /\ call.at = "done" /\ Raised("DATA_DONE")  BY DEF DataDone
<1>3. /\ DOMAIN host' = DOMAIN host /\ host'.cmd = host.cmd /\ host'.cmdInhibit = host.cmdInhibit
      /\ host'.dir = host.dir /\ host'.fifo = host.fifo /\ host'.reply = host.reply
      /\ host'.ints = Cleared("DATA_DONE")
  BY <1>1 DEF DataDone, EmmcShapes
<1>4. host'.ints \subseteq host.ints  BY <1>3 DEF Cleared
<1>5. TypeAgrees'  BY <1>1, <1>2, <1>3 DEF TypeAgrees
<1>6. CASE Waited(host.ints) # "OK" /\ Return(Waited(host.ints))
  BY <1>2, <1>3, <1>4, <1>5, <1>6, GivesUp
<1>7. CASE Waited(host.ints) = "OK" /\ (call' = Send(call, "STOP_TRANS") \/ Return("OK"))
  <2>1. /\ DOMAIN call' = DOMAIN call /\ call'.op = call.op /\ call'.num = call.num
        /\ call'.start = call.start /\ call'.buffer = call.buffer /\ call.buffer \in Seq(Nat)
    <3>1. CASE call' = Send(call, "STOP_TRANS")  BY <1>1, <3>1 DEF Send, EmmcShapes
    <3>2. CASE Return("OK")  BY <1>1, <3>2, ReturnedShape DEF EmmcShapes
    <3> QED  BY <1>7, <3>1, <3>2
  <2>2. ASSUME Moves PROVE CallKnown'
    <3>1. TransferKnown /\ Streams  BY <1>2, <2>2 DEF EmmcInv, CallKnown
    <3>2. Clean /\ "DATA_DONE" \in host.ints
      <4>1. Clean  BY <1>7, WaitedClean
      <4> QED  BY <1>2, <4>1 DEF Clean, Raised, INT_ERROR_MASK
    <3>3. /\ call.op = "write" /\ call.num \in Nat \ {0} /\ call.done = call.num /\ host.cmd = "none"
          /\ Placed /\ StreamWrite /\ host.fifo = << >> /\ Len(<< >>) = 0
          /\ call.buffer = [i \in 1 .. call.num |-> New(call.start + i - 1)]
      BY <1>2, <2>2, <3>1, <3>2 DEF TransferKnown, Streams, Stream, StreamWrite, Moves
    <3>4. \A i \in 1 .. call.num : /\ call.start + i - 1 \in Blocks
                                   /\ call.buffer[i] = disk[call.start + i - 1]
      <4>1. call.done - Len(host.fifo) = call.num  BY <3>3
      <4> QED  BY <3>3, <4>1 DEF StreamWrite
    <3>5. Len(call.buffer) = call.num  BY <3>3
    <3>6. Complete'  BY <1>2, <1>3, <2>1, <3>3, <3>4, <3>5, ZenonT(30) DEF Complete
    <3>7. CASE Return("OK")
      <4>1. call'.at = "idle"  BY <1>1, <3>7, ReturnedShape
      <4> QED  BY <2>1, <3>3, <3>6, <4>1 DEF CallKnown
    <3>8. CASE call' = Send(call, "STOP_TRANS")
      <4>1. call'.at = "send" /\ call'.cmd = "STOP_TRANS" /\ call'.done = call.done /\ ~call'.prefix
        <5>1. /\ call'.at = "send" /\ call'.cmd = "STOP_TRANS" /\ call'.done = call.done
              /\ call'.prefix = ("STOP_TRANS" \in AppCommands)
          BY <1>1, <3>8 DEF Send, EmmcShapes
        <5> QED  BY <5>1 DEF AppCommands
      <4>2. TransferKnown'  BY <1>2, <2>1, <3>1, <3>3, <4>1 DEF TransferKnown, Placed
      <4>3. Commanded' /\ Streams'  BY <4>1 DEF Commanded, Streams, Answers
      <4> QED  BY <2>1, <3>3, <3>6, <4>2, <4>3 DEF CallKnown
    <3> QED  BY <1>7, <3>7, <3>8
  <2>3. CallKnown'  BY <2>1, <2>2, NothingPromised DEF Moves
  <2> QED  BY <1>2, <1>3, <1>4, <1>5, <2>1, <2>3, DriverStep
<1> QED  BY <1>6, <1>7 DEF DataDone

LEMMA DriverKeepsInv == ASSUME EmmcInv, Driver PROVE EmmcInv'
BY sdResetCardKeepsInv, IssueKeepsInv, RefusedKeepsInv, AnsweredKeepsInv, AnswerLateKeepsInv,
   sdSetClockKeepsInv, sdWaitForDataKeepsInv, sdReadSCRKeepsInv, MoveBlockKeepsInv, DataDoneKeepsInv,
   DataLateKeepsInv, EraseEndsKeepsInv DEF Driver

-----------------------------------------------------------------------------
(* A call begins.                                                          *)
LEMMA sdInitCardKeepsInv == ASSUME EmmcInv, sdInitCard PROVE EmmcInv'
<1>1. EmmcShapes /\ TypeAgrees  BY DEF EmmcInv
<1>2. UNCHANGED <<host, card, disk, sd>>  BY DEF sdInitCard
<1>3. DOMAIN call' = DOMAIN call /\ call'.buffer = << >> /\ call'.op = "init"
  BY <1>1 DEF sdInitCard, NoCall, EmmcShapes
<1>4. << >> \in Seq(Nat)  OBVIOUS
<1>5. TypeAgrees'  BY <1>1, <1>2 DEF TypeAgrees
<1>6. CallKnown'  BY <1>3, NothingPromised
<1> QED  BY <1>1, <1>2, <1>3, <1>4, <1>5, <1>6, DriverStep

LEMMA TransferKeepsInv ==
  ASSUME EmmcInv, NEW op \in {"read", "write", "clear"}, NEW start, NEW num \in Nat \ {0},
         NEW data \in Seq(Nat), Transfer(op, start, num, data),
         op = "read" => data = << >>,
         op = "write" => /\ start \in Int /\ sd.type # "TYPE_1"
                         /\ data = [i \in 1 .. num |-> New(start + i - 1)]
  PROVE  EmmcInv'
<1>1. EmmcShapes /\ TypeAgrees  BY DEF EmmcInv
<1>2. UNCHANGED <<host, card, disk, sd>>  BY DEF Transfer
<1>3. TypeAgrees'  BY <1>1, <1>2 DEF TypeAgrees
<1>4. << >> \in Seq(Nat) /\ Len(<< >>) = 0  OBVIOUS
<1> DEFINE asked == [NoCall EXCEPT !.op = op, !.at = "waitData", !.start = start, !.num = num, !.buffer = data]
<1>5. call' = IF sd.type = "UNKNOWN" THEN Returned(asked, "NO_RESP") ELSE asked  BY DEF Transfer
<1>6. /\ DOMAIN asked = DOMAIN call /\ asked.op = op /\ asked.at = "waitData" /\ asked.start = start
      /\ asked.num = num /\ asked.buffer = data /\ asked.done = 0 /\ asked.prefix = FALSE
  BY <1>1 DEF NoCall, EmmcShapes
<1> HIDE DEF asked
<1>7. CASE sd.type = "UNKNOWN"
  <2>1. call' = [NoCall EXCEPT !.op = asked.op, !.result = "NO_RESP"]  BY <1>5, <1>7 DEF Returned
  <2>2. DOMAIN call' = DOMAIN call /\ call'.buffer = << >> /\ call'.at = "idle" /\ call'.result = "NO_RESP"
    BY <1>1, <2>1 DEF NoCall, EmmcShapes
  <2>3. CallKnown'  BY <2>2, NothingPromised
  <2> QED  BY <1>1, <1>2, <1>3, <1>4, <2>2, <2>3, DriverStep
<1>8. CASE sd.type # "UNKNOWN"
  <2>1. call' = asked  BY <1>5, <1>8
  <2>2. ASSUME op \in {"read", "write"} PROVE TransferKnown'
    <3>1. call'.op = "write" => /\ Placed'
                                /\ call'.buffer = [i \in 1 .. call'.num |-> New(call'.start + i - 1)]
      BY <1>2, <1>6, <2>1 DEF Placed
    <3>2. call'.op = "read" => Len(call'.buffer) = 0  BY <1>4, <1>6, <2>1
    <3> QED  BY <1>2, <1>6, <1>8, <2>1, <3>1, <3>2 DEF TransferKnown
  <2>3. Commanded' /\ Streams' /\ ~Ended'  BY <1>6, <2>1 DEF Commanded, Streams, Answers, Ended
  <2>4. CallKnown'  BY <1>6, <2>1, <2>2, <2>3 DEF CallKnown, Moves
  <2> QED  BY <1>1, <1>2, <1>3, <1>6, <2>1, <2>4, DriverStep
<1> QED  BY <1>7, <1>8

LEMMA ReadKeepsInv ==
  ASSUME EmmcInv, NEW start, NEW num \in Nat \ {0}, sdcard_read(start, num)
  PROVE  EmmcInv'
<1>1. << >> \in Seq(Nat)  OBVIOUS
<1> QED  BY <1>1, TransferKeepsInv DEF sdcard_read

LEMMA RequestsKeepInv == ASSUME EmmcInv, Requests PROVE EmmcInv'
<1>1. CASE sdInitCard  BY <1>1, sdInitCardKeepsInv
<1>2. ASSUME NEW t \in Transfers \cup Erasures,
             \/ sdcard_read(t[1], t[2])
             \/ sd.type # "TYPE_1" /\ sdcard_write(t[1], [i \in 1 .. t[2] |-> New(t[1] + i - 1)])
             \/ sdClearBlocks(t[1], t[2])
      PROVE  EmmcInv'
  <2>1. t[1] \in Blocks /\ t[1] \in Int /\ t[2] \in Nat \ {0}  BY EmmcAssumption DEF Blocks
  <2>2. CASE sdcard_read(t[1], t[2])  BY <2>1, <2>2, ReadKeepsInv
  <2>3. CASE sd.type # "TYPE_1" /\ sdcard_write(t[1], [i \in 1 .. t[2] |-> New(t[1] + i - 1)])
    <3> DEFINE data == [i \in 1 .. t[2] |-> New(t[1] + i - 1)]
    <3>1. \A i \in 1 .. t[2] : New(t[1] + i - 1) \in Nat  BY <2>1, EmmcAssumption DEF New, Blocks
    <3>2. data \in Seq(Nat) /\ Len(data) = t[2]  BY <2>1, <3>1
    <3>3. Transfer("write", t[1], t[2], data)  BY <2>3, <3>2 DEF sdcard_write
    <3> QED  BY <2>1, <2>3, <3>2, <3>3, TransferKeepsInv
  <2>4. CASE sdClearBlocks(t[1], t[2])
    <3>1. << >> \in Seq(Nat)  OBVIOUS
    <3>2. Transfer("clear", t[1], t[2], << >>)  BY <2>4 DEF sdClearBlocks
    <3>3. "clear" \in {"read", "write", "clear"} /\ "clear" # "read" /\ "clear" # "write"  OBVIOUS
    <3> QED  BY <2>1, <3>1, <3>2, <3>3, TransferKeepsInv
  <2> QED  BY <1>2, <2>2, <2>3, <2>4
<1> QED  BY <1>1, <1>2 DEF Requests

LEMMA EmmcInvStutters == ASSUME EmmcInv, UNCHANGED emmcVars PROVE EmmcInv'
<1> USE DEF emmcVars
<1>1. EmmcShapes' /\ TypeAgrees' /\ WireKnown' /\ FifoPlaced' /\ DiskValues'
  BY DEF EmmcInv, EmmcShapes, TypeAgrees, WireKnown, FifoPlaced, DiskValues
<1>2. CallKnown'
  BY DEF EmmcInv, CallKnown, Moves, Ended, TransferKnown, Commanded, Streams, Complete, Answers, Stream,
         StreamRead, StreamWrite, Clean, Placed, TransferCommand, Argument, blockAddress
<1> QED  BY <1>1, <1>2 DEF EmmcInv

LEMMA EmmcInvHoldsFirst == ASSUME EmmcInit PROVE EmmcInv
<1>1. << >> \in Seq(Nat) /\ Len(<< >>) = 0  OBVIOUS
<1>2. EmmcShapes
  <2>1. disk \in [Blocks -> Nat]  BY EmmcAssumption DEF EmmcInit, Blocks
  <2>2. host.fifo = << >> /\ call.buffer = << >>  BY DEF EmmcInit, HostReset, NoCall
  <2> QED  BY <1>1, <2>1, <2>2 DEF EmmcInit, EmmcShapes, HostReset, NoCard, NoCall
<1>3. sd.type = "UNKNOWN" /\ host.reply = NoReply /\ host.cmd = "none" /\ host.ints = {} /\ host.fifo = << >>
      /\ call.op = "none"
  BY DEF EmmcInit, HostReset, NoCard, NoCall
<1>4. TypeAgrees
  <2>1. host.reply.capacity = (host.reply.powered /\ card.kind = "HC")  BY <1>3, NoReplyAgrees
  <2> QED  BY <1>3, <2>1 DEF TypeAgrees, SDTypes
<1>5. WireKnown /\ FifoPlaced /\ CallKnown  BY <1>3 DEF WireKnown, FifoPlaced, CallKnown, Moves
<1>6. DiskValues  BY DEF EmmcInit, DiskValues
<1> QED  BY <1>2, <1>4, <1>5, <1>6 DEF EmmcInv

-----------------------------------------------------------------------------
(* The driver with any program above it that reads blocks by their number; *)
(* what is written and erased is what module Emmc says.                    *)
AnyRequest == Requests \/ \E start \in Int, num \in Nat \ {0} : sdcard_read(start, num)
DriverSpec == EmmcInit /\ [][Hardware \/ Driver \/ AnyRequest]_emmcVars

NumberKnown == call.start \in Int

LEMMA InvIsWhole == ASSUME EmmcInv, NumberKnown PROVE TransferWhole
<1>1. SUFFICES ASSUME call.at = "idle", call.result = "OK", call.op \in {"read", "write"}, sd.type # "TYPE_1"
               PROVE  call.buffer = [i \in 1 .. call.num |-> disk[call.start + i - 1]]
  BY DEF TransferWhole
<1>2. Complete /\ call.num \in Nat /\ call.buffer \in Seq(Nat) /\ Placed
  BY <1>1 DEF EmmcInv, EmmcShapes, CallKnown, Moves, Ended, Placed, NumberKnown
<1>3. /\ Len(call.buffer) = call.num
      /\ \A i \in 1 .. call.num : call.buffer[i] = disk[call.start + i - 1]
  BY <1>2 DEF Complete
<1> DEFINE blocks == [i \in 1 .. call.num |-> call.buffer[i]]
<1>4. call.buffer = [i \in 1 .. Len(call.buffer) |-> call.buffer[i]]  BY <1>2
<1>5. call.buffer = blocks  BY ONLY <1>3, <1>4
<1> QED  BY <1>3, <1>5

(* A call keeps its operation to its end, and its arguments while it runs. *)
Kept == /\ call.at # "idle" /\ call'.op = call.op /\ call'.start \in {call.start, 0}
        /\ call'.at # "idle" => call'.start = call.start /\ call'.num = call.num

LEMMA DriverKeeps == ASSUME EmmcShapes, Driver PROVE Kept
<1> USE DEF Kept
<1>0. call.at # "idle"
  BY DEF Driver, sdResetCard, Issue, Refused, Answered, AnswerLate, sdSetClock, sdWaitForData, sdReadSCR,
         MoveBlock, DataDone, DataLate, EraseEnds
<1>1. ASSUME NEW result, Return(result) PROVE Kept  BY <1>0, <1>1, ReturnedShape
<1>2. ASSUME NEW cmd, call' = Send(call, cmd) PROVE Kept
  BY <1>0, <1>2 DEF Send, EmmcShapes
<1>3. CASE sdResetCard  BY <1>1, <1>2, <1>3 DEF sdResetCard
<1>4. CASE Issue  BY <1>0, <1>4 DEF Issue, EmmcShapes
<1>5. CASE Refused  BY <1>0, <1>5, CommandEndsShape DEF Refused
<1>6. CASE Answered  BY <1>0, <1>6, CommandEndsShape DEF Answered
<1>7. CASE AnswerLate  BY <1>0, <1>7, CommandEndsShape DEF AnswerLate
<1>8. CASE sdSetClock \/ sdWaitForData  BY <1>1, <1>2, <1>8 DEF sdSetClock, sdWaitForData
<1>9. CASE sdReadSCR  BY <1>1, <1>2, <1>9 DEF sdReadSCR
<1>10. CASE MoveBlock
  <2>1. ASSUME NEW c, c \in {[call EXCEPT !.done = @ + 1, !.buffer = @ \o host.fifo],
                            [call EXCEPT !.done = @ + 1]}, call' = NextBlock(c)
        PROVE  Kept
    <3>1. c.op = call.op /\ c.start = call.start /\ c.num = call.num /\ DOMAIN c = DOMAIN call
      BY <2>1 DEF EmmcShapes
    <3>2. call' \in {c, [c EXCEPT !.at = "done"], Send(c, "STOP_TRANS"), Returned(c, "OK")}
      BY <2>1 DEF NextBlock
    <3>3. CASE call' \in {c, [c EXCEPT !.at = "done"]}  BY <1>0, <3>1, <3>3 DEF EmmcShapes
    <3>4. CASE call' = Send(c, "STOP_TRANS")  BY <1>0, <3>1, <3>4 DEF Send, EmmcShapes
    <3>5. CASE call' = Returned(c, "OK")  BY <1>0, <3>1, <3>5 DEF Returned, NoCall
    <3> QED  BY <3>2, <3>3, <3>4, <3>5
  <2> QED  BY <1>1, <1>10, <2>1 DEF MoveBlock
<1>11. CASE DataDone  BY <1>1, <1>2, <1>11 DEF DataDone
<1>12. CASE DataLate  BY <1>1, <1>12 DEF DataLate
<1>13. CASE EraseEnds  BY <1>1, <1>13 DEF EraseEnds
<1> QED
  BY <1>3, <1>4, <1>5, <1>6, <1>7, <1>8, <1>9, <1>10, <1>11, <1>12, <1>13 DEF Driver

LEMMA NumberStaysKnown ==
  ASSUME EmmcShapes, NumberKnown, Hardware \/ Driver \/ AnyRequest \/ UNCHANGED emmcVars
  PROVE  NumberKnown'
<1>1. CASE Hardware
  BY <1>1 DEF NumberKnown, Hardware, CardAnswers, NoAnswer, CardSends, HostWants, CardStores, DataEnds, DataFails
<1>2. CASE Driver  BY <1>2, DriverKeeps DEF NumberKnown, Kept
<1>3. CASE AnyRequest
  <2>1. ASSUME NEW op, NEW start \in Int, NEW num, NEW data, Transfer(op, start, num, data)
        PROVE  call'.start \in Int
    BY <2>1 DEF Transfer, Returned, NoCall
  <2>2. CASE sdInitCard  BY <2>2 DEF sdInitCard, NoCall, NumberKnown
  <2>3. CASE \E start \in Int, num \in Nat \ {0} : sdcard_read(start, num)
    BY <2>1, <2>3 DEF sdcard_read, NumberKnown
  <2>4. ASSUME NEW t \in Transfers \cup Erasures,
               \/ sdcard_read(t[1], t[2])
               \/ sdcard_write(t[1], [i \in 1 .. t[2] |-> New(t[1] + i - 1)])
               \/ sdClearBlocks(t[1], t[2])
        PROVE  NumberKnown'
    <3>1. t[1] \in Int  BY EmmcAssumption
    <3> QED  BY <2>1, <2>4, <3>1 DEF sdcard_read, sdcard_write, sdClearBlocks, NumberKnown
  <2> QED  BY <1>3, <2>2, <2>3, <2>4 DEF AnyRequest, Requests
<1>4. CASE UNCHANGED emmcVars  BY <1>4 DEF emmcVars, NumberKnown
<1> QED  BY <1>1, <1>2, <1>3, <1>4

(* Whatever reads, writes, erasures and new starts of the card are asked   *)
(* for, and whatever the card and the host do in between, a read or write  *)
(* of sdTransferBlocks that returns OK moved every block asked for, in     *)
(* order, to or from its place on the card.                                *)
THEOREM TransferIsWhole == DriverSpec => []TransferWhole
<1>1. EmmcInit => EmmcInv /\ NumberKnown
  <2>1. EmmcInit => EmmcInv  BY EmmcInvHoldsFirst
  <2>2. ASSUME EmmcInit PROVE call.start = 0  BY <2>2 DEF EmmcInit, NoCall
  <2>3. EmmcInit => NumberKnown  BY <2>2 DEF NumberKnown
  <2> QED  BY <2>1, <2>3
<1>2. EmmcInv /\ NumberKnown /\ [Hardware \/ Driver \/ AnyRequest]_emmcVars => (EmmcInv /\ NumberKnown)'
  <2>1. SUFFICES ASSUME EmmcInv, NumberKnown, [Hardware \/ Driver \/ AnyRequest]_emmcVars
                 PROVE  EmmcInv' /\ NumberKnown'
    OBVIOUS
  <2>2. EmmcInv'
    BY <2>1, HardwareKeepsInv, DriverKeepsInv, RequestsKeepInv, ReadKeepsInv, EmmcInvStutters DEF AnyRequest
  <2>3. NumberKnown'  BY <2>1, NumberStaysKnown DEF EmmcInv
  <2> QED  BY <2>2, <2>3
<1>3. EmmcInv /\ NumberKnown => TransferWhole  BY InvIsWhole
<1> QED  BY <1>1, <1>2, <1>3, PTL DEF DriverSpec

-----------------------------------------------------------------------------
(* The driver under the file system.                                       *)
LEMMA FatStepAsks ==
  ASSUME FatStep
  PROVE  sdInitCard \/ sdcard_read(Wanted, 1) \/ UNCHANGED emmcVars
BY DEF FatStep, StartCard, CardStarted, Ask, BootSectorRead, EnterCluster, TableSectorRead,
       DirectorySectorRead, ScanEntry, DataSectorRead, read_file

LEMMA FatKeepsInv == Spec => []EmmcInv
<1>1. FatInit => EmmcInv  BY EmmcInvHoldsFirst DEF FatInit
<1>2. EmmcInv /\ [Next]_vars => EmmcInv'
  <2>1. SUFFICES ASSUME EmmcInv, [Next]_vars PROVE EmmcInv'  OBVIOUS
  <2>2. CASE FatStep
    BY <2>1, <2>2, FatStepAsks, sdInitCardKeepsInv, ReadKeepsInv, EmmcInvStutters
  <2>3. CASE UNCHANGED vars
    <3>1. UNCHANGED emmcVars  BY <2>3 DEF vars
    <3> QED  BY <2>1, <3>1, EmmcInvStutters
  <2> QED  BY <2>1, <2>2, <2>3, HardwareKeepsInv, DriverKeepsInv, RequestsKeepInv DEF Next
<1> QED  BY <1>1, <1>2, PTL DEF Spec

(* What the file system reads is whole, whenever what it asks for is the   *)
(* number of a block, for every volume: even of one whose fields make      *)
(* no sense it gets the blocks that it asked for.                          *)
THEOREM FileReadsAreWhole == Spec => [](NumberKnown => TransferWhole)
BY FatKeepsInv, InvIsWhole, PTL

-----------------------------------------------------------------------------
(* The start of a card.  What is in the records, and how much.             *)
HostTyped ==
  /\ host.ints \subseteq Ints /\ host.BLKCNT \in 0 .. MaxBlock + 1 /\ host.wide \in BOOLEAN
  /\ host.reply.error \in BOOLEAN /\ host.reply.powered \in BOOLEAN
  /\ host.reply.capacity \in BOOLEAN /\ host.reply.APP_CMD \in BOOLEAN
  /\ host.reply.voltage = host.reply.powered

CardTyped == card.scr \in Cards /\ card.wide \in BOOLEAN

SdTyped == sd \in SDDescriptor /\ (sd.powered => sd.type # "UNKNOWN")

Operations == {"init", "read", "write", "clear"}

CallTyped ==
  /\ call.result \in SDResults /\ call.tries \in 0 .. Retries /\ call.num \in 0 .. MaxBlock + 1
  /\ call.done \in 0 .. call.num
  /\ call.at # "idle" => call.op \in Operations
  /\ call.at = "scr" \/ call.cmd \in {"SEND_SCR", "SET_BUS_WIDTH"} => call.op = "init"

(* A card that is not selected uses one line, and SET_BUS_WIDTH, which     *)
(* another command has the number of, is on its way only to a card that    *)
(* expects it.                                                             *)
CardKept ==
  /\ card.state \in {"idle", "ready", "ident", "stby"} => ~card.wide
  /\ ~card.misread
  /\ host.cmd = "SET_BUS_WIDTH" => card.app

(* The commands of sdInitCard, before the card's number is known and once  *)
(* it is.                                                                  *)
TypeCommands == {"GO_IDLE_STATE", "SEND_IF_COND", "APP_SEND_OP_COND"}
Early        == TypeCommands \cup {"ALL_SEND_CID"}
Addressed    == {"SEND_CSD", "CARD_SELECT", "SEND_SCR", "SET_BUS_WIDTH", "SET_BLOCKLEN"}
Late         == Addressed \cup {"SEND_REL_ADDR"}

Starting     == call.op = "init" /\ call.at \notin {"idle", "reset"}
Heard        == call.at = "sent" /\ host.cmd = "none" /\ "CMD_DONE" \in host.ints /\ Clean
HeardWell    == Heard /\ ~host.reply.error

(* Where sdInitCard is, and that it knows the card's type and number.      *)
StartKnown ==
  Starting =>
    /\ call.cmd \in Early \cup Late
    /\ call.at \in {"send", "sent", "clock", "waitData", "scr"}
    /\ call.at = "clock" => call.cmd = "SEND_CSD"
    /\ call.at = "waitData" => call.cmd = "CARD_SELECT"
    /\ call.at = "scr" => call.cmd = "SEND_SCR"
    /\ call.prefix => call.cmd \in AppCommands
    /\ call.at = "sent" /\ host.cmd # "none" => host.cmd = Wire /\ host.ints = {}
    /\ call.cmd \in Early => ~host.wide
    /\ call.cmd \in Late /\ call.at # "sent" => host.cmd = "none"
    /\ call.cmd \notin TypeCommands => sd.type # "UNKNOWN"
    /\ call.cmd \in Addressed => sd.rca

(* The card uses the lines that the host uses, but for the moment between  *)
(* SET_BUS_WIDTH and its answer.                                           *)
WidthKnown ==
  Starting =>
    /\ call.cmd = "ALL_SEND_CID" /\ Heard => ~card.wide
    /\ call.cmd \in Late =>
         \/ card.wide = host.wide
         \/ call.cmd = "SET_BUS_WIDTH" /\ ~call.prefix /\ call.at = "sent" /\ host.cmd = "none"
    /\ call.cmd = "SET_BUS_WIDTH" /\ call.at = "send" /\ ~call.prefix => card.app
    /\ call.cmd = "SET_BUS_WIDTH" /\ HeardWell => (IF call.prefix THEN card.app ELSE card.wide)
    /\ call.cmd = "SET_BLOCKLEN" /\ HeardWell => card.state = "tran" /\ card.blockLen

Started == call.at = "idle" /\ call.op = "init" /\ call.result = "OK"
Ready   == Initialised /\ (Started => host.cmd = "none")

StartInv ==
  HostTyped /\ CardTyped /\ SdTyped /\ CallTyped /\ CardKept /\ StartKnown /\ WidthKnown /\ Ready

-----------------------------------------------------------------------------
(* What goes on at the data lines.                                         *)
LEMMA DataLinesKeepStart ==
  ASSUME StartInv, UNCHANGED <<sd, call>>, HostTyped',
         host.cmd = "none", host'.cmd = "none", host'.wide = host.wide, host'.reply = host.reply,
         "CMD_DONE" \in host'.ints => "CMD_DONE" \in host.ints, Clean' => Clean,
         card'.state \in {card.state, "tran"}, card'.scr = card.scr, card'.wide = card.wide,
         card'.app = card.app, card'.misread = card.misread, card'.blockLen = card.blockLen
  PROVE  StartInv'
<1>1. CardTyped' /\ SdTyped' /\ CallTyped'  BY DEF StartInv, CardTyped, SdTyped, CallTyped
<1>2. CardKept'  BY DEF StartInv, CardKept
<1>3. Starting' = Starting /\ Started' = Started  BY DEF Starting, Started
<1>4. StartKnown'  BY <1>3 DEF StartInv, StartKnown
<1>5. Heard' => Heard  BY DEF Heard
<1>6. HeardWell' => HeardWell  BY <1>5 DEF HeardWell
<1>7. WidthKnown'  BY <1>3, <1>5, <1>6 DEF StartInv, WidthKnown
<1>8. Ready'  BY <1>3 DEF StartInv, Ready, Initialised, Started
<1> QED  BY <1>1, <1>2, <1>4, <1>7, <1>8 DEF StartInv

LEMMA OneBlockOnStart ==
  ASSUME EmmcShapes
  PROVE  /\ OneBlockOn.state \in {card.state, "tran"} /\ OneBlockOn.scr = card.scr
         /\ OneBlockOn.wide = card.wide /\ OneBlockOn.app = card.app
         /\ OneBlockOn.misread = card.misread /\ OneBlockOn.blockLen = card.blockLen
BY DEF OneBlockOn, EmmcShapes

LEMMA DataKeepsStart ==
  ASSUME EmmcShapes, StartInv, CardSends \/ HostWants \/ CardStores \/ DataEnds \/ DataFails
  PROVE  StartInv'
<1>0. HostTyped  BY DEF StartInv
<1>1. CASE CardSends
  <2>1. /\ host'.ints = host.ints \cup {"READ_RDY"} /\ host'.BLKCNT = host.BLKCNT - 1
        /\ host'.cmd = host.cmd /\ host.cmd = "none" /\ host'.wide = host.wide /\ host'.reply = host.reply
        /\ card' = OneBlockOn /\ UNCHANGED <<sd, call>> /\ host.BLKCNT > 0
    BY <1>1 DEF CardSends, Streaming, EmmcShapes
  <2>2. host'.BLKCNT \in 0 .. MaxBlock + 1  BY <1>0, <2>1, EmmcAssumption DEF HostTyped
  <2>3. HostTyped'  BY <1>0, <2>1, <2>2 DEF HostTyped, Ints
  <2>4. Clean' => Clean  BY <2>1 DEF Clean
  <2> QED  BY <2>1, <2>3, <2>4, OneBlockOnStart, DataLinesKeepStart
<1>2. CASE HostWants
  <2>1. /\ host'.ints = host.ints \cup {"WRITE_RDY"} /\ host'.BLKCNT = host.BLKCNT
        /\ host'.cmd = host.cmd /\ host.cmd = "none" /\ host'.wide = host.wide /\ host'.reply = host.reply
        /\ UNCHANGED <<card, sd, call>>
    BY <1>2 DEF HostWants, Streaming, EmmcShapes
  <2>3. HostTyped'  BY <1>0, <2>1 DEF HostTyped, Ints
  <2>4. Clean' => Clean  BY <2>1 DEF Clean
  <2> QED  BY <2>1, <2>3, <2>4, DataLinesKeepStart
<1>3. CASE CardStores
  <2>1. /\ host'.ints = host.ints /\ host'.BLKCNT = host.BLKCNT - 1
        /\ host'.cmd = host.cmd /\ host.cmd = "none" /\ host'.wide = host.wide /\ host'.reply = host.reply
        /\ card' = OneBlockOn /\ UNCHANGED <<sd, call>> /\ host.BLKCNT > 0
    BY <1>3 DEF CardStores, Streaming, EmmcShapes
  <2>2. host'.BLKCNT \in 0 .. MaxBlock + 1  BY <1>0, <2>1, EmmcAssumption DEF HostTyped
  <2>3. HostTyped'  BY <1>0, <2>1, <2>2 DEF HostTyped
  <2>4. Clean' => Clean  BY <2>1 DEF Clean
  <2> QED  BY <2>1, <2>3, <2>4, OneBlockOnStart, DataLinesKeepStart
<1>4. CASE DataEnds
  <2>1. /\ host'.ints = host.ints \cup {"DATA_DONE"} /\ host'.BLKCNT = host.BLKCNT
        /\ host'.cmd = host.cmd /\ host.cmd = "none" /\ host'.wide = host.wide /\ host'.reply = host.reply
        /\ UNCHANGED <<card, sd, call>>
    BY <1>4 DEF DataEnds, EmmcShapes
  <2>3. HostTyped'  BY <1>0, <2>1 DEF HostTyped, Ints
  <2>4. Clean' => Clean  BY <2>1 DEF Clean
  <2> QED  BY <2>1, <2>3, <2>4, DataLinesKeepStart
<1>5. CASE DataFails
  <2>0. PICK bits \in {{"ERR"}, {"ERR", "DTO_ERR"}}, datInhibit \in BOOLEAN :
          host' = [host EXCEPT !.ints = @ \cup bits, !.datInhibit = datInhibit, !.fifo = << >>]
    BY <1>5 DEF DataFails
  <2>1. /\ host'.ints = host.ints \cup bits /\ host'.BLKCNT = host.BLKCNT
        /\ host'.cmd = host.cmd /\ host.cmd = "none" /\ host'.wide = host.wide /\ host'.reply = host.reply
        /\ UNCHANGED <<card, sd, call>>
    BY <1>5, <2>0 DEF DataFails, EmmcShapes
  <2>3. HostTyped'  BY <1>0, <2>1 DEF HostTyped, Ints
  <2>4. Clean' => Clean  BY <2>1 DEF Clean
  <2>5. "CMD_DONE" \in host'.ints => "CMD_DONE" \in host.ints  BY <2>1
  <2> QED  BY <2>1, <2>3, <2>4, <2>5, DataLinesKeepStart
<1> QED  BY <1>1, <1>2, <1>3, <1>4, <1>5

-----------------------------------------------------------------------------
(* What becomes of a command at the card.                                  *)
Plain(cmd) == cmd \notin {"GO_IDLE_STATE", "SET_BUS_WIDTH"}

LEMMA ObeyedKept ==
  ASSUME EmmcShapes, NEW cmd, NEW arg
  PROVE  /\ DOMAIN Obeyed(cmd, arg) = DOMAIN card /\ Obeyed(cmd, arg).scr = card.scr
         /\ Plain(cmd) => Obeyed(cmd, arg).wide = card.wide /\ Obeyed(cmd, arg).misread = card.misread
         /\ Plain(cmd) /\ cmd \notin {"ALL_SEND_CID", "SEND_REL_ADDR"}
              => Obeyed(cmd, arg).state \in {card.state, "tran", "data", "rcv"}
<1> USE DEF Plain, Obeyed, MultiCommands, EmmcShapes
<1>1. CASE cmd = "GO_IDLE_STATE"  BY <1>1
<1>2. CASE cmd = "SET_BUS_WIDTH"  BY <1>2
<1>3. CASE cmd \in {"ALL_SEND_CID", "SEND_REL_ADDR"}  BY <1>3
<1>4. CASE cmd = "CARD_SELECT"  BY <1>4
<1>5. CASE cmd = "SEND_SCR"  BY <1>5
<1>6. CASE cmd = "SET_BLOCKLEN"  BY <1>6
<1>7. CASE cmd = "SET_BLOCKCNT"  BY <1>7
<1>8. CASE cmd = "READ_SINGLE"  BY <1>8
<1>9. CASE cmd = "WRITE_SINGLE"  BY <1>9
<1>10. CASE cmd = "STOP_TRANS"  BY <1>10
<1>11. CASE cmd = "ERASE_WR_ST"  BY <1>11
<1>12. CASE cmd = "ERASE_WR_END"  BY <1>12
<1>13. CASE cmd \in MultiCommands  BY <1>13
<1>14. CASE cmd \notin {"GO_IDLE_STATE", "SET_BUS_WIDTH", "ALL_SEND_CID", "SEND_REL_ADDR", "CARD_SELECT",
                       "SEND_SCR", "SET_BLOCKLEN", "SET_BLOCKCNT", "READ_SINGLE", "WRITE_SINGLE",
                       "STOP_TRANS", "ERASE_WR_ST", "ERASE_WR_END"} \cup MultiCommands
  BY <1>14
<1> HIDE DEF Obeyed
<1> QED
  BY <1>1, <1>2, <1>3, <1>4, <1>5, <1>6, <1>7, <1>8, <1>9, <1>10, <1>11, <1>12, <1>13, <1>14

LEMMA ObeyedIdle ==
  ASSUME EmmcShapes, NEW arg
  PROVE  /\ Obeyed("GO_IDLE_STATE", arg).wide = FALSE
         /\ Obeyed("GO_IDLE_STATE", arg).misread = card.misread
BY DEF Obeyed, MultiCommands, EmmcShapes

LEMMA ObeyedWidth ==
  ASSUME EmmcShapes, NEW arg
  PROVE  /\ Obeyed("SET_BUS_WIDTH", arg).wide = (card.app \/ card.wide)
         /\ Obeyed("SET_BUS_WIDTH", arg).misread = (card.misread \/ ~card.app)
         /\ Obeyed("SET_BUS_WIDTH", arg).state = card.state
BY DEF Obeyed, MultiCommands, EmmcShapes

LEMMA ObeyedLength ==
  ASSUME EmmcShapes, NEW arg
  PROVE  Obeyed("SET_BLOCKLEN", arg).blockLen = TRUE /\ Obeyed("SET_BLOCKLEN", arg).state = card.state
BY DEF Obeyed, MultiCommands, EmmcShapes

LEMMA ObeyedPrefix == ASSUME EmmcShapes, NEW arg PROVE Obeyed("APP_CMD", arg).app = TRUE
BY DEF Obeyed, MultiCommands, EmmcShapes

(* A command that is with the card is the one that a start waits for.      *)
LEMMA Waiting ==
  ASSUME StartInv, host.cmd # "none", Starting, call.cmd \in Late \cup {"ALL_SEND_CID"}, call.at = "sent"
  PROVE  /\ host.cmd = IF call.prefix THEN "APP_CMD" ELSE call.cmd
         /\ call.prefix => call.cmd \in AppCommands
         /\ call.cmd \in Late => card.wide = host.wide
BY DEF StartInv, StartKnown, WidthKnown, Wire

LEMMA CardAnswersKeepsStart == ASSUME EmmcShapes, StartInv, CardAnswers PROVE StartInv'
<1> USE DEF StartInv
<1>1. PICK error \in BOOLEAN, powered \in BOOLEAN, spoilt \in BOOLEAN :
        Reaches(error, powered, spoilt)
  BY DEF CardAnswers
<1>2. host.cmd # "none" /\ Legal(host.cmd) /\ UNCHANGED <<sd, call>>  BY DEF CardAnswers
<1>3. /\ host'.cmd = "none" /\ host'.BLKCNT = host.BLKCNT /\ host'.wide = host.wide
      /\ host'.ints = host.ints \cup IF spoilt THEN {"ERR"} ELSE {"CMD_DONE"}
      /\ host'.reply.error = error /\ host'.reply.powered = powered /\ host'.reply.voltage = powered
      /\ host'.reply.capacity = (powered /\ card.kind = "HC")
      /\ host'.reply.APP_CMD = (host.cmd = "APP_CMD" \/ card.app)
  BY <1>1 DEF Reaches, EmmcShapes
<1>4. HostTyped'  BY <1>3 DEF HostTyped, Ints
<1>5. powered => host.cmd = "APP_SEND_OP_COND" /\ ~error  BY <1>1 DEF Reaches
<1>6. card'.scr = card.scr /\ (error => /\ card'.wide = card.wide /\ card'.misread = card.misread
                                         /\ card'.state = card.state)
  <2>1. CASE error
    <3>1. card' = [card EXCEPT !.app = FALSE]  BY <1>1, <2>1 DEF Reaches
    <3> QED  BY <3>1 DEF EmmcShapes
  <2>2. CASE ~error
    <3>1. card' = [Obeyed(host.cmd, host.arg) EXCEPT !.state = IF powered THEN "ready" ELSE @]
      BY <1>1, <2>2 DEF Reaches
    <3>2. DOMAIN Obeyed(host.cmd, host.arg) = DOMAIN card /\ Obeyed(host.cmd, host.arg).scr = card.scr
      BY ObeyedKept
    <3> QED  BY <2>2, <3>1, <3>2 DEF EmmcShapes
  <2> QED  BY <2>1, <2>2
<1>7. ASSUME ~error
      PROVE  /\ card'.wide = Obeyed(host.cmd, host.arg).wide
             /\ card'.misread = Obeyed(host.cmd, host.arg).misread
             /\ card'.app = Obeyed(host.cmd, host.arg).app
             /\ card'.blockLen = Obeyed(host.cmd, host.arg).blockLen
             /\ host.cmd # "APP_SEND_OP_COND" => card'.state = Obeyed(host.cmd, host.arg).state
  <2>1. card' = [Obeyed(host.cmd, host.arg) EXCEPT !.state = IF powered THEN "ready" ELSE @]
    BY <1>1, <1>7 DEF Reaches
  <2>2. DOMAIN Obeyed(host.cmd, host.arg) = DOMAIN card  BY ObeyedKept
  <2> QED  BY <1>5, <2>1, <2>2 DEF EmmcShapes
<1>8. Plain(host.cmd) => card'.wide = card.wide /\ card'.misread = card.misread
  <2>1. Plain(host.cmd) => /\ Obeyed(host.cmd, host.arg).wide = card.wide
                           /\ Obeyed(host.cmd, host.arg).misread = card.misread
    BY ObeyedKept
  <2> QED  BY <1>6, <1>7, <2>1
<1>9. /\ host.cmd = "GO_IDLE_STATE" => card'.wide \in {card.wide, FALSE} /\ card'.misread = card.misread
      /\ host.cmd = "SET_BUS_WIDTH" => /\ card'.wide \in {card.wide, card.app \/ card.wide}
                                       /\ card'.misread \in {card.misread, card.misread \/ ~card.app}
                                       /\ card'.state = card.state
  BY <1>6, <1>7, ObeyedIdle, ObeyedWidth
<1>10. CardTyped'
  <2>1. card'.wide \in BOOLEAN  BY <1>8, <1>9 DEF CardTyped, Plain
  <2> QED  BY <1>6, <2>1 DEF CardTyped
<1>11. ~card'.misread  BY <1>8, <1>9 DEF CardKept, Plain
<1>12. ASSUME card'.state \in {"idle", "ready", "ident", "stby"} PROVE card'.wide = FALSE
  <2>1. ~card.wide => card.wide = FALSE  BY DEF CardTyped
  <2>2. CASE error  BY <1>6, <1>12, <2>1, <2>2 DEF CardKept
  <2>3. CASE host.cmd = "GO_IDLE_STATE" /\ ~error  BY <1>7, <2>3, ObeyedIdle
  <2>4. CASE host.cmd = "SET_BUS_WIDTH"
    BY <1>2, <1>9, <1>12, <2>4 DEF Legal
  <2>5. CASE host.cmd \in {"ALL_SEND_CID", "SEND_REL_ADDR", "APP_SEND_OP_COND"}
    <3>1. card.state \in {"idle", "ready", "ident", "stby"}  BY <1>2, <2>5 DEF Legal
    <3> QED  BY <1>8, <2>1, <2>5, <3>1 DEF CardKept, Plain
  <2>6. CASE /\ Plain(host.cmd) /\ host.cmd \notin {"ALL_SEND_CID", "SEND_REL_ADDR", "APP_SEND_OP_COND"}
             /\ ~error
    <3>1. card'.state \in {card.state, "tran", "data", "rcv"}  BY <1>7, <2>6, ObeyedKept
    <3> QED  BY <1>8, <1>12, <2>1, <2>6, <3>1 DEF CardKept
  <2> QED  BY <2>2, <2>3, <2>4, <2>5, <2>6 DEF Plain
<1>13. CardKept'  BY <1>3, <1>11, <1>12 DEF CardKept
<1>14. SdTyped' /\ CallTyped' /\ Starting' = Starting /\ Started' = Started
  BY <1>2 DEF SdTyped, CallTyped, Starting, Started
<1>15. StartKnown'  BY <1>2, <1>3, <1>14 DEF StartKnown
<1>16. ASSUME Starting, call.cmd \in Late \cup {"ALL_SEND_CID"}, call.at = "sent"
       PROVE  /\ call.cmd = "ALL_SEND_CID" => ~card'.wide
              /\ call.cmd \in Late => \/ card'.wide = host.wide
                                      \/ call.cmd = "SET_BUS_WIDTH" /\ ~call.prefix
              /\ call.cmd = "SET_BUS_WIDTH" /\ ~error =>
                   (IF call.prefix THEN card'.app ELSE card'.wide)
              /\ call.cmd = "SET_BLOCKLEN" /\ ~error => card'.state = "tran" /\ card'.blockLen
  <2>1. /\ host.cmd = IF call.prefix THEN "APP_CMD" ELSE call.cmd
        /\ call.prefix => call.cmd \in AppCommands
        /\ call.cmd \in Late => card.wide = host.wide
    BY <1>2, <1>16, Waiting
  <2>2. call.cmd \in {"ALL_SEND_CID", "SEND_CSD", "CARD_SELECT", "SEND_SCR", "SET_BUS_WIDTH", "SET_BLOCKLEN",
                      "SEND_REL_ADDR"}
    BY <1>16 DEF Late, Addressed
  <2>3. CASE call.cmd = "ALL_SEND_CID"
    <3>1. host.cmd = "ALL_SEND_CID"  BY <2>1, <2>3 DEF AppCommands
    <3>2. card.state = "ready"  BY <1>2, <3>1 DEF Legal
    <3> QED  BY <1>8, <2>3, <3>1, <3>2 DEF CardKept, Plain, Late, Addressed
  <2>4. CASE call.cmd = "SET_BUS_WIDTH" /\ call.prefix
    <3>1. host.cmd = "APP_CMD"  BY <2>1, <2>4
    <3>2. ~error => card'.app = TRUE  BY <1>7, <3>1, ObeyedPrefix
    <3> QED  BY <1>8, <2>1, <2>4, <3>1, <3>2 DEF Plain, Late, Addressed
  <2>5. CASE call.cmd = "SET_BUS_WIDTH" /\ ~call.prefix
    <3>1. host.cmd = "SET_BUS_WIDTH"  BY <2>1, <2>5
    <3>2. ~error => card'.wide  BY <1>7, <3>1, ObeyedWidth DEF CardKept
    <3> QED  BY <2>5, <3>2
  <2>6. CASE call.cmd = "SET_BLOCKLEN"
    <3>1. host.cmd = "SET_BLOCKLEN"  BY <2>1, <2>6 DEF AppCommands
    <3>2. card.state = "tran"  BY <1>2, <3>1 DEF Legal
    <3>3. ~error => card'.state = "tran" /\ card'.blockLen  BY <1>7, <3>1, <3>2, ObeyedLength
    <3> QED  BY <1>8, <2>1, <2>6, <3>1, <3>3 DEF Plain, Late, Addressed
  <2>7. CASE call.cmd \in {"SEND_CSD", "CARD_SELECT", "SEND_SCR", "SEND_REL_ADDR"}
    <3>1. Plain(host.cmd)  BY <2>1, <2>7 DEF Plain
    <3> QED  BY <1>8, <2>1, <2>7, <3>1 DEF Late, Addressed
  <2> QED  BY <2>2, <2>3, <2>4, <2>5, <2>6, <2>7
<1>17. ASSUME Starting, call.cmd \in Late PROVE call.at = "sent"
  BY <1>2, <1>17 DEF StartKnown
<1>18. {"SET_BUS_WIDTH", "SET_BLOCKLEN"} \subseteq Late  BY DEF Late, Addressed
<1>19. WidthKnown'
  <2>1. (Heard' => call.at = "sent") /\ (HeardWell' => call.at = "sent" /\ ~error)
    BY <1>2, <1>3 DEF Heard, HeardWell
  <2> HIDE DEF StartInv
  <2> QED  BY <1>2, <1>3, <1>14, <1>16, <1>17, <1>18, <2>1 DEF WidthKnown
<1>20. Ready'
  <2>1. ~Started  BY <1>2 DEF Ready
  <2> QED  BY <1>3, <1>11, <1>14, <2>1 DEF Ready, Initialised, Started
<1> QED  BY <1>4, <1>10, <1>13, <1>14, <1>15, <1>19, <1>20

LEMMA NoAnswerKeepsStart == ASSUME EmmcShapes, StartInv, NoAnswer PROVE StartInv'
<1> USE DEF StartInv
<1>1. PICK cmdInhibit \in BOOLEAN, datInhibit \in BOOLEAN :
        host' = [host EXCEPT !.cmd = "none", !.arg = 0, !.cmdInhibit = cmdInhibit,
                   !.datInhibit = datInhibit,
                   !.ints = @ \cup IF Silent(host.cmd) THEN {"CMD_DONE"} ELSE {"ERR", "CTO_ERR"}]
  BY DEF NoAnswer
<1>2. host.cmd # "none" /\ UNCHANGED <<sd, call>>  BY DEF NoAnswer
<1>3. /\ host'.cmd = "none" /\ host'.BLKCNT = host.BLKCNT /\ host'.wide = host.wide /\ host'.reply = host.reply
      /\ host'.ints = host.ints \cup IF Silent(host.cmd) THEN {"CMD_DONE"} ELSE {"ERR", "CTO_ERR"}
  BY <1>1 DEF EmmcShapes
<1>4. /\ card'.scr = card.scr /\ card'.wide = card.wide /\ card'.misread = card.misread
      /\ card'.state = card.state /\ card'.blockLen = card.blockLen
  BY DEF NoAnswer, EmmcShapes
<1>5. HostTyped'  BY <1>3 DEF HostTyped, Ints
<1>6. CardTyped' /\ CardKept'  BY <1>3, <1>4 DEF CardTyped, CardKept
<1>7. SdTyped' /\ CallTyped' /\ Starting' = Starting /\ Started' = Started
  BY <1>2 DEF SdTyped, CallTyped, Starting, Started
<1>8. StartKnown'  BY <1>2, <1>3, <1>7 DEF StartKnown
<1>9. ASSUME Starting, call.cmd \in Late PROVE call.at = "sent"
  BY <1>2, <1>9 DEF StartKnown
<1>10. ASSUME Starting, call.cmd \in Addressed \cup {"ALL_SEND_CID"} PROVE ~Heard'
  <2>1. SUFFICES ASSUME call.at = "sent" PROVE ~Clean'  BY <1>2 DEF Heard
  <2>2. host.cmd = IF call.prefix THEN "APP_CMD" ELSE call.cmd  BY <1>2, <1>10, <2>1, Waiting DEF Late
  <2>3. ~Silent(host.cmd)
    BY <1>10, <2>2 DEF Silent, StartKnown, AppCommands, Addressed
  <2> QED  BY <1>3, <2>3 DEF Clean
<1>11. WidthKnown'
  <2>1. {"SET_BUS_WIDTH", "SET_BLOCKLEN"} \subseteq Addressed /\ Addressed \subseteq Late  BY DEF Late, Addressed
  <2>2. HeardWell' => Heard'  BY DEF HeardWell
  <2>3. ASSUME Starting, call.cmd \in Late PROVE card'.wide = host'.wide
    BY <1>2, <1>3, <1>4, <1>9, <2>3, Waiting
  <2> HIDE DEF StartInv
  <2> QED  BY <1>2, <1>7, <1>9, <1>10, <2>1, <2>2, <2>3 DEF WidthKnown
<1>12. Ready'
  <2>1. ~Started  BY <1>2 DEF Ready
  <2> QED  BY <1>4, <1>7, <2>1 DEF Ready, Initialised, Started, CardKept
<1> QED  BY <1>5, <1>6, <1>7, <1>8, <1>11, <1>12

LEMMA HardwareKeepsStart == ASSUME EmmcShapes, StartInv, Hardware PROVE StartInv'
BY CardAnswersKeepsStart, NoAnswerKeepsStart, DataKeepsStart DEF Hardware

-----------------------------------------------------------------------------
(* The driver.  What it leaves of the host's registers.                    *)
LEMMA HostStaysTyped ==
  ASSUME HostTyped, host'.ints \subseteq host.ints, host'.BLKCNT = host.BLKCNT,
         host'.wide \in BOOLEAN, host'.reply \in {host.reply, NoReply}
  PROVE  HostTyped'
<1>1. CASE host'.reply = host.reply  BY <1>1 DEF HostTyped
<1>2. CASE host'.reply = NoReply
  <2>1. /\ NoReply.error \in BOOLEAN /\ NoReply.powered \in BOOLEAN /\ NoReply.capacity \in BOOLEAN
        /\ NoReply.APP_CMD \in BOOLEAN /\ NoReply.voltage = NoReply.powered
    BY DEF NoReply
  <2> QED  BY <1>2, <2>1 DEF HostTyped
<1> QED  BY <1>1, <1>2

(* A call that is not a start, or is not yet or no longer one.             *)
LEMMA NotStarting ==
  ASSUME StartInv, HostTyped', SdTyped', CallTyped', ~Starting', ~Started',
         UNCHANGED card, host'.cmd = host.cmd
  PROVE  StartInv'
<1>1. CardTyped' /\ CardKept'  BY DEF StartInv, CardTyped, CardKept
<1>2. StartKnown' /\ WidthKnown'  BY DEF StartKnown, WidthKnown
<1>3. Ready'  BY DEF Ready, Initialised, Started, StartInv, CardKept
<1> QED  BY <1>1, <1>2, <1>3 DEF StartInv

LEMMA ReturnTyped ==
  ASSUME StartInv, EmmcShapes, NEW result \in SDResults, Return(result)
  PROVE  /\ CallTyped' /\ ~Starting' /\ call'.at = "idle" /\ call'.op = call.op
         /\ call'.result = result
<1>1. /\ call'.result = result /\ call'.tries = 0 /\ call'.done = 0 /\ call'.at = "idle"
      /\ call'.cmd = "none" /\ call'.num \in {call.num, 0} /\ call'.op = call.op
  <2>1. CASE result = "OK"  BY <2>1 DEF Return, Returned, NoCall, EmmcShapes
  <2>2. CASE result # "OK"  BY <2>2 DEF Return, Returned, NoCall, EmmcShapes
  <2> QED  BY <2>1, <2>2
<1>2. CallTyped'  BY <1>1, EmmcAssumption DEF StartInv, CallTyped
<1> QED  BY <1>1, <1>2 DEF Starting

LEMMA GivesUpStart ==
  ASSUME StartInv, EmmcShapes, NEW result \in SDResults, result # "OK" \/ call.op # "init", Return(result),
         HostTyped', SdTyped', UNCHANGED card, host'.cmd = host.cmd
  PROVE  StartInv'
<1>1. /\ CallTyped' /\ ~Starting' /\ call'.at = "idle" /\ call'.op = call.op
      /\ call'.result = result
  BY ReturnTyped
<1>2. ~Started'  BY <1>1 DEF Started
<1> QED  BY <1>1, <1>2, NotStarting

LEMMA SendShape ==
  ASSUME EmmcShapes, NEW cmd, call' = Send(call, cmd)
  PROVE  /\ call'.at = "send" /\ call'.cmd = cmd /\ call'.prefix = (cmd \in AppCommands)
         /\ call'.op = call.op /\ call'.num = call.num /\ call'.done = call.done
         /\ call'.tries = call.tries /\ call'.result = call.result
BY DEF Send, EmmcShapes

(* The next command of a start.                                            *)
LEMMA NextCommand ==
  ASSUME StartInv, NEW cmd \in Early \cup Late, Starting,
         HostTyped', SdTyped', UNCHANGED card, host'.cmd = host.cmd,
         call'.at = "send", call'.cmd = cmd, call'.prefix => cmd \in AppCommands,
         call'.op = call.op, call'.num = call.num, call'.done = call.done,
         call'.tries \in 0 .. Retries, call'.result = call.result,
         cmd \in Early => ~host'.wide,
         cmd \in Late => host.cmd = "none" /\ card.wide = host'.wide,
         cmd \notin TypeCommands => sd'.type # "UNKNOWN",
         cmd \in Addressed => sd'.rca,
         cmd = "SET_BUS_WIDTH" /\ ~call'.prefix => card.app
  PROVE  StartInv'
<1>1. CardTyped' /\ CardKept'  BY DEF StartInv, CardTyped, CardKept
<1>2. CallTyped'  BY DEF StartInv, CallTyped, Starting
<1>3. StartKnown'  BY DEF StartKnown
<1>4. WidthKnown'  BY DEF WidthKnown, Heard, HeardWell
<1>5. Ready'  BY DEF Ready, Initialised, Started, StartInv, CardKept
<1> QED  BY <1>1, <1>2, <1>3, <1>4, <1>5 DEF StartInv

LEMMA sdResetCardKeepsStart == ASSUME EmmcShapes, StartInv, sdResetCard PROVE StartInv'
<1>1. call.at = "reset" /\ UNCHANGED <<card, disk>> /\ host' = HostReset  BY DEF sdResetCard
<1>2. /\ host'.ints = {} /\ host'.BLKCNT = 0 /\ host'.wide = FALSE /\ host'.reply = NoReply
      /\ host'.cmd = "none"
  BY <1>1 DEF HostReset
<1>3. HostTyped'
  <2>1. /\ NoReply.error \in BOOLEAN /\ NoReply.powered \in BOOLEAN /\ NoReply.capacity \in BOOLEAN
        /\ NoReply.APP_CMD \in BOOLEAN /\ NoReply.voltage = NoReply.powered
    BY DEF NoReply
  <2>2. 0 \in 0 .. MaxBlock + 1  BY EmmcAssumption
  <2> QED  BY <1>2, <2>1, <2>2 DEF HostTyped
<1>4. CardTyped' /\ CardKept'  BY <1>1, <1>2 DEF StartInv, CardTyped, CardKept
<1>5. CASE \E result \in {"ERROR_RESET", "ERROR_CLOCK"} : Return(result) /\ UNCHANGED sd
  <2>1. PICK result \in {"ERROR_RESET", "ERROR_CLOCK"} : Return(result) /\ UNCHANGED sd  BY <1>5
  <2>2. CallTyped' /\ ~Starting' /\ ~Started'
    BY <2>1, ReturnTyped DEF SDResults, Started
  <2>3. SdTyped'  BY <2>1 DEF StartInv, SdTyped
  <2> QED  BY <1>3, <1>4, <2>2, <2>3 DEF StartInv, StartKnown, WidthKnown, Ready, Initialised, Started, CardKept
<1>6. CASE /\ sd' = [NoCard EXCEPT !.CMD_SUPPORT = sd.CMD_SUPPORT, !.BUS_WIDTH = sd.BUS_WIDTH]
           /\ call' = Send(call, "GO_IDLE_STATE")
  <2>1. SdTyped'
    <3>1. sd.CMD_SUPPORT \in 0 .. 3 /\ sd.BUS_WIDTH \in Nat  BY DEF StartInv, SdTyped, SDDescriptor
    <3> QED  BY <1>6, <3>1 DEF SdTyped, SDDescriptor, NoCard, SDTypes
  <2>2. /\ call'.at = "send" /\ call'.cmd = "GO_IDLE_STATE" /\ ~call'.prefix
        /\ call'.op = call.op /\ call'.num = call.num /\ call'.done = call.done
        /\ call'.tries = call.tries /\ call'.result = call.result
    BY <1>6, SendShape DEF AppCommands
  <2>3. CallTyped'  BY <1>1, <2>2 DEF StartInv, CallTyped
  <2>4. StartKnown'
    <3>1. /\ "GO_IDLE_STATE" \in Early /\ "GO_IDLE_STATE" \in TypeCommands
          /\ "GO_IDLE_STATE" \notin Late /\ "GO_IDLE_STATE" \notin Addressed
      BY DEF Early, Late, Addressed, TypeCommands
    <3> QED  BY <1>2, <2>2, <3>1 DEF StartKnown
  <2>5. WidthKnown'  BY <2>2 DEF WidthKnown, Late, Addressed
  <2>6. Ready'  BY <1>4, <2>2 DEF Ready, Initialised, Started, CardKept
  <2> QED  BY <1>3, <1>4, <2>1, <2>3, <2>4, <2>5, <2>6 DEF StartInv
<1> QED  BY <1>5, <1>6 DEF sdResetCard

LEMMA IssueKeepsStart == ASSUME EmmcShapes, StartInv, Issue PROVE StartInv'
<1>1. /\ host'.cmd = Wire /\ host'.ints = {} /\ host'.reply = host.reply /\ host'.wide = host.wide
      /\ host'.BLKCNT = IF Wire \notin DOMAIN DataCommands THEN host.BLKCNT
                        ELSE IF Wire \in MultiCommands THEN call.num ELSE 1
  BY DEF Issue, EmmcShapes
<1>2. /\ call'.at = "sent" /\ call.at = "send" /\ UNCHANGED <<card, disk, sd>>
      /\ call'.op = call.op /\ call'.cmd = call.cmd /\ call'.prefix = call.prefix
      /\ call'.tries = call.tries /\ call'.num = call.num /\ call'.result = call.result
      /\ call'.done = call.done
  BY DEF Issue, EmmcShapes
<1>3. HostTyped'
  <2>1. host'.BLKCNT \in 0 .. MaxBlock + 1
    <3>1. host.BLKCNT \in 0 .. MaxBlock + 1 /\ call.num \in 0 .. MaxBlock + 1
      BY DEF StartInv, HostTyped, CallTyped
    <3>2. 1 \in 0 .. MaxBlock + 1  BY EmmcAssumption
    <3> QED  BY <1>1, <3>1, <3>2
  <2> QED  BY <1>1, <2>1 DEF StartInv, HostTyped
<1>4. CardTyped' /\ SdTyped' /\ CallTyped'
  BY <1>2 DEF StartInv, CardTyped, SdTyped, CallTyped
<1>5. Starting' = Starting  BY <1>2 DEF Starting
<1>6. CardKept'
  <2>1. ASSUME Wire = "SET_BUS_WIDTH" PROVE card.app
    <3>1. call.cmd = "SET_BUS_WIDTH" /\ ~call.prefix  BY <2>1 DEF Wire
    <3>2. Starting  BY <1>2, <3>1 DEF StartInv, CallTyped, Starting
    <3> QED  BY <1>2, <3>1, <3>2 DEF StartInv, WidthKnown
  <2> QED  BY <1>1, <1>2, <2>1 DEF StartInv, CardKept
<1>7. Wire' = Wire  BY <1>2 DEF Wire
<1>8. StartKnown'  BY <1>1, <1>2, <1>5, <1>7 DEF StartInv, StartKnown
<1>9. WidthKnown'
  <2>1. ASSUME Starting PROVE ~Heard'
    <3>1. call.cmd \in Early \cup Late  BY <2>1 DEF StartInv, StartKnown
    <3>2. Wire # "none"  BY <3>1 DEF Wire, Early, Late, Addressed, TypeCommands
    <3> QED  BY <1>1, <3>2 DEF Heard
  <2>2. HeardWell' => Heard'  BY DEF HeardWell
  <2> QED  BY <1>1, <1>2, <1>5, <2>1, <2>2 DEF StartInv, WidthKnown
<1>10. Ready'  BY <1>2, <1>6 DEF Ready, Initialised, Started, CardKept
<1> QED  BY <1>3, <1>4, <1>6, <1>8, <1>9, <1>10 DEF StartInv

(* What a call keeps when a command of it has ended.                       *)
LEMMA CommandEndsTyped ==
  ASSUME EmmcShapes, StartInv, call.at \in {"send", "sent"}, NEW result \in SDResults, CommandEnds(result)
  PROVE  CallTyped' /\ call'.op = call.op
<1>1. CallTyped  BY DEF StartInv
<1>2. ASSUME NEW r \in SDResults, Return(r)
      PROVE  CallTyped' /\ call'.op = call.op /\ call'.result = r
  BY <1>2, ReturnTyped
<1>3. ASSUME NEW c, DOMAIN c = DOMAIN call, call' = c, c.op = call.op, c.num = call.num,
             c.done = call.done, c.result = call.result, c.tries \in 0 .. Retries, c.at \notin {"idle", "scr"},
             c.cmd \in {"SEND_SCR", "SET_BUS_WIDTH"} => call.op = "init"
      PROVE  CallTyped' /\ call'.op = call.op /\ call'.at # "idle"
  BY <1>1, <1>3 DEF CallTyped
<1>4. ASSUME NEW cmd, cmd \in {"SEND_SCR", "SET_BUS_WIDTH"} => call.op = "init",
             \/ call' = Send(call, cmd) \/ call' = Send([call EXCEPT !.old = TRUE], cmd)
             \/ call' = Send([call EXCEPT !.tries = @ + 1], cmd) /\ call.tries < Retries
      PROVE  CallTyped' /\ call'.op = call.op /\ call'.at # "idle"
  <2>1. /\ DOMAIN call' = DOMAIN call /\ call'.op = call.op /\ call'.num = call.num
        /\ call'.done = call.done /\ call'.result = call.result /\ call'.at = "send" /\ call'.cmd = cmd
        /\ call'.tries = call.tries \/ (call'.tries = call.tries + 1 /\ call.tries < Retries)
    <3>1. CASE call' = Send(call, cmd)  BY <3>1 DEF Send, EmmcShapes
    <3>2. CASE call' = Send([call EXCEPT !.old = TRUE], cmd)  BY <3>2 DEF Send, EmmcShapes
    <3>3. CASE call' = Send([call EXCEPT !.tries = @ + 1], cmd) /\ call.tries < Retries
      BY <3>3 DEF Send, EmmcShapes
    <3> QED  BY <1>4, <3>1, <3>2, <3>3
  <2>2. call'.tries \in 0 .. Retries
    <3>1. call.tries \in 0 .. Retries /\ Retries \in Nat  BY <1>1, EmmcAssumption DEF CallTyped
    <3> QED  BY <2>1, <3>1
  <2> QED  BY <1>1, <1>4, <2>1, <2>2 DEF CallTyped
<1>5. {"BUSY", "TIMEOUT", "ERROR_VOLTAGE", "ERROR"} \subseteq SDResults /\ "OK" \in SDResults  BY DEF SDResults
<1>6. CASE PrefixEnds(result)
  <2>1. CASE call' = [call EXCEPT !.prefix = FALSE, !.at = "send"]
    BY <1>1, <2>1 DEF CallTyped, EmmcShapes
  <2>2. CASE Return(IF result = "OK" THEN "ERROR" ELSE result)
    <3>1. (IF result = "OK" THEN "ERROR" ELSE result) \in SDResults  BY <1>5
    <3> QED  BY <1>2, <1>6, <2>2, <3>1 DEF PrefixEnds
  <2> QED  BY <1>6, <2>1, <2>2 DEF PrefixEnds
<1>7. CASE GoIdleEnds(result)
  BY <1>2, <1>4, <1>7 DEF GoIdleEnds
<1>8. CASE IfCondEnds(result)
  <2>1. CASE call' = [call EXCEPT !.old = TRUE, !.at = "reset"]
    BY <1>1, <1>8, <2>1 DEF CallTyped, EmmcShapes, IfCondEnds
  <2>2. CASE call' = Send(call, "APP_SEND_OP_COND") \/ call' = Send([call EXCEPT !.old = TRUE], "APP_SEND_OP_COND")
    BY <1>4, <2>2
  <2>3. CASE Return("BUSY")  BY <1>2, <1>5, <2>3
  <2> QED  BY <1>8, <2>1, <2>2, <2>3 DEF IfCondEnds
<1>9. CASE OpCondEnds(result)
  <2>1. CASE call' = Send([call EXCEPT !.tries = @ + 1], "APP_SEND_OP_COND") /\ call.tries < Retries
    BY <1>4, <2>1
  <2>2. CASE call' = Send(call, "ALL_SEND_CID")  BY <1>4, <2>2
  <2>3. CASE \E r \in {result, "TIMEOUT", "ERROR_VOLTAGE"} : Return(r) /\ (r = result => result # "OK")
    BY <1>2, <1>5, <2>3
  <2> QED  BY <1>9, <2>1, <2>2, <2>3 DEF OpCondEnds
<1>10. CASE IdentifyEnds(result)
  <2>1. CASE result # "OK" \/ call.cmd = "SET_BLOCKLEN"  BY <1>2, <1>10, <2>1 DEF IdentifyEnds
  <2>2. CASE ~(result # "OK" \/ call.cmd = "SET_BLOCKLEN")
    <3>1. CASE call.cmd \in {"SEND_CSD", "CARD_SELECT", "SEND_SCR"}
      <4>1. PICK at \in {"clock", "waitData", "scr"} : call' = [call EXCEPT !.at = at]
        BY <1>10, <2>2, <3>1 DEF IdentifyEnds
      <4> QED  BY <1>1, <1>10, <4>1 DEF CallTyped, EmmcShapes, IdentifyEnds
    <3>2. CASE call.cmd \in {"ALL_SEND_CID", "SEND_REL_ADDR", "SET_BUS_WIDTH"}
      <4>1. PICK cmd \in {"SEND_REL_ADDR", "SEND_CSD", "SET_BLOCKLEN"} : call' = Send(call, cmd)
        BY <1>10, <2>2, <3>2 DEF IdentifyEnds
      <4> QED  BY <1>4, <4>1
    <3> QED  BY <1>10, <2>2, <3>1, <3>2 DEF IdentifyEnds
  <2> QED  BY <2>1, <2>2
<1>11. CASE TransferEnds(result)
  <2>1. CASE result # "OK" \/ call.cmd = "STOP_TRANS"  BY <1>2, <1>11, <2>1 DEF TransferEnds
  <2>2. CASE ~(result # "OK" \/ call.cmd = "STOP_TRANS")
    <3>1. TransferCommand \notin {"SEND_SCR", "SET_BUS_WIDTH"}  BY <1>11 DEF TransferEnds, TransferCommand
    <3>2. CASE call.cmd \in {"SET_BLOCKCNT", "ERASE_WR_ST", "ERASE_WR_END"}
      <4>1. PICK cmd \in {TransferCommand, "ERASE_WR_END", "ERASE"} : call' = Send(call, cmd)
        BY <1>11, <2>2, <3>2 DEF TransferEnds
      <4> QED  BY <1>4, <3>1, <4>1
    <3>3. CASE call.cmd \notin {"SET_BLOCKCNT", "ERASE_WR_ST", "ERASE_WR_END"}
      <4>1. PICK at \in {"erase", "data"} : call' = [call EXCEPT !.at = at]
        BY <1>11, <2>2, <3>3 DEF TransferEnds
      <4> QED  BY <1>1, <4>1 DEF CallTyped, EmmcShapes
    <3> QED  BY <3>2, <3>3
  <2> QED  BY <2>1, <2>2
<1> QED  BY <1>6, <1>7, <1>8, <1>9, <1>10, <1>11 DEF CommandEnds

(* A command of a call that is no start.                                   *)
LEMMA EndsElsewhere ==
  ASSUME EmmcShapes, StartInv, call.at \in {"send", "sent"}, call.op # "init",
         NEW result \in SDResults, CommandEnds(result),
         HostTyped', SdTyped', UNCHANGED card, host'.cmd = host.cmd
  PROVE  StartInv'
<1>1. CallTyped' /\ call'.op = call.op  BY CommandEndsTyped
<1>2. ~Starting' /\ ~Started'  BY <1>1 DEF Starting, Started
<1> QED  BY <1>1, <1>2, NotStarting

(* The commands by which sdInitCard finds out the type.                    *)
LEMMA TypeCommandEnds ==
  ASSUME EmmcShapes, StartInv, Starting, call.at \in {"send", "sent"}, NEW result \in SDResults,
         GoIdleEnds(result) \/ IfCondEnds(result) \/ OpCondEnds(result),
         HostTyped', SdTyped', UNCHANGED card, host'.cmd = host.cmd, host'.wide = host.wide
  PROVE  StartInv'
<1>1. CommandEnds(result)  BY DEF CommandEnds
<1>2. CallTyped' /\ call'.op = call.op  BY <1>1, CommandEndsTyped
<1>3. ~host'.wide
  <2>1. call.cmd \in Early  BY DEF GoIdleEnds, IfCondEnds, OpCondEnds, Early, TypeCommands
  <2> QED  BY <2>1 DEF StartInv, StartKnown
<1>4. ASSUME NEW r \in SDResults, r # "OK", Return(r) PROVE StartInv'
  BY <1>4, GivesUpStart
<1>5. ASSUME NEW cmd \in Early, cmd \notin TypeCommands => sd'.type # "UNKNOWN",
             \/ call' = Send(call, cmd) \/ call' = Send([call EXCEPT !.old = TRUE], cmd)
             \/ call' = Send([call EXCEPT !.tries = @ + 1], cmd)
      PROVE  StartInv'
  <2>1. /\ call'.at = "send" /\ call'.cmd = cmd /\ (call'.prefix => cmd \in AppCommands)
        /\ call'.num = call.num /\ call'.done = call.done /\ call'.result = call.result
    <3>1. PICK c : DOMAIN c = DOMAIN call /\ call' = Send(c, cmd) /\ c.num = call.num /\ c.done = call.done
                   /\ c.result = call.result
      BY <1>5 DEF EmmcShapes
    <3> QED  BY <3>1 DEF Send, EmmcShapes
  <2>2. cmd \notin Late /\ cmd \notin Addressed /\ cmd # "SET_BUS_WIDTH"
    BY <1>5 DEF Early, TypeCommands, Late, Addressed
  <2>3. call'.tries \in 0 .. Retries  BY <1>2 DEF CallTyped
  <2> QED  BY <1>2, <1>3, <1>5, <2>1, <2>2, <2>3, NextCommand
<1>6. {"GO_IDLE_STATE", "SEND_IF_COND", "APP_SEND_OP_COND"} = TypeCommands /\ TypeCommands \subseteq Early
      /\ "ALL_SEND_CID" \in Early
  BY DEF TypeCommands, Early
<1>7. {"BUSY", "TIMEOUT", "ERROR_VOLTAGE"} \subseteq SDResults  BY DEF SDResults
<1>8. CASE GoIdleEnds(result)  BY <1>4, <1>5, <1>6, <1>8 DEF GoIdleEnds
<1>9. CASE IfCondEnds(result)
  <2>1. CASE call' = [call EXCEPT !.old = TRUE, !.at = "reset"]
    <3>1. call'.at = "reset"  BY <2>1 DEF EmmcShapes
    <3>2. ~Starting' /\ ~Started'  BY <3>1 DEF Starting, Started
    <3> QED  BY <1>2, <3>2, NotStarting
  <2>2. CASE call' = Send(call, "APP_SEND_OP_COND") \/ call' = Send([call EXCEPT !.old = TRUE], "APP_SEND_OP_COND")
    BY <1>5, <1>6, <2>2
  <2>3. CASE Return("BUSY")  BY <1>4, <1>7, <2>3
  <2> QED  BY <1>9, <2>1, <2>2, <2>3 DEF IfCondEnds
<1>10. CASE OpCondEnds(result)
  <2>1. CASE call' = Send([call EXCEPT !.tries = @ + 1], "APP_SEND_OP_COND")
    BY <1>5, <1>6, <2>1
  <2>2. CASE call' = Send(call, "ALL_SEND_CID") /\ sd'.powered
    <3>1. sd'.type # "UNKNOWN"  BY <2>2 DEF SdTyped
    <3> QED  BY <1>5, <1>6, <2>2, <3>1
  <2>3. CASE \E r \in {result, "TIMEOUT", "ERROR_VOLTAGE"} : Return(r) /\ r # "OK"
    BY <1>4, <1>7, <2>3
  <2>4. call.tries \in 0 .. Retries /\ Retries \in Nat  BY EmmcAssumption DEF StartInv, CallTyped
  <2>5. call.tries < Retries \/ call.tries = Retries  BY <2>4
  <2> QED  BY <1>10, <2>1, <2>2, <2>3, <2>5 DEF OpCondEnds
<1> QED  BY <1>8, <1>9, <1>10

(* APP_CMD, before the command that it prepares.                           *)
LEMMA PrefixKeepsStart ==
  ASSUME EmmcShapes, StartInv, Starting, call.at \in {"send", "sent"}, NEW result \in SDResults,
         PrefixEnds(result), result = "OK" /\ sd.rca => HeardWell,
         HostTyped', SdTyped', UNCHANGED card, host'.cmd = host.cmd, host'.wide = host.wide,
         sd'.type = sd.type, sd.rca => sd'.rca
  PROVE  StartInv'
<1>1. CommandEnds(result)  BY DEF CommandEnds
<1>2. CallTyped'  BY <1>1, CommandEndsTyped
<1>3. call.prefix /\ call.cmd \in AppCommands  BY DEF PrefixEnds, StartInv, StartKnown
<1>4. CASE Return(IF result = "OK" THEN "ERROR" ELSE result)
  <2>1. PICK r \in SDResults : r # "OK" /\ Return(r)  BY <1>4 DEF SDResults
  <2> QED  BY <2>1, GivesUpStart
<1>5. CASE call' = [call EXCEPT !.prefix = FALSE, !.at = "send"] /\ (sd.rca => result = "OK")
  <2>1. /\ call'.at = "send" /\ call'.cmd = call.cmd /\ ~call'.prefix
        /\ call'.op = call.op /\ call'.num = call.num /\ call'.done = call.done
        /\ call'.tries = call.tries /\ call'.result = call.result
    BY <1>5 DEF EmmcShapes
  <2>2. CASE call.cmd = "APP_SEND_OP_COND"
    <3>1. /\ call.cmd \in Early /\ call.cmd \notin Late /\ call.cmd \in TypeCommands
          /\ call.cmd \notin Addressed
      BY <2>2 DEF Early, TypeCommands, Late, Addressed
    <3>2. ~host'.wide  BY <3>1 DEF StartInv, StartKnown
    <3>3. call'.tries \in 0 .. Retries  BY <1>2 DEF CallTyped
    <3> QED  BY <2>1, <2>2, <3>1, <3>2, <3>3, NextCommand
  <2>3. CASE call.cmd \in {"SEND_SCR", "SET_BUS_WIDTH"}
    <3>1. /\ call.cmd \in Late /\ call.cmd \notin Early /\ call.cmd \notin TypeCommands
          /\ call.cmd \in Addressed
      BY <2>3 DEF Early, TypeCommands, Late, Addressed
    <3>2. sd.rca /\ sd.type # "UNKNOWN"  BY <3>1 DEF StartInv, StartKnown
    <3>3. HeardWell /\ host.cmd = "none"  BY <1>5, <3>2 DEF HeardWell, Heard
    <3>4. card.wide = host.wide  BY <1>3, <3>1 DEF StartInv, WidthKnown
    <3>5. call.cmd = "SET_BUS_WIDTH" => card.app  BY <1>3, <3>3 DEF StartInv, WidthKnown
    <3>6. call'.tries \in 0 .. Retries  BY <1>2 DEF CallTyped
    <3> QED  BY <1>3, <2>1, <3>1, <3>2, <3>3, <3>4, <3>5, <3>6, NextCommand
  <2> QED  BY <1>3, <2>2, <2>3 DEF AppCommands
<1> QED  BY <1>4, <1>5 DEF PrefixEnds

(* The rest of sdInitCard, once the card's type is known.                  *)
LEMMA IdentifyKeepsStart ==
  ASSUME EmmcShapes, StartInv, Starting, call.at \in {"send", "sent"}, NEW result \in SDResults,
         IdentifyEnds(result), result = "OK" => Heard,
         result = "OK" /\ call.cmd \in {"SET_BUS_WIDTH", "SET_BLOCKLEN"} => HeardWell,
         HostTyped', SdTyped', UNCHANGED card, host'.cmd = host.cmd,
         host'.wide = IF call.cmd = "SET_BUS_WIDTH" /\ result = "OK" THEN TRUE ELSE host.wide,
         sd'.type = sd.type, sd.rca \/ (call.cmd = "SEND_REL_ADDR" /\ result = "OK") => sd'.rca
  PROVE  StartInv'
<1>1. CommandEnds(result)  BY DEF CommandEnds
<1>2. CallTyped' /\ call'.op = call.op  BY <1>1, CommandEndsTyped
<1>3. /\ call.cmd \in {"ALL_SEND_CID", "SEND_REL_ADDR", "SEND_CSD", "CARD_SELECT", "SEND_SCR",
                        "SET_BUS_WIDTH", "SET_BLOCKLEN"}
      /\ ~call.prefix
  BY DEF IdentifyEnds
<1>4. sd.type # "UNKNOWN" /\ (call.cmd \in Addressed => sd.rca)
  BY <1>3 DEF StartInv, StartKnown, TypeCommands
<1>5. CASE result # "OK"
  <2>1. Return(result)  BY <1>5 DEF IdentifyEnds
  <2> QED  BY <1>5, <2>1, GivesUpStart
<1>6. CASE result = "OK"
  <2>1. Heard /\ host.cmd = "none" /\ call.at = "sent"  BY <1>6 DEF Heard
  <2>2. card.wide = host'.wide
    <3>1. card.wide \in BOOLEAN /\ host.wide \in BOOLEAN  BY DEF StartInv, CardTyped, HostTyped
    <3>2. CASE call.cmd = "ALL_SEND_CID"
      <4>1. call.cmd \in Early  BY <3>2 DEF Early
      <4>2. ~host.wide /\ ~card.wide  BY <2>1, <3>2, <4>1 DEF StartInv, StartKnown, WidthKnown
      <4> QED  BY <3>1, <3>2, <4>2
    <3>3. CASE call.cmd = "SET_BUS_WIDTH"
      <4>1. card.wide  BY <1>3, <1>6, <3>3 DEF StartInv, WidthKnown
      <4> QED  BY <1>6, <3>1, <3>3, <4>1
    <3>4. CASE call.cmd \notin {"ALL_SEND_CID", "SET_BUS_WIDTH"}
      <4>1. call.cmd \in Late  BY <1>3, <3>4 DEF Late, Addressed
      <4> QED  BY <3>4, <4>1 DEF StartInv, WidthKnown
    <3> QED  BY <3>2, <3>3, <3>4
  <2>3. CASE call.cmd = "SET_BLOCKLEN"
    <3>1. Return("OK")  BY <1>6, <2>3 DEF IdentifyEnds
    <3>2. ~Starting' /\ call'.at = "idle"  BY <3>1, ReturnTyped DEF SDResults
    <3>3. card.state = "tran" /\ card.blockLen  BY <1>6, <2>3 DEF StartInv, WidthKnown
    <3>4. CardTyped' /\ CardKept'  BY DEF StartInv, CardTyped, CardKept
    <3>5. Ready'  BY <1>4, <2>1, <2>2, <3>3, <3>4 DEF Ready, Initialised, Started, CardKept
    <3> QED  BY <1>2, <3>2, <3>4, <3>5 DEF StartInv, StartKnown, WidthKnown
  <2>4. CASE call.cmd \in {"ALL_SEND_CID", "SEND_REL_ADDR", "SET_BUS_WIDTH"}
    <3>1. PICK cmd \in {"SEND_REL_ADDR", "SEND_CSD", "SET_BLOCKLEN"} :
            call' = Send(call, cmd) /\ (cmd # "SEND_REL_ADDR" => call.cmd # "ALL_SEND_CID")
      BY <1>6, <2>4 DEF IdentifyEnds
    <3>2. /\ cmd \in Late /\ cmd \notin Early /\ cmd \notin TypeCommands /\ cmd # "SET_BUS_WIDTH"
          /\ cmd \in Addressed => sd'.rca
      BY <1>4, <1>6, <2>4, <3>1 DEF Early, TypeCommands, Late, Addressed
    <3>3. /\ call'.at = "send" /\ call'.cmd = cmd /\ (call'.prefix => cmd \in AppCommands)
          /\ call'.num = call.num /\ call'.done = call.done /\ call'.result = call.result
      BY <3>1, SendShape
    <3>4. call'.tries \in 0 .. Retries  BY <1>2 DEF CallTyped
    <3> QED  BY <1>2, <1>4, <2>1, <2>2, <3>2, <3>3, <3>4, NextCommand
  <2>5. CASE call.cmd \in {"SEND_CSD", "CARD_SELECT", "SEND_SCR"}
    <3>1. PICK at \in {"clock", "waitData", "scr"} :
            /\ call' = [call EXCEPT !.at = at]
            /\ at = "clock" <=> call.cmd = "SEND_CSD"
            /\ at = "waitData" <=> call.cmd = "CARD_SELECT"
      BY <1>6, <2>5 DEF IdentifyEnds
    <3>2. /\ call'.at = at /\ call'.cmd = call.cmd /\ (call'.prefix => call.prefix)
          /\ call'.result = call.result
      BY <3>1 DEF EmmcShapes
    <3>3. /\ call.cmd \in Late /\ call.cmd \notin Early /\ call.cmd \notin TypeCommands
          /\ call.cmd \in Addressed
      BY <2>5 DEF Early, TypeCommands, Late, Addressed
    <3>4. CardTyped' /\ CardKept'  BY DEF StartInv, CardTyped, CardKept
    <3>5. StartKnown'  BY <1>3, <1>4, <2>1, <2>5, <3>1, <3>2, <3>3 DEF StartKnown
    <3>6. WidthKnown'  BY <2>2, <2>5, <3>2 DEF WidthKnown, Heard, HeardWell
    <3>7. Ready'  BY <3>2, <3>4 DEF Ready, Initialised, Started, CardKept
    <3> QED  BY <1>2, <3>4, <3>5, <3>6, <3>7 DEF StartInv
  <2> QED  BY <1>3, <2>3, <2>4, <2>5
<1> QED  BY <1>5, <1>6

(* A command that failed, and left sdCard as it was.                       *)
LEMMA FailsStart ==
  ASSUME EmmcShapes, StartInv, call.at \in {"send", "sent"}, NEW result \in SDResults, result # "OK",
         CommandEnds(result), HostTyped', UNCHANGED <<card, sd>>, host'.cmd = host.cmd,
         host'.wide = host.wide
  PROVE  StartInv'
<1>1. SdTyped'  BY DEF StartInv, SdTyped
<1>2. CASE ~Starting  BY <1>1, <1>2, EndsElsewhere DEF Starting
<1>3. CASE Starting
  <2>1. ~TransferEnds(result)  BY <1>3 DEF TransferEnds, Starting
  <2> QED  BY <1>1, <1>3, <2>1, TypeCommandEnds, PrefixKeepsStart, IdentifyKeepsStart DEF CommandEnds
<1> QED  BY <1>2, <1>3

LEMMA RefusedKeepsStart == ASSUME EmmcShapes, StartInv, Refused PROVE StartInv'
<1>1. call.at = "send" /\ UNCHANGED <<host, card, sd>> /\ CommandEnds("BUSY")  BY DEF Refused
<1>2. HostTyped'  BY <1>1 DEF StartInv, HostTyped
<1> QED  BY <1>1, <1>2, FailsStart DEF SDResults

LEMMA AnswerLateKeepsStart == ASSUME EmmcShapes, StartInv, AnswerLate PROVE StartInv'
<1>1. call.at = "sent" /\ UNCHANGED <<card, sd>> /\ CommandEnds("TIMEOUT")  BY DEF AnswerLate
<1>2. /\ host'.ints = {} /\ host'.reply = NoReply /\ host'.cmd = host.cmd /\ host'.wide = host.wide
      /\ host'.BLKCNT = host.BLKCNT
  BY DEF AnswerLate, EmmcShapes
<1>3. HostTyped'
  <2>1. HostTyped /\ host.wide \in BOOLEAN  BY DEF StartInv, HostTyped
  <2> QED  BY <1>2, <2>1, HostStaysTyped
<1> QED  BY <1>1, <1>2, <1>3, FailsStart DEF SDResults

(* What sdCard learns from a good answer.                                  *)
LEMMA LearnedTyped ==
  ASSUME EmmcShapes, StartInv, NEW cmd, sd' = Learned(cmd, host.reply)
  PROVE  /\ SdTyped'
         /\ cmd # "APP_SEND_OP_COND" => sd'.type = sd.type
         /\ sd.rca \/ cmd = "SEND_REL_ADDR" => sd'.rca
<1>1. sd \in SDDescriptor /\ (sd.powered => sd.type # "UNKNOWN")  BY DEF StartInv, SdTyped
<1>2. /\ host.reply.powered \in BOOLEAN /\ host.reply.capacity \in BOOLEAN
      /\ host.reply.APP_CMD \in BOOLEAN /\ host.reply.voltage = host.reply.powered
  BY DEF StartInv, HostTyped
<1>3. CASE cmd = "APP_SEND_OP_COND"
  <2>1. PICK type \in SDTypes :
          /\ sd' = [sd EXCEPT !.APP_CMD = FALSE, !.powered = host.reply.powered,
                      !.capacity = host.reply.capacity, !.voltage = host.reply.voltage, !.type = type]
          /\ host.reply.powered => type # "UNKNOWN"
    <3>1. ~Silent(cmd)  BY <1>3 DEF Silent
    <3>2. sd.type \in SDTypes  BY <1>1 DEF SDDescriptor
    <3> DEFINE type == IF ~host.reply.powered \/ ~host.reply.voltage THEN sd.type
                       ELSE IF call.old THEN "TYPE_1"
                       ELSE IF host.reply.capacity THEN "TYPE_2_HC" ELSE "TYPE_2_SC"
    <3>3. sd' = [sd EXCEPT !.APP_CMD = FALSE, !.powered = host.reply.powered,
                  !.capacity = host.reply.capacity, !.voltage = host.reply.voltage, !.type = type]
      BY <1>3, <3>1 DEF Learned
    <3>4. type \in SDTypes /\ (host.reply.powered => type # "UNKNOWN")  BY <1>2, <3>2 DEF SDTypes
    <3> QED  BY <3>3, <3>4
  <2> QED  BY <1>1, <1>2, <1>3, <2>1 DEF SdTyped, SDDescriptor
<1>4. CASE cmd = "SEND_REL_ADDR"
  <2>1. ~Silent(cmd)  BY <1>4 DEF Silent
  <2>2. sd' = [sd EXCEPT !.APP_CMD = host.reply.APP_CMD, !.rca = TRUE]  BY <1>4, <2>1 DEF Learned
  <2> QED  BY <1>1, <1>2, <1>4, <2>2 DEF SdTyped, SDDescriptor
<1>5. CASE cmd \notin {"APP_SEND_OP_COND", "SEND_REL_ADDR"}
  <2>1. sd' = sd \/ \E b \in BOOLEAN : sd' = [sd EXCEPT !.APP_CMD = b]
    <3>1. CASE Silent(cmd)
      <4>1. cmd \notin {"SEND_IF_COND", "ALL_SEND_CID", "SEND_CSD"}  BY <3>1 DEF Silent
      <4> QED  BY <1>5, <3>1, <4>1 DEF Learned
    <3>2. CASE ~Silent(cmd) /\ cmd \in {"SEND_IF_COND", "ALL_SEND_CID", "SEND_CSD"}
      <4>1. sd' = [sd EXCEPT !.APP_CMD = FALSE]  BY <1>5, <3>2 DEF Learned
      <4> QED  BY <4>1
    <3>3. CASE ~Silent(cmd) /\ cmd \notin {"SEND_IF_COND", "ALL_SEND_CID", "SEND_CSD"}
      <4>1. sd' = [sd EXCEPT !.APP_CMD = host.reply.APP_CMD]  BY <1>5, <3>3 DEF Learned
      <4> QED  BY <1>2, <4>1
    <3> QED  BY <3>1, <3>2, <3>3
  <2>2. CASE sd' = sd  BY <1>1, <1>5, <2>2 DEF SdTyped
  <2>3. CASE \E b \in BOOLEAN : sd' = [sd EXCEPT !.APP_CMD = b]
    <3>1. PICK b \in BOOLEAN : sd' = [sd EXCEPT !.APP_CMD = b]  BY <2>3
    <3> QED  BY <1>1, <1>5, <3>1 DEF SdTyped, SDDescriptor
  <2> QED  BY <2>1, <2>2, <2>3
<1> QED  BY <1>3, <1>4, <1>5

LEMMA AnsweredKeepsStart == ASSUME EmmcShapes, StartInv, Answered PROVE StartInv'
<1> DEFINE waited == Waited(host.ints)
           judged == IF waited = "OK" THEN Judged(Wire, host.reply) ELSE waited
           result == IF judged = "OK" /\ Wire \in AppCommands /\ sd'.rca /\ ~sd'.APP_CMD
                     THEN "ERROR_APP_CMD" ELSE judged
<1>1. /\ call.at = "sent" /\ Raised("CMD_DONE") /\ UNCHANGED card
      /\ sd' = IF waited = "OK" THEN Learned(Wire, host.reply) ELSE sd
      /\ host' = [host EXCEPT !.ints = Cleared("CMD_DONE"), !.reply = NoReply,
                              !.wide = @ \/ (Wire = "SET_BUS_WIDTH" /\ result = "OK")]
      /\ CommandEnds(result)
  BY DEF Answered
<1>2. result \in SDResults
  <2>1. waited \in SDResults  BY DEF Waited, SDResults
  <2>2. Judged(Wire, host.reply) \in SDResults  BY DEF Judged, SDResults
  <2>3. judged \in SDResults  BY <2>1, <2>2
  <2>4. "ERROR_APP_CMD" \in SDResults  BY DEF SDResults
  <2> QED  BY <2>3, <2>4
<1>3. result = "OK" => waited = "OK" /\ Judged(Wire, host.reply) = "OK"  OBVIOUS
<1> HIDE DEF result, judged
<1>4. /\ host'.cmd = host.cmd /\ host'.BLKCNT = host.BLKCNT /\ host'.reply = NoReply
      /\ host'.ints = Cleared("CMD_DONE")
      /\ host'.wide = (host.wide \/ (Wire = "SET_BUS_WIDTH" /\ result = "OK"))
  BY <1>1 DEF EmmcShapes
<1>5. host.wide \in BOOLEAN  BY DEF StartInv, HostTyped
<1>6. host'.wide = IF Wire = "SET_BUS_WIDTH" /\ result = "OK" THEN TRUE ELSE host.wide
  BY <1>4, <1>5
<1>7. HostTyped'
  <2>1. host'.ints \subseteq host.ints  BY <1>4 DEF Cleared
  <2>2. host'.wide \in BOOLEAN  BY <1>5, <1>6
  <2> QED  BY <1>4, <2>1, <2>2, HostStaysTyped DEF StartInv
<1>8. /\ SdTyped' /\ (Wire # "APP_SEND_OP_COND" => sd'.type = sd.type) /\ (sd.rca => sd'.rca)
      /\ waited = "OK" /\ Wire = "SEND_REL_ADDR" => sd'.rca
  <2>1. CASE waited = "OK"  BY <1>1, <2>1, LearnedTyped
  <2>2. CASE waited # "OK"  BY <1>1, <2>2 DEF StartInv, SdTyped
  <2> QED  BY <2>1, <2>2
<1>9. CASE ~Starting  BY <1>1, <1>2, <1>4, <1>7, <1>8, <1>9, EndsElsewhere DEF Starting
<1>10. CASE Starting
  <2>1. ASSUME result = "OK" PROVE Heard
    <3>1. Clean  BY <1>3, <2>1, WaitedClean
    <3>2. "CMD_DONE" \in host.ints  BY <1>1, <3>1 DEF Clean, Raised, INT_ERROR_MASK
    <3>3. host.cmd = "none"  BY <1>1, <1>10, <3>2 DEF StartInv, StartKnown
    <3> QED  BY <1>1, <3>1, <3>2, <3>3 DEF Heard
  <2>2. ASSUME result = "OK", Wire \in {"SET_BUS_WIDTH", "SET_BLOCKLEN"} \/ (Wire = "APP_CMD" /\ sd.rca)
        PROVE  HeardWell
    <3>1. Judged(Wire, host.reply) = IF host.reply.error THEN "ERROR" ELSE "OK"
      BY <2>2 DEF Judged, Silent
    <3>2. ~host.reply.error  BY <1>3, <2>2, <3>1
    <3> QED  BY <2>1, <2>2, <3>2 DEF HeardWell
  <2>3. CASE PrefixEnds(result)
    <3>1. Wire = "APP_CMD"  BY <2>3 DEF PrefixEnds, Wire
    <3> QED  BY <1>1, <1>2, <1>4, <1>6, <1>7, <1>8, <1>10, <2>2, <2>3, <3>1, PrefixKeepsStart
  <2>4. CASE GoIdleEnds(result) \/ IfCondEnds(result) \/ OpCondEnds(result)
    <3>1. Wire # "SET_BUS_WIDTH"  BY <2>4 DEF GoIdleEnds, IfCondEnds, OpCondEnds, Wire
    <3> QED  BY <1>1, <1>2, <1>4, <1>6, <1>7, <1>8, <1>10, <2>4, <3>1, TypeCommandEnds
  <2>5. CASE IdentifyEnds(result)
    <3>1. Wire = call.cmd /\ Wire # "APP_SEND_OP_COND"  BY <2>5 DEF IdentifyEnds, Wire
    <3> QED
      BY <1>1, <1>2, <1>3, <1>4, <1>6, <1>7, <1>8, <1>10, <2>1, <2>2, <2>5, <3>1, IdentifyKeepsStart
  <2>6. ~TransferEnds(result)  BY <1>10 DEF TransferEnds, Starting
  <2> QED  BY <1>1, <2>3, <2>4, <2>5, <2>6 DEF CommandEnds
<1> QED  BY <1>9, <1>10

LEMMA sdSetClockKeepsStart == ASSUME EmmcShapes, StartInv, sdSetClock PROVE StartInv'
<1>1. call.at = "clock" /\ UNCHANGED <<host, card, sd>>  BY DEF sdSetClock
<1>2. HostTyped' /\ SdTyped' /\ "ERROR_CLOCK" \in SDResults
  BY <1>1 DEF StartInv, HostTyped, SdTyped, SDResults
<1>3. CASE Return("ERROR_CLOCK")  BY <1>1, <1>2, <1>3, GivesUpStart
<1>4. CASE call' = Send(call, "CARD_SELECT")
  <2>1. /\ call'.at = "send" /\ call'.cmd = "CARD_SELECT" /\ call'.prefix = ("CARD_SELECT" \in AppCommands)
        /\ call'.op = call.op /\ call'.num = call.num /\ call'.done = call.done
        /\ call'.tries = call.tries /\ call'.result = call.result
    BY <1>4, SendShape
  <2>2. CallTyped'  BY <1>1, <2>1 DEF StartInv, CallTyped
  <2>3. CASE call.op # "init"
    <3>1. ~Starting' /\ ~Started'  BY <2>1, <2>3 DEF Starting, Started
    <3> QED  BY <1>1, <1>2, <2>2, <3>1, NotStarting
  <2>4. CASE call.op = "init"
    <3>1. Starting  BY <1>1, <2>4 DEF Starting
    <3>2. call.cmd = "SEND_CSD"  BY <1>1, <3>1 DEF StartInv, StartKnown
    <3>3. "SEND_CSD" \in Addressed /\ "SEND_CSD" \in Late /\ "SEND_CSD" \notin TypeCommands
      BY DEF Late, Addressed, TypeCommands
    <3>4. host.cmd = "none" /\ sd.rca /\ sd.type # "UNKNOWN" /\ card.wide = host.wide
      BY <1>1, <3>1, <3>2, <3>3 DEF StartInv, StartKnown, WidthKnown
    <3>5. "CARD_SELECT" \in Late /\ "CARD_SELECT" \notin Early  BY DEF Early, Late, Addressed, TypeCommands
    <3>6. call'.tries \in 0 .. Retries  BY <2>2 DEF CallTyped
    <3> QED  BY <1>1, <1>2, <2>1, <3>1, <3>4, <3>5, <3>6, NextCommand
  <2> QED  BY <2>3, <2>4
<1> QED  BY <1>3, <1>4 DEF sdSetClock

LEMMA sdWaitForDataKeepsStart == ASSUME EmmcShapes, StartInv, sdWaitForData PROVE StartInv'
<1>1. call.at = "waitData" /\ UNCHANGED <<host, card, sd>>  BY DEF sdWaitForData
<1>2. HostTyped' /\ SdTyped' /\ "TIMEOUT" \in SDResults
  BY <1>1 DEF StartInv, HostTyped, SdTyped, SDResults
<1>3. CASE Return("TIMEOUT")  BY <1>1, <1>2, <1>3, GivesUpStart
<1>4. ASSUME NEW cmd \in {"SET_BLOCKCNT", TransferCommand}, call' = Send(call, cmd),
             call.op = "init" => cmd = TransferCommand
      PROVE  StartInv'
  <2>1. /\ call'.at = "send" /\ call'.cmd = cmd /\ call'.prefix = (cmd \in AppCommands)
        /\ call'.op = call.op /\ call'.num = call.num /\ call'.done = call.done
        /\ call'.tries = call.tries /\ call'.result = call.result
    BY <1>4, SendShape
  <2>2. call.op \in Operations  BY <1>1 DEF StartInv, CallTyped
  <2>3. cmd \in {"SEND_SCR", "SET_BUS_WIDTH"} => call.op = "init"
    BY <1>4, <2>2 DEF TransferCommand, Operations
  <2>4. CallTyped'  BY <1>1, <2>1, <2>3 DEF StartInv, CallTyped
  <2>5. CASE call.op # "init"
    <3>1. ~Starting' /\ ~Started'  BY <2>1, <2>5 DEF Starting, Started
    <3> QED  BY <1>1, <1>2, <2>4, <3>1, NotStarting
  <2>6. CASE call.op = "init"
    <3>1. Starting  BY <1>1, <2>6 DEF Starting
    <3>2. call.cmd = "CARD_SELECT"  BY <1>1, <3>1 DEF StartInv, StartKnown
    <3>3. "CARD_SELECT" \in Addressed /\ "CARD_SELECT" \in Late /\ "CARD_SELECT" \notin TypeCommands
      BY DEF Late, Addressed, TypeCommands
    <3>4. host.cmd = "none" /\ sd.rca /\ sd.type # "UNKNOWN" /\ card.wide = host.wide
      BY <1>1, <3>1, <3>2, <3>3 DEF StartInv, StartKnown, WidthKnown
    <3>5. cmd = "SEND_SCR"  BY <1>4, <2>6 DEF TransferCommand
    <3>6. cmd \in Late /\ cmd \notin Early  BY <3>5 DEF Early, Late, Addressed, TypeCommands
    <3>7. call'.tries \in 0 .. Retries  BY <2>4 DEF CallTyped
    <3> QED  BY <1>1, <1>2, <2>1, <3>1, <3>4, <3>5, <3>6, <3>7, NextCommand
  <2> QED  BY <2>5, <2>6
<1> QED  BY <1>3, <1>4 DEF sdWaitForData

LEMMA sdReadSCRKeepsStart == ASSUME EmmcShapes, StartInv, sdReadSCR PROVE StartInv'
<1>1. call.at = "scr" /\ UNCHANGED card  BY DEF sdReadSCR
<1>2. /\ host'.cmd = host.cmd /\ host'.BLKCNT = host.BLKCNT /\ host'.reply = host.reply
      /\ host'.wide = host.wide /\ host'.ints = Cleared("READ_RDY")
  BY DEF sdReadSCR, EmmcShapes
<1>3. HostTyped'
  <2>1. host'.ints \subseteq host.ints  BY <1>2 DEF Cleared
  <2>2. host'.wide \in BOOLEAN  BY <1>2 DEF StartInv, HostTyped
  <2> QED  BY <1>2, <2>1, <2>2, HostStaysTyped DEF StartInv
<1>4. /\ WithSCR.type = sd.type /\ WithSCR.rca = sd.rca /\ WithSCR.powered = sd.powered
      /\ WithSCR \in SDDescriptor
  <2>1. card.scr \in Cards /\ sd \in SDDescriptor  BY DEF StartInv, CardTyped, SdTyped
  <2>2. card.scr.CMD_SUPPORT \in 0 .. 3 /\ card.scr.BUS_WIDTH \in Nat  BY <2>1, EmmcAssumption
  <2>3. WithSCR \in SDDescriptor  BY <2>1, <2>2 DEF WithSCR, SDDescriptor
  <2> QED  BY <2>3 DEF WithSCR, EmmcShapes
<1>5. CASE sd' \in {sd, WithSCR} /\ \E r \in SDResults : r # "OK" /\ Return(r)
  <2>1. SdTyped' /\ sd'.rca = sd.rca /\ sd'.type = sd.type  BY <1>5, <1>4 DEF StartInv, SdTyped
  <2> QED  BY <1>1, <1>2, <1>3, <1>5, <2>1, GivesUpStart
<1>6. CASE /\ sd' = WithSCR
           /\ call' = Send(call, IF sd'.BUS_WIDTH = 4 THEN "SET_BUS_WIDTH" ELSE "SET_BLOCKLEN")
  <2>1. sd'.type = sd.type /\ sd'.rca = sd.rca /\ sd'.powered = sd.powered  BY <1>6, <1>4
  <2>2. SdTyped'  BY <1>6, <1>4, <2>1 DEF StartInv, SdTyped
  <2>3. PICK cmd \in {"SET_BUS_WIDTH", "SET_BLOCKLEN"} : call' = Send(call, cmd)  BY <1>6
  <2>4. /\ call'.at = "send" /\ call'.cmd = cmd /\ call'.prefix = (cmd \in AppCommands)
        /\ call'.op = call.op /\ call'.num = call.num /\ call'.done = call.done
        /\ call'.tries = call.tries /\ call'.result = call.result
    BY <2>3, SendShape
  <2>5. call.op = "init" /\ Starting  BY <1>1 DEF StartInv, CallTyped, Starting
  <2>6. call.cmd = "SEND_SCR"  BY <1>1, <2>5 DEF StartInv, StartKnown
  <2>7. "SEND_SCR" \in Addressed /\ "SEND_SCR" \in Late /\ "SEND_SCR" \notin TypeCommands
    BY DEF Late, Addressed, TypeCommands
  <2>8. host.cmd = "none" /\ sd.rca /\ sd.type # "UNKNOWN" /\ card.wide = host.wide
    BY <1>1, <2>5, <2>6, <2>7 DEF StartInv, StartKnown, WidthKnown
  <2>9. /\ cmd \in Late /\ cmd \notin Early /\ cmd \notin TypeCommands
        /\ cmd = "SET_BUS_WIDTH" => cmd \in AppCommands
    BY DEF Early, Late, Addressed, TypeCommands, AppCommands
  <2>10. call'.tries \in 0 .. Retries  BY <2>4 DEF StartInv, CallTyped
  <2> QED  BY <1>1, <1>2, <1>3, <2>1, <2>2, <2>4, <2>5, <2>8, <2>9, <2>10, NextCommand
<1>7. Waited(host.ints) \in SDResults /\ "TIMEOUT" \in SDResults  BY DEF Waited, SDResults
<1> QED  BY <1>5, <1>6, <1>7 DEF sdReadSCR

(* A start moves no blocks and erases none.                                *)
LEMMA NoStartMoves ==
  ASSUME StartInv, call.at \in {"data", "done", "erase"}
  PROVE  call.op # "init" /\ ~Starting
<1>1. ~Starting  BY DEF StartInv, StartKnown
<1> QED  BY <1>1 DEF Starting

(* The next command of a call that is no start.                            *)
LEMMA CallGoesOn ==
  ASSUME StartInv, call.op # "init", HostTyped', UNCHANGED <<card, sd>>, host'.cmd = host.cmd,
         call'.op = call.op, call'.num = call.num, call'.done \in 0 .. call.num,
         call'.tries = call.tries, call'.result = call.result, call.at # "idle",
         call'.at \notin {"idle", "scr"}, call'.cmd \in {call.cmd, "STOP_TRANS"}
  PROVE  StartInv'
<1>1. CallTyped'  BY DEF StartInv, CallTyped
<1>2. SdTyped'  BY DEF StartInv, SdTyped
<1>3. ~Starting' /\ ~Started'  BY DEF Starting, Started
<1> QED  BY <1>1, <1>2, <1>3, NotStarting

LEMMA MoveBlockKeepsStart == ASSUME EmmcInv, StartInv, MoveBlock PROVE StartInv'
<1> DEFINE ready == IF call.op = "write" THEN "WRITE_RDY" ELSE "READ_RDY"
<1>1. EmmcShapes /\ call.at = "data" /\ UNCHANGED <<card, sd>>  BY DEF EmmcInv, MoveBlock
<1>2. call.op # "init"  BY <1>1, NoStartMoves
<1>3. /\ host'.cmd = host.cmd /\ host'.BLKCNT = host.BLKCNT /\ host'.reply = host.reply
      /\ host'.wide = host.wide /\ host'.ints = Cleared(ready)
  BY <1>1 DEF MoveBlock, EmmcShapes
<1>4. HostTyped'
  <2>1. host'.ints \subseteq host.ints  BY <1>3 DEF Cleared
  <2>2. host'.wide \in BOOLEAN  BY <1>3 DEF StartInv, HostTyped
  <2> QED  BY <1>3, <2>1, <2>2, HostStaysTyped DEF StartInv
<1>5. SdTyped'  BY <1>1 DEF StartInv, SdTyped
<1>6. ASSUME NEW r \in SDResults, Return(r) PROVE StartInv'
  BY <1>1, <1>2, <1>3, <1>4, <1>5, <1>6, GivesUpStart
<1>7. CASE Return(Waited(host.ints))  BY <1>6, <1>7 DEF Waited, SDResults
<1>8. ASSUME NEW c, DOMAIN c = DOMAIN call, c.op = call.op, c.op \in {"read", "write"}, c.num = call.num,
             c.done = call.done + 1, c.tries = call.tries, c.result = call.result, c.at = call.at,
             c.cmd = call.cmd, call' = NextBlock(c)
      PROVE  StartInv'
  <2>1. call.num \in Nat /\ call.done \in 0 .. call.num /\ call.done < call.num
    BY <1>1, <1>8 DEF EmmcInv, CallKnown, Moves, TransferKnown, Streams
  <2>2. c.done \in 0 .. call.num /\ c.done \in Nat  BY <1>8, <2>1
  <2>3. CASE call' \in {c, [c EXCEPT !.at = "done"], Send(c, "STOP_TRANS")}
    <3>1. /\ call'.op = call.op /\ call'.num = call.num /\ call'.done = c.done /\ call'.tries = call.tries
          /\ call'.result = call.result /\ call'.at \in {"data", "done", "send"}
          /\ call'.cmd \in {call.cmd, "STOP_TRANS"}
      <4>1. CASE call' = c  BY <1>1, <1>8, <4>1
      <4>2. CASE call' = [c EXCEPT !.at = "done"]  BY <1>1, <1>8, <4>2 DEF EmmcShapes
      <4>3. CASE call' = Send(c, "STOP_TRANS")  BY <1>1, <1>8, <4>3 DEF Send, EmmcShapes
      <4> QED  BY <2>3, <4>1, <4>2, <4>3
    <3> QED  BY <1>1, <1>2, <1>3, <1>4, <2>2, <3>1, CallGoesOn
  <2>4. CASE call' = Returned(c, "OK")
    <3>1. /\ call'.result = "OK" /\ call'.tries = 0 /\ call'.done = 0 /\ call'.at = "idle"
          /\ call'.cmd = "none" /\ call'.num = call.num /\ call'.op = call.op
      BY <1>8, <2>4 DEF Returned, NoCall
    <3>2. CallTyped'
      <4>1. call.num \in 0 .. MaxBlock + 1  BY DEF StartInv, CallTyped
      <4>2. 0 \in 0 .. call.num /\ 0 \in 0 .. Retries  BY <2>1, EmmcAssumption
      <4>3. "OK" \in SDResults  BY DEF SDResults
      <4> QED  BY <3>1, <4>1, <4>2, <4>3 DEF CallTyped
    <3>3. ~Starting' /\ ~Started'  BY <1>2, <3>1 DEF Starting, Started
    <3> QED  BY <1>1, <1>3, <1>4, <1>5, <3>2, <3>3, NotStarting
  <2> QED  BY <1>1, <1>8, <2>1, <2>2, <2>3, <2>4, NextBlockShape
<1>9. CASE call.op = "read" /\ call' = NextBlock([call EXCEPT !.done = @ + 1, !.buffer = @ \o host.fifo])
  BY <1>1, <1>8, <1>9 DEF EmmcShapes
<1>10. CASE call.op = "write" /\ call' = NextBlock([call EXCEPT !.done = @ + 1])
  BY <1>1, <1>8, <1>10 DEF EmmcShapes
<1> QED  BY <1>7, <1>9, <1>10 DEF MoveBlock

LEMMA DataDoneKeepsStart == ASSUME EmmcShapes, StartInv, DataDone PROVE StartInv'
<1>1. call.at = "done" /\ UNCHANGED <<card, sd>>  BY DEF DataDone
<1>2. call.op # "init"  BY <1>1, NoStartMoves
<1>3. /\ host'.cmd = host.cmd /\ host'.BLKCNT = host.BLKCNT /\ host'.reply = host.reply
      /\ host'.wide = host.wide /\ host'.ints = Cleared("DATA_DONE")
  BY DEF DataDone, EmmcShapes
<1>4. HostTyped'
  <2>1. host'.ints \subseteq host.ints  BY <1>3 DEF Cleared
  <2>2. host'.wide \in BOOLEAN  BY <1>3 DEF StartInv, HostTyped
  <2> QED  BY <1>3, <2>1, <2>2, HostStaysTyped DEF StartInv
<1>5. SdTyped'  BY <1>1 DEF StartInv, SdTyped
<1>6. CASE \E r \in SDResults : Return(r)  BY <1>1, <1>2, <1>3, <1>4, <1>5, <1>6, GivesUpStart
<1>7. CASE call' = Send(call, "STOP_TRANS")
  <2>1. call.done \in 0 .. call.num  BY DEF StartInv, CallTyped
  <2> QED  BY <1>1, <1>2, <1>3, <1>4, <1>7, <2>1, SendShape, CallGoesOn
<1>8. Waited(host.ints) \in SDResults /\ "OK" \in SDResults  BY DEF Waited, SDResults
<1> QED  BY <1>6, <1>7, <1>8 DEF DataDone

LEMMA DataLateKeepsStart == ASSUME EmmcShapes, StartInv, DataLate PROVE StartInv'
<1>1. Return("TIMEOUT") /\ "TIMEOUT" \in SDResults /\ UNCHANGED <<card, sd>>  BY DEF DataLate, SDResults
<1>2. /\ host'.cmd = host.cmd /\ host'.BLKCNT = host.BLKCNT /\ host'.reply = host.reply
      /\ host'.wide = host.wide /\ host'.ints = {}
  BY DEF DataLate, EmmcShapes
<1>3. HostTyped'
  <2>1. host'.wide \in BOOLEAN  BY <1>2 DEF StartInv, HostTyped
  <2> QED  BY <1>2, <2>1, HostStaysTyped DEF StartInv
<1>4. SdTyped'  BY <1>1 DEF StartInv, SdTyped
<1> QED  BY <1>1, <1>2, <1>3, <1>4, GivesUpStart

LEMMA EraseEndsKeepsStart == ASSUME EmmcShapes, StartInv, EraseEnds PROVE StartInv'
<1>1. call.at = "erase" /\ UNCHANGED <<host, card, sd>>  BY DEF EraseEnds
<1>2. call.op # "init"  BY <1>1, NoStartMoves
<1>3. PICK r \in SDResults : Return(r)  BY DEF EraseEnds, SDResults
<1>4. HostTyped' /\ SdTyped'  BY <1>1 DEF StartInv, HostTyped, SdTyped
<1> QED  BY <1>1, <1>2, <1>3, <1>4, GivesUpStart

LEMMA DriverKeepsStart == ASSUME EmmcInv, StartInv, Driver PROVE StartInv'
<1>1. EmmcShapes  BY DEF EmmcInv
<1> QED
  BY <1>1, sdResetCardKeepsStart, IssueKeepsStart, RefusedKeepsStart, AnsweredKeepsStart,
     AnswerLateKeepsStart, sdSetClockKeepsStart, sdWaitForDataKeepsStart, sdReadSCRKeepsStart,
     MoveBlockKeepsStart, DataDoneKeepsStart, DataLateKeepsStart, EraseEndsKeepsStart DEF Driver

-----------------------------------------------------------------------------
(* A call begins.                                                          *)
LEMMA sdInitCardKeepsStart == ASSUME StartInv, sdInitCard PROVE StartInv'
<1>1. /\ call'.op = "init" /\ call'.at = "reset" /\ call'.cmd = "none" /\ call'.tries = 0
      /\ call'.num = 0 /\ call'.done = 0 /\ call'.result = "OK"
      /\ UNCHANGED <<host, card, sd>>
  BY DEF sdInitCard, NoCall
<1>2. HostTyped' /\ SdTyped'  BY <1>1 DEF StartInv, HostTyped, SdTyped
<1>3. CallTyped'  BY <1>1, EmmcAssumption DEF CallTyped, Operations, SDResults
<1>4. ~Starting' /\ ~Started'  BY <1>1 DEF Starting, Started
<1> QED  BY <1>1, <1>2, <1>3, <1>4, NotStarting

LEMMA TransferKeepsStart ==
  ASSUME StartInv, NEW op \in {"read", "write", "clear"}, NEW start, NEW num \in 1 .. MaxBlock + 1,
         NEW data, Transfer(op, start, num, data)
  PROVE  StartInv'
<1> DEFINE asked == [NoCall EXCEPT !.op = op, !.at = "waitData", !.start = start, !.num = num, !.buffer = data]
<1>1. call' = IF sd.type = "UNKNOWN" THEN Returned(asked, "NO_RESP") ELSE asked  BY DEF Transfer
<1>2. UNCHANGED <<host, card, sd>>  BY DEF Transfer
<1>3. /\ asked.op = op /\ asked.at = "waitData" /\ asked.cmd = "none" /\ asked.tries = 0
      /\ asked.num = num /\ asked.done = 0 /\ asked.result = "OK"
  BY DEF NoCall
<1> HIDE DEF asked
<1>4. /\ call'.op = op /\ call'.at \in {"idle", "waitData"} /\ call'.cmd = "none" /\ call'.tries = 0
      /\ call'.num \in {0, num} /\ call'.done = 0 /\ call'.result \in {"OK", "NO_RESP"}
  <2>1. CASE sd.type = "UNKNOWN"  BY <1>1, <1>3, <2>1 DEF Returned, NoCall
  <2>2. CASE sd.type # "UNKNOWN"  BY <1>1, <1>3, <2>2
  <2> QED  BY <2>1, <2>2
<1>5. HostTyped' /\ SdTyped'  BY <1>2 DEF StartInv, HostTyped, SdTyped
<1>6. CallTyped'
  <2>1. /\ call'.num \in 0 .. MaxBlock + 1 /\ call'.done \in 0 .. call'.num
        /\ call'.tries \in 0 .. Retries
    BY <1>4, EmmcAssumption
  <2>2. call'.result \in SDResults /\ call'.op \in Operations  BY <1>4 DEF SDResults, Operations
  <2> QED  BY <1>4, <2>1, <2>2 DEF CallTyped
<1>7. ~Starting' /\ ~Started'  BY <1>4 DEF Starting, Started
<1> QED  BY <1>2, <1>5, <1>6, <1>7, NotStarting

LEMMA RequestsKeepStart == ASSUME StartInv, Requests PROVE StartInv'
<1>1. ASSUME NEW t \in Transfers \cup Erasures,
             \/ sdcard_read(t[1], t[2])
             \/ sdcard_write(t[1], [i \in 1 .. t[2] |-> New(t[1] + i - 1)])
             \/ sdClearBlocks(t[1], t[2])
      PROVE  StartInv'
  <2>1. t[2] \in 1 .. MaxBlock + 1 /\ t[2] \in Nat  BY EmmcAssumption
  <2>2. Len([i \in 1 .. t[2] |-> New(t[1] + i - 1)]) = t[2]  BY <2>1
  <2>3. CASE sdcard_read(t[1], t[2])  BY <2>1, <2>3, TransferKeepsStart DEF sdcard_read
  <2>4. CASE sdcard_write(t[1], [i \in 1 .. t[2] |-> New(t[1] + i - 1)])
    BY <2>1, <2>2, <2>4, TransferKeepsStart DEF sdcard_write
  <2>5. CASE sdClearBlocks(t[1], t[2])  BY <2>1, <2>5, TransferKeepsStart DEF sdClearBlocks
  <2> QED  BY <1>1, <2>3, <2>4, <2>5
<1> QED  BY <1>1, sdInitCardKeepsStart DEF Requests

LEMMA StartInvHoldsFirst == ASSUME EmmcInit PROVE StartInv
<1>1. host = HostReset /\ sd = NoCard /\ call = NoCall  BY DEF EmmcInit
<1>2. PICK c \in Cards, s \in {"idle", "tran"} :
        card = [kind |-> c.kind, scr |-> c, state |-> s, app |-> FALSE, wide |-> s = "tran",
                blockLen |-> FALSE, left |-> 0, block |-> 0, from |-> 0, misread |-> FALSE]
  BY DEF EmmcInit
<1>3. card.scr \in Cards /\ card.wide \in BOOLEAN /\ card.misread = FALSE
  BY <1>2
<1>4. card.state \in {"idle", "tran"} /\ (card.state = "idle" => ~card.wide)  BY <1>2
<1>5. HostTyped
  <2>1. 0 \in 0 .. MaxBlock + 1  BY EmmcAssumption
  <2> QED  BY <1>1, <2>1 DEF HostTyped, HostReset, NoReply
<1>6. CardTyped  BY <1>3 DEF CardTyped
<1>7. SdTyped  BY <1>1 DEF SdTyped, NoCard, SDDescriptor, SDTypes
<1>8. CallTyped  BY <1>1, EmmcAssumption DEF CallTyped, NoCall, SDResults
<1>9. CardKept  BY <1>1, <1>3, <1>4 DEF CardKept, HostReset
<1>10. ~Starting /\ ~Started  BY <1>1 DEF Starting, Started, NoCall
<1>11. Ready  BY <1>3, <1>10 DEF Ready, Initialised, Started
<1> QED  BY <1>5, <1>6, <1>7, <1>8, <1>9, <1>10, <1>11 DEF StartInv, StartKnown, WidthKnown

LEMMA StartInvStutters == ASSUME StartInv, UNCHANGED emmcVars PROVE StartInv'
<1> USE DEF emmcVars
<1>1. HostTyped' /\ CardTyped' /\ SdTyped' /\ CallTyped' /\ CardKept'
  BY DEF StartInv, HostTyped, CardTyped, SdTyped, CallTyped, CardKept
<1>2. StartKnown' /\ WidthKnown' /\ Ready'
  BY DEF StartInv, StartKnown, WidthKnown, Ready, Starting, Started, Heard, HeardWell, Clean, Initialised,
         Wire
<1> QED  BY <1>1, <1>2 DEF StartInv

LEMMA FatKeepsStart == Spec => [](EmmcInv /\ StartInv)
<1>1. FatInit => StartInv  BY StartInvHoldsFirst DEF FatInit
<1>2. EmmcInv /\ StartInv /\ [Next]_vars => StartInv'
  <2>1. SUFFICES ASSUME EmmcInv, StartInv, [Next]_vars PROVE StartInv'  OBVIOUS
  <2>2. EmmcShapes  BY <2>1 DEF EmmcInv
  <2>3. CASE FatStep
    <3>1. CASE sdcard_read(Wanted, 1)
      <4>1. 1 \in 1 .. MaxBlock + 1  BY EmmcAssumption
      <4> QED  BY <2>1, <3>1, <4>1, TransferKeepsStart DEF sdcard_read
    <3> QED  BY <2>1, <2>3, <3>1, FatStepAsks, sdInitCardKeepsStart, StartInvStutters
  <2>4. CASE UNCHANGED vars
    <3>1. UNCHANGED emmcVars  BY <2>4 DEF vars
    <3> QED  BY <2>1, <3>1, StartInvStutters
  <2> QED
    BY <2>1, <2>2, <2>3, <2>4, HardwareKeepsStart, DriverKeepsStart, RequestsKeepStart DEF Next
<1> QED  BY <1>1, <1>2, FatKeepsInv, PTL DEF Spec

LEMMA CardIsTyped == ASSUME EmmcInv, StartInv PROVE CardSound
<1>1. host.ints \subseteq Ints /\ host.BLKCNT \in 0 .. MaxBlock + 1  BY DEF StartInv, HostTyped
<1>2. Len(host.fifo) <= 1  BY DEF EmmcInv, EmmcShapes
<1>3. sd \in SDDescriptor  BY DEF StartInv, SdTyped
<1>4. call.result \in SDResults /\ call.tries \in 0 .. Retries /\ call.done \in 0 .. call.num
  BY DEF StartInv, CallTyped
<1>5. disk \in [Blocks -> 0 .. Erased]
  <2>1. disk \in [Blocks -> Nat] /\ \A b \in Blocks : disk[b] \in {b, New(b), Erased}
    BY DEF EmmcInv, EmmcShapes, DiskValues
  <2>2. Erased \in 0 .. Erased  BY EmmcAssumption DEF Erased, New
  <2>3. ASSUME NEW b \in Blocks PROVE b \in 0 .. Erased /\ New(b) \in 0 .. Erased
    BY EmmcAssumption DEF Blocks, New, Erased
  <2>4. \A b \in Blocks : disk[b] \in 0 .. Erased  BY <2>1, <2>2, <2>3
  <2> QED  BY <2>1, <2>4
<1> QED  BY <1>1, <1>2, <1>3, <1>4, <1>5 DEF CardSound, EmmcTypeOK, StartInv, Ready

(* Whatever is asked for, however the card and the lines fail, and however *)
(* often and wherever a start is given up and tried again: once sdInitCard *)
(* returned OK the card is selected, has its block length and a type, and  *)
(* uses the lines that the host uses, and no command was ever taken for    *)
(* another.  What is in the driver's records stays what they were made for.*)
THEOREM CardIsSound == Spec => []CardSound
BY FatKeepsStart, CardIsTyped, PTL

-----------------------------------------------------------------------------
(* Nothing is misplaced.  An erasure takes what was asked for, and one     *)
(* block more.                                                             *)
Takes(first, last) ==
  \A b \in Blocks : b \in first .. last => Erased \in meant[b] \/ OneTooMany(b)

(* A block on its way to the card was meant for its place, and so is every *)
(* block that the write in progress will send.                             *)
WritesMeant ==
  /\ host.fifo # << >> /\ host.dir = "write" =>
       \A b \in Blocks : host.fifo[1] = New(b) => New(b) \in meant[b]
  /\ call.op = "write" /\ call.at # "idle" =>
       \A b \in Blocks : b \in call.start .. call.start + call.num - 1 => New(b) \in meant[b]

(* The command of a call was obeyed by the card, and well answered.        *)
Obeys(cmd) == /\ call.at = "sent" /\ call.cmd = cmd /\ host.cmd = "none"
              /\ "CMD_DONE" \in host.ints /\ Clean /\ ~host.reply.error
Follows(cmd) == call.at = "send" /\ call.cmd = cmd
OnItsWay(cmd) == call.at = "sent" /\ call.cmd = cmd /\ host.cmd # "none"

(* What the card was told of the limits of an erasure: both, or the first. *)
BothTold  == Obeys("ERASE_WR_END") \/ Follows("ERASE")
FirstTold == Obeys("ERASE_WR_ST") \/ Follows("ERASE_WR_END") \/ OnItsWay("ERASE_WR_END") \/ BothTold

Erasing == call.op = "clear" /\ call.at # "idle"

(* An erasure in progress, and its place in the driver.                    *)
ErasureKnown ==
  /\ call.start \in Blocks /\ call.num \in Nat \ {0} /\ ~call.prefix
  /\ sd.type \in {"TYPE_2_SC", "TYPE_2_HC"}
  /\ \A b \in Blocks : b \in call.start .. call.start + call.num - 1 => Erased \in meant[b]
  /\ call.at \in {"waitData", "send", "sent", "erase"}
  /\ call.at \in {"send", "sent"} => call.cmd \in {"ERASE_WR_ST", "ERASE_WR_END", "ERASE"}
  /\ call.at = "sent" /\ host.cmd # "none" =>
       host.cmd = call.cmd /\ host.arg = Argument /\ host.ints = {}
  /\ Follows("ERASE_WR_END") \/ Follows("ERASE") => host.cmd = "none"
  /\ FirstTold => card.state = "tran" /\ card.from = call.start
  /\ BothTold => card.block = call.start + call.num

MeantInv ==
  /\ NothingMisplaced
  /\ WritesMeant
  /\ Erasing => ErasureKnown
  /\ host.cmd = "ERASE" => Takes(card.from, card.block)

(* The steps of the hardware.  Of those that move no command it is enough  *)
(* that they move no card that was told the limits of an erasure.          *)
LEMMA LinesKeepMeant ==
  ASSUME MeantInv, UNCHANGED <<sd, call, meant>>, host.cmd = "none", host'.cmd = "none",
         host'.reply = host.reply, host'.dir = host.dir,
         "CMD_DONE" \in host'.ints => "CMD_DONE" \in host.ints, Clean' => Clean,
         host'.fifo \in {host.fifo, << >>} \/ host'.dir # "write",
         UNCHANGED card \/ card.state # "tran",
         NothingMisplaced'
  PROVE  MeantInv'
<1>1. WritesMeant'  BY DEF MeantInv, WritesMeant
<1>2. ASSUME Erasing' PROVE ErasureKnown'
  <2>1. ErasureKnown  BY <1>2 DEF MeantInv, Erasing
  <2>2. BothTold' => BothTold  BY DEF BothTold, Obeys, Follows
  <2>3. FirstTold' => FirstTold  BY <2>2 DEF FirstTold, Obeys, Follows, OnItsWay
  <2>4. FirstTold' => UNCHANGED card  BY <2>1, <2>3 DEF ErasureKnown
  <2>5. BothTold' => FirstTold'  BY DEF FirstTold
  <2>6. Argument' = Argument  BY DEF Argument, blockAddress
  <2>7. FirstTold' => card'.state = "tran" /\ card'.from = call.start  BY <2>1, <2>3, <2>4 DEF ErasureKnown
  <2>8. BothTold' => card'.block = call.start + call.num  BY <2>1, <2>2, <2>4, <2>5 DEF ErasureKnown
  <2> QED  BY <2>1, <2>6, <2>7, <2>8 DEF ErasureKnown, Follows
<1> QED  BY <1>1, <1>2 DEF MeantInv

LEMMA HostWantsKeepsMeant == ASSUME EmmcInv, MeantInv, HostWants, UNCHANGED meant PROVE MeantInv'
<1> USE DEF HostWants, Streaming
<1>1. /\ host'.fifo = host.fifo /\ host'.ints = host.ints \cup {"WRITE_RDY"} /\ host'.dir = host.dir
      /\ host'.cmd = "none" /\ host'.reply = host.reply
  BY DEF EmmcInv, EmmcShapes
<1>2. Clean' => Clean  BY <1>1 DEF Clean
<1>3. NothingMisplaced'  BY DEF MeantInv, NothingMisplaced, OneTooMany
<1> QED  BY <1>1, <1>2, <1>3, LinesKeepMeant

LEMMA DataEndsKeepsMeant == ASSUME EmmcInv, MeantInv, DataEnds, UNCHANGED meant PROVE MeantInv'
<1> USE DEF DataEnds
<1>1. /\ host'.fifo = host.fifo /\ host'.ints = host.ints \cup {"DATA_DONE"} /\ host'.dir = host.dir
      /\ host'.cmd = "none" /\ host'.reply = host.reply
  BY DEF EmmcInv, EmmcShapes
<1>2. Clean' => Clean  BY <1>1 DEF Clean
<1>3. NothingMisplaced'  BY DEF MeantInv, NothingMisplaced, OneTooMany
<1> QED  BY <1>1, <1>2, <1>3, LinesKeepMeant

LEMMA DataFailsKeepsMeant == ASSUME EmmcInv, MeantInv, DataFails, UNCHANGED meant PROVE MeantInv'
<1> USE DEF DataFails
<1>1. PICK bits \in {{"ERR"}, {"ERR", "DTO_ERR"}}, datInhibit \in BOOLEAN :
        host' = [host EXCEPT !.ints = @ \cup bits, !.datInhibit = datInhibit, !.fifo = << >>]
  OBVIOUS
<1>2. /\ host'.fifo = << >> /\ host'.ints = host.ints \cup bits /\ host'.dir = host.dir
      /\ host'.cmd = "none" /\ host'.reply = host.reply
  BY <1>1 DEF EmmcInv, EmmcShapes
<1>3. "ERR" \in bits /\ "CMD_DONE" \notin bits  OBVIOUS
<1>4. ~Clean'  BY <1>2, <1>3 DEF Clean
<1>5. NothingMisplaced'  BY DEF MeantInv, NothingMisplaced, OneTooMany
<1> QED  BY <1>2, <1>3, <1>4, <1>5, LinesKeepMeant

LEMMA CardSendsKeepsMeant == ASSUME EmmcInv, MeantInv, CardSends, UNCHANGED meant PROVE MeantInv'
<1> USE DEF CardSends, Streaming
<1>1. /\ host'.ints = host.ints \cup {"READ_RDY"} /\ host'.dir = host.dir /\ host'.dir # "write"
      /\ host'.cmd = "none" /\ host'.reply = host.reply
  BY DEF EmmcInv, EmmcShapes
<1>2. Clean' => Clean  BY <1>1 DEF Clean
<1>3. NothingMisplaced'  BY DEF MeantInv, NothingMisplaced, OneTooMany
<1> QED  BY <1>1, <1>2, <1>3, LinesKeepMeant

LEMMA CardStoresKeepsMeant == ASSUME EmmcInv, MeantInv, CardStores, UNCHANGED meant PROVE MeantInv'
<1> USE DEF CardStores, Streaming
<1>1. EmmcShapes /\ FifoPlaced  BY DEF EmmcInv
<1>2. /\ host'.fifo = << >> /\ host'.ints = host.ints /\ host'.dir = host.dir
      /\ host'.cmd = "none" /\ host'.reply = host.reply
  BY <1>1 DEF EmmcShapes
<1>3. Clean' => Clean  BY <1>2 DEF Clean
<1>4. Head(host.fifo) = New(card.block) /\ New(card.block) \in meant[card.block]
  <2>1. Head(host.fifo) = host.fifo[1]  BY <1>1 DEF EmmcShapes
  <2> QED  BY <1>1, <2>1 DEF FifoPlaced, MeantInv, WritesMeant
<1>5. NothingMisplaced'
  BY <1>1, <1>4 DEF MeantInv, NothingMisplaced, OneTooMany, EmmcShapes
<1> QED  BY <1>2, <1>3, <1>5, LinesKeepMeant

(* What the card keeps of the commands of an erasure.                      *)
LEMMA LimitsObeyed ==
  ASSUME EmmcShapes, NEW arg
  PROVE  /\ Obeyed("ERASE_WR_ST", arg).state = card.state
         /\ Obeyed("ERASE_WR_ST", arg).from = FirstBlock(arg)
         /\ Obeyed("ERASE_WR_END", arg).state = card.state
         /\ Obeyed("ERASE_WR_END", arg).from = card.from
         /\ Obeyed("ERASE_WR_END", arg).block = FirstBlock(arg)
         /\ DOMAIN Obeyed("ERASE_WR_ST", arg) = DOMAIN card
         /\ DOMAIN Obeyed("ERASE_WR_END", arg) = DOMAIN card
BY DEF Obeyed, MultiCommands, EmmcShapes

LEMMA CardAnswersKeepsMeant == ASSUME EmmcInv, MeantInv, CardAnswers, UNCHANGED meant PROVE MeantInv'
<1>1. EmmcShapes /\ TypeAgrees /\ WireKnown  BY DEF EmmcInv
<1>2. PICK error \in BOOLEAN, powered \in BOOLEAN, spoilt \in BOOLEAN :
        Reaches(error, powered, spoilt)
  BY DEF CardAnswers
<1>3. host.cmd # "none" /\ Legal(host.cmd) /\ UNCHANGED <<sd, call>>  BY DEF CardAnswers
<1>4. /\ host'.cmd = "none" /\ host'.fifo = host.fifo /\ host'.dir = host.dir
      /\ host'.ints = host.ints \cup (IF spoilt THEN {"ERR"} ELSE {"CMD_DONE"})
      /\ host'.reply.error = error
  BY <1>1, <1>2 DEF Reaches, EmmcShapes
<1>5. NothingMisplaced'
  <2>1. CASE host.cmd = "ERASE" /\ ~error
    <3>1. disk' = [b \in Blocks |-> IF b \in card.from .. card.block THEN Erased ELSE disk[b]]
      BY <1>2, <2>1 DEF Reaches
    <3>2. Takes(card.from, card.block) /\ NothingMisplaced  BY <2>1 DEF MeantInv
    <3> QED  BY <3>1, <3>2 DEF NothingMisplaced, Takes, OneTooMany
  <2>2. CASE ~(host.cmd = "ERASE" /\ ~error)
    <3>1. disk' = disk  BY <1>2, <2>2 DEF Reaches
    <3> QED  BY <3>1 DEF MeantInv, NothingMisplaced, OneTooMany
  <2> QED  BY <2>1, <2>2
<1>6. WritesMeant'  BY <1>3, <1>4 DEF MeantInv, WritesMeant
<1>7. ASSUME Erasing' PROVE ErasureKnown'
  <2>1. ErasureKnown  BY <1>3, <1>7 DEF MeantInv, Erasing
  <2>2. ~Follows("ERASE_WR_END") /\ ~Follows("ERASE")  BY <1>3, <2>1 DEF ErasureKnown
  <2>3. ~Follows("ERASE_WR_END")' /\ ~Follows("ERASE")' /\ ~OnItsWay("ERASE_WR_END")'
    BY <1>3, <1>4, <2>2 DEF Follows, OnItsWay
  <2>4. ASSUME NEW cmd \in {"ERASE_WR_ST", "ERASE_WR_END"}, Obeys(cmd)'
        PROVE  /\ host.cmd = cmd /\ host.arg = Argument /\ card.state = "tran"
               /\ card'.state = "tran" /\ card'.from = Obeyed(cmd, Argument).from
               /\ card'.block = Obeyed(cmd, Argument).block
    <3>1. call.at = "sent" /\ call.cmd = cmd /\ ~error  BY <1>3, <1>4, <2>4 DEF Obeys
    <3>2. host.cmd = cmd /\ host.arg = Argument  BY <1>3, <2>1, <3>1 DEF ErasureKnown
    <3>3. card.state = "tran"  BY <1>3, <3>2 DEF Legal
    <3>4. ~powered  BY <1>2, <3>2 DEF Reaches
    <3>5. card' = [Obeyed(cmd, Argument) EXCEPT !.state = @]  BY <1>2, <3>1, <3>2, <3>4 DEF Reaches
    <3>6. DOMAIN Obeyed(cmd, Argument) = DOMAIN card /\ Obeyed(cmd, Argument).state = "tran"
      BY <1>1, <3>3, LimitsObeyed
    <3> QED  BY <1>1, <3>2, <3>3, <3>5, <3>6 DEF EmmcShapes
  <2>5. call.start \in Int /\ call.num \in Int /\ call.start + call.num \in Int
    BY <2>1, EmmcAssumption DEF ErasureKnown, Blocks
  <2>6. ASSUME Obeys("ERASE_WR_ST")' PROVE card'.state = "tran" /\ card'.from = call.start
    <3>1. call.cmd = "ERASE_WR_ST"  BY <1>3, <2>6 DEF Obeys
    <3>2. Argument = blockAddress(call.start)  BY <2>1, <3>1 DEF Argument, ErasureKnown
    <3> QED  BY <1>1, <2>1, <2>4, <2>5, <2>6, <3>2, AddressIsBlock, LimitsObeyed DEF ErasureKnown
  <2>7. ASSUME Obeys("ERASE_WR_END")'
        PROVE  /\ card'.state = "tran" /\ card'.from = call.start
               /\ card'.block = call.start + call.num
    <3>1. call.cmd = "ERASE_WR_END" /\ call.at = "sent"  BY <1>3, <2>7 DEF Obeys
    <3>2. Argument = blockAddress(call.start + call.num)  BY <2>1, <3>1 DEF Argument, ErasureKnown
    <3>3. card.from = call.start  BY <1>3, <2>1, <3>1 DEF ErasureKnown, FirstTold, OnItsWay
    <3> QED  BY <1>1, <2>1, <2>4, <2>5, <2>7, <3>2, <3>3, AddressIsBlock, LimitsObeyed DEF ErasureKnown
  <2>8. /\ FirstTold' => Obeys("ERASE_WR_ST")' \/ Obeys("ERASE_WR_END")'
        /\ BothTold' => Obeys("ERASE_WR_END")'
    BY <2>3 DEF FirstTold, BothTold
  <2> QED  BY <1>3, <1>4, <2>1, <2>3, <2>6, <2>7, <2>8 DEF ErasureKnown
<1> QED  BY <1>4, <1>5, <1>6, <1>7 DEF MeantInv

LEMMA NoAnswerKeepsMeant == ASSUME EmmcInv, MeantInv, NoAnswer, UNCHANGED meant PROVE MeantInv'
<1>1. EmmcShapes  BY DEF EmmcInv
<1>2. host.cmd # "none" /\ UNCHANGED <<disk, sd, call>>  BY DEF NoAnswer
<1>3. /\ host'.cmd = "none" /\ host'.fifo = host.fifo /\ host'.dir = host.dir
      /\ ~Silent(host.cmd) => "ERR" \in host'.ints
  BY <1>1 DEF NoAnswer, EmmcShapes
<1>4. NothingMisplaced' /\ WritesMeant'
  BY <1>2, <1>3 DEF MeantInv, NothingMisplaced, OneTooMany, WritesMeant
<1>5. ASSUME Erasing' PROVE ErasureKnown'
  <2>1. ErasureKnown  BY <1>2, <1>5 DEF MeantInv, Erasing
  <2>2. ~Follows("ERASE_WR_END")' /\ ~Follows("ERASE")' /\ ~OnItsWay("ERASE_WR_END")'
    BY <1>2, <1>3, <2>1 DEF ErasureKnown, Follows, OnItsWay
  <2>3. ASSUME NEW cmd, Obeys(cmd)' PROVE FALSE
    <3>1. host.cmd \in {"ERASE_WR_ST", "ERASE_WR_END", "ERASE"}
      BY <1>2, <2>1, <2>3 DEF ErasureKnown, Obeys
    <3>2. "ERR" \in host'.ints  BY <1>3, <3>1 DEF Silent
    <3> QED  BY <2>3, <3>2 DEF Obeys, Clean
  <2>4. ~FirstTold' /\ ~BothTold'  BY <2>2, <2>3 DEF FirstTold, BothTold
  <2> QED  BY <1>2, <1>3, <2>1, <2>4 DEF ErasureKnown
<1> QED  BY <1>3, <1>4, <1>5 DEF MeantInv

LEMMA HardwareKeepsMeant == ASSUME EmmcInv, MeantInv, Hardware PROVE MeantInv'
BY CardAnswersKeepsMeant, NoAnswerKeepsMeant, CardSendsKeepsMeant, HostWantsKeepsMeant,
   CardStoresKeepsMeant, DataEndsKeepsMeant, DataFailsKeepsMeant DEF Hardware

(* The steps of the driver move no block and tell the card nothing, and a  *)
(* call that writes goes on to write what it did.                          *)
LEMMA StepKeepsMeant ==
  ASSUME MeantInv, Kept, UNCHANGED <<card, disk, meant>>,
         host'.fifo = << >> \/ (host'.fifo = host.fifo /\ host'.dir = host.dir),
         host'.cmd = "ERASE" => host.cmd = "ERASE" \/ (BothTold /\ Erasing),
         Erasing' => ErasureKnown'
  PROVE  MeantInv'
<1>1. NothingMisplaced'  BY DEF MeantInv, NothingMisplaced, OneTooMany
<1>2. WritesMeant'  BY DEF MeantInv, WritesMeant, Kept
<1>3. ASSUME host'.cmd = "ERASE" PROVE Takes(card.from, card.block)
  <2>1. CASE host.cmd = "ERASE"  BY <2>1 DEF MeantInv
  <2>2. CASE BothTold /\ Erasing
    <3>1. ErasureKnown /\ FirstTold  BY <2>2 DEF MeantInv, FirstTold
    <3>2. card.from = call.start /\ card.block = call.start + call.num  BY <2>2, <3>1 DEF ErasureKnown
    <3>3. call.start \in Nat /\ call.num \in Nat \ {0}  BY <3>1, EmmcAssumption DEF ErasureKnown, Blocks
    <3>4. ASSUME NEW b \in Blocks, b \in card.from .. card.block, Erased \notin meant[b] PROVE OneTooMany(b)
      <4>1. b \in Int  BY <3>4, EmmcAssumption DEF Blocks
      <4>2. b \notin call.start .. call.start + call.num - 1  BY <3>1, <3>4 DEF ErasureKnown
      <4>3. b = call.start + call.num  BY <3>2, <3>3, <3>4, <4>1, <4>2
      <4>4. b - 1 \in Blocks /\ b - 1 \in call.start .. call.start + call.num - 1 /\ b > 0
        BY <3>3, <3>4, <4>3, EmmcAssumption DEF Blocks
      <4> QED  BY <3>1, <4>4 DEF ErasureKnown, OneTooMany
    <3> QED  BY <3>4 DEF Takes
  <2> QED  BY <1>3, <2>1, <2>2
<1>4. host'.cmd = "ERASE" => Takes(card.from, card.block)'  BY <1>3 DEF Takes, OneTooMany
<1> QED  BY <1>1, <1>2, <1>4 DEF MeantInv

(* A command of an erasure ends as such: well, or the call returns.        *)
LEMMA ErasureCommandEnds ==
  ASSUME EmmcShapes, Erasing, ErasureKnown, call.at \in {"send", "sent"}, NEW result, CommandEnds(result)
  PROVE  /\ result # "OK" => call'.at = "idle"
         /\ result = "OK" =>
              \/ call.cmd = "ERASE_WR_ST" /\ call' = Send(call, "ERASE_WR_END")
              \/ call.cmd = "ERASE_WR_END" /\ call' = Send(call, "ERASE")
              \/ call.cmd = "ERASE" /\ call' = [call EXCEPT !.at = "erase"]
<1>1. /\ call.op = "clear" /\ ~call.prefix
      /\ call.cmd \in {"ERASE_WR_ST", "ERASE_WR_END", "ERASE"}
  BY DEF Erasing, ErasureKnown
<1>2. TransferEnds(result)
  BY <1>1 DEF CommandEnds, PrefixEnds, GoIdleEnds, IfCondEnds, OpCondEnds, IdentifyEnds
<1>3. CASE result # "OK"  BY <1>2, <1>3, ReturnedShape DEF TransferEnds
<1>4. CASE result = "OK"  BY <1>1, <1>2, <1>4 DEF TransferEnds
<1> QED  BY <1>3, <1>4

(* Nobody else sends the last command of one.                              *)
LEMMA EraseIsErasing ==
  ASSUME EmmcInv, StartInv, call.at = "send", call.cmd = "ERASE"
  PROVE  Erasing
<1>1. call.op \in Operations  BY DEF StartInv, CallTyped
<1>2. call.op # "init"
  BY DEF StartInv, StartKnown, Starting, Early, Late, Addressed, TypeCommands
<1>3. ~Moves
  <2>1. ASSUME Moves PROVE FALSE
    <3>1. TransferKnown  BY <2>1 DEF EmmcInv, CallKnown
    <3> QED  BY <2>1, <3>1, TransferCommands DEF TransferKnown, Moves
  <2> QED  BY <2>1
<1> QED  BY <1>1, <1>2, <1>3 DEF Operations, Moves, Erasing

LEMMA IssueKeepsMeant == ASSUME EmmcInv, StartInv, MeantInv, Kept, Issue, UNCHANGED meant PROVE MeantInv'
<1>1. EmmcShapes /\ WireKnown  BY DEF EmmcInv
<1>2. call.at = "send" /\ host.cmd = "none" /\ UNCHANGED <<card, disk, sd>>
  BY <1>1 DEF Issue, WireKnown
<1>3. host'.fifo = << >> /\ host'.cmd = Wire /\ host'.arg = Argument /\ host'.ints = {}
  BY <1>1 DEF Issue, EmmcShapes
<1>4. /\ call'.at = "sent" /\ call'.op = call.op /\ call'.cmd = call.cmd /\ call'.prefix = call.prefix
      /\ call'.old = call.old /\ call'.start = call.start /\ call'.num = call.num
  BY <1>1 DEF Issue, EmmcShapes
<1>5. Argument' = Argument  BY <1>2, <1>4 DEF Argument, blockAddress
<1>6. ASSUME Erasing PROVE ErasureKnown' /\ (call.cmd = "ERASE" => BothTold)
  <2>1. ErasureKnown /\ ~call.prefix /\ Wire = call.cmd  BY <1>6 DEF MeantInv, ErasureKnown, Wire
  <2>2. call.cmd \in {"ERASE_WR_ST", "ERASE_WR_END", "ERASE"}  BY <1>2, <2>1 DEF ErasureKnown
  <2>3. ~BothTold'  BY <1>3, <1>4, <2>1, <2>2 DEF BothTold, Obeys, Follows
  <2>4. FirstTold' => Follows("ERASE_WR_END")
    BY <1>2, <1>3, <1>4, <2>1, <2>2, <2>3 DEF FirstTold, Obeys, Follows, OnItsWay
  <2>5. FirstTold' => card'.state = "tran" /\ card'.from = call'.start
    BY <1>2, <1>4, <2>1, <2>4 DEF ErasureKnown, FirstTold
  <2>6. call.cmd = "ERASE" => BothTold  BY <1>2 DEF BothTold, Follows
  <2> QED  BY <1>2, <1>3, <1>4, <1>5, <2>1, <2>2, <2>3, <2>5, <2>6 DEF ErasureKnown, Follows
<1>7. Erasing' <=> Erasing  BY <1>2, <1>4 DEF Erasing
<1>8. ASSUME host'.cmd = "ERASE" PROVE BothTold /\ Erasing
  <2>1. call.cmd = "ERASE" /\ ~call.prefix  BY <1>3, <1>8 DEF Wire
  <2>2. Erasing  BY <1>2, <2>1, EraseIsErasing
  <2> QED  BY <1>6, <2>1, <2>2
<1> QED  BY <1>2, <1>3, <1>6, <1>7, <1>8, StepKeepsMeant

LEMMA AnsweredKeepsMeant == ASSUME EmmcInv, MeantInv, Kept, Answered, UNCHANGED meant PROVE MeantInv'
<1> DEFINE waited == Waited(host.ints)
           judged == IF waited = "OK" THEN Judged(Wire, host.reply) ELSE waited
           result == IF judged = "OK" /\ Wire \in AppCommands /\ sd'.rca /\ ~sd'.APP_CMD
                     THEN "ERROR_APP_CMD" ELSE judged
<1>1. EmmcShapes /\ TypeAgrees  BY DEF EmmcInv
<1>2. /\ call.at = "sent" /\ Raised("CMD_DONE") /\ UNCHANGED <<card, disk>>
      /\ sd' = IF waited = "OK" THEN Learned(Wire, host.reply) ELSE sd
      /\ CommandEnds(result)
  BY DEF Answered
<1>3. host'.cmd = host.cmd /\ host'.dir = host.dir /\ host'.fifo = host.fifo
  BY <1>1 DEF Answered, EmmcShapes
<1> HIDE DEF result
<1>4. ASSUME Erasing' PROVE ErasureKnown'
  <2>1. Erasing /\ ErasureKnown  BY <1>2, <1>4 DEF MeantInv, Erasing, Kept
  <2>2. Wire = call.cmd /\ Wire \in {"ERASE_WR_ST", "ERASE_WR_END", "ERASE"}
    BY <1>2, <2>1 DEF Wire, ErasureKnown
  <2>3. result = "OK"  BY <1>1, <1>2, <1>4, <2>1, ErasureCommandEnds DEF Erasing
  <2>4. judged = "OK" /\ waited = "OK"
    <3>1. judged = "OK"  BY <2>3 DEF result
    <3>2. waited # "OK" => judged # "OK"  OBVIOUS
    <3> QED  BY <3>1, <3>2
  <2>5. ~host.reply.error
    <3>1. Judged(Wire, host.reply) = "OK"  BY <2>4
    <3>2. Judged(Wire, host.reply) = IF host.reply.error THEN "ERROR" ELSE "OK"
      BY <2>2 DEF Judged, Silent
    <3> QED  BY <3>1, <3>2
  <2>6. Clean /\ "CMD_DONE" \in host.ints
    <3>1. Clean  BY <2>4, WaitedClean
    <3> QED  BY <1>2, <3>1 DEF Clean, Raised, INT_ERROR_MASK
  <2>7. host.cmd = "none"  BY <1>2, <2>1, <2>6 DEF ErasureKnown
  <2>8. Obeys(call.cmd)  BY <1>2, <2>5, <2>6, <2>7 DEF Obeys
  <2>9. sd'.type = sd.type  BY <1>1, <1>2, <2>2, LearnedShape
  <2>10. /\ call'.start = call.start /\ call'.num = call.num /\ call'.op = "clear" /\ ~call'.prefix
         /\ \/ call.cmd = "ERASE_WR_ST" /\ call'.at = "send" /\ call'.cmd = "ERASE_WR_END"
            \/ call.cmd = "ERASE_WR_END" /\ call'.at = "send" /\ call'.cmd = "ERASE"
            \/ call.cmd = "ERASE" /\ call'.at = "erase"
    <3>1. ~("ERASE_WR_END" \in AppCommands) /\ ~("ERASE" \in AppCommands)  BY DEF AppCommands
    <3>2. call.op = "clear" /\ ~call.prefix  BY <2>1 DEF Erasing, ErasureKnown
    <3>3. \/ call.cmd = "ERASE_WR_ST" /\ call' = Send(call, "ERASE_WR_END")
          \/ call.cmd = "ERASE_WR_END" /\ call' = Send(call, "ERASE")
          \/ call.cmd = "ERASE" /\ call' = [call EXCEPT !.at = "erase"]
      <4>1. CommandEnds(result) /\ call.at \in {"send", "sent"}  BY <1>2
      <4> QED  BY <1>1, <2>1, <2>3, <4>1, ErasureCommandEnds
    <3>4. ASSUME NEW cmd \in {"ERASE_WR_END", "ERASE"}
          PROVE  /\ Send(call, cmd).at = "send" /\ Send(call, cmd).cmd = cmd /\ ~Send(call, cmd).prefix
                 /\ Send(call, cmd).start = call.start /\ Send(call, cmd).num = call.num
                 /\ Send(call, cmd).op = call.op
      BY <1>1, <3>1 DEF Send, EmmcShapes
    <3>5. CASE call.cmd = "ERASE"  BY <1>1, <3>2, <3>3, <3>5 DEF EmmcShapes
    <3>6. CASE call.cmd # "ERASE"  BY <3>2, <3>3, <3>4, <3>6
    <3> QED  BY <3>5, <3>6
  <2>11. FirstTold' => FirstTold  BY <2>8, <2>10 DEF FirstTold, BothTold, Obeys, Follows, OnItsWay
  <2>12. BothTold' => BothTold  BY <2>8, <2>10 DEF BothTold, Obeys, Follows
  <2> QED  BY <1>2, <1>3, <2>1, <2>7, <2>9, <2>10, <2>11, <2>12 DEF ErasureKnown, Follows
<1> QED  BY <1>2, <1>3, <1>4, StepKeepsMeant

LEMMA WaitKeepsMeant == ASSUME EmmcInv, MeantInv, Kept, sdWaitForData, UNCHANGED meant PROVE MeantInv'
<1>1. EmmcShapes  BY DEF EmmcInv
<1>2. call.at = "waitData" /\ UNCHANGED <<host, card, disk, sd>>  BY DEF sdWaitForData
<1>3. ASSUME Erasing' PROVE ErasureKnown'
  <2>1. Erasing /\ ErasureKnown  BY <1>2, <1>3 DEF MeantInv, Erasing, Kept
  <2>2. TransferCommand = "ERASE_WR_ST" /\ "ERASE_WR_ST" \notin AppCommands
    BY <2>1 DEF Erasing, TransferCommand, AppCommands
  <2>3. call' = Send(call, "ERASE_WR_ST")
    <3>1. ~Return("TIMEOUT")  BY <1>1, <1>3, ReturnedShape DEF Erasing
    <3> QED  BY <2>1, <2>2, <3>1 DEF sdWaitForData, Erasing
  <2>4. /\ call'.at = "send" /\ call'.cmd = "ERASE_WR_ST" /\ ~call'.prefix /\ call'.start = call.start
        /\ call'.num = call.num
    BY <1>1, <2>2, <2>3 DEF Send, EmmcShapes
  <2>5. ~FirstTold' /\ ~BothTold'  BY <2>4 DEF FirstTold, BothTold, Obeys, Follows, OnItsWay
  <2> QED  BY <1>2, <2>1, <2>4, <2>5 DEF ErasureKnown, Follows
<1> QED  BY <1>2, <1>3, StepKeepsMeant

(* A block that the driver gives to the host is one that its call writes.  *)
LEMMA MoveBlockKeepsMeant == ASSUME EmmcInv, MeantInv, Kept, MoveBlock, UNCHANGED meant PROVE MeantInv'
<1>1. EmmcShapes  BY DEF EmmcInv
<1>2. call.at = "data" /\ UNCHANGED <<card, disk, sd>>  BY DEF MoveBlock
<1>3. host'.cmd = host.cmd /\ host'.dir = host.dir  BY <1>1 DEF MoveBlock, EmmcShapes
<1>4. ~Erasing'  BY <1>2 DEF MeantInv, ErasureKnown, Erasing, Kept
<1>5. CASE host'.fifo \in {host.fifo, << >>}  BY <1>2, <1>3, <1>4, <1>5, StepKeepsMeant
<1>6. CASE host'.fifo \notin {host.fifo, << >>}
  <2>1. call.op = "write" /\ host'.fifo = <<call.buffer[call.done + 1]>>
    BY <1>1, <1>6 DEF MoveBlock, EmmcShapes
  <2>2. /\ call.done \in Nat /\ call.num \in Nat /\ call.done < call.num /\ call.start \in Int
        /\ call.buffer = [i \in 1 .. call.num |-> New(call.start + i - 1)]
    BY <1>2, <2>1 DEF EmmcInv, CallKnown, Moves, TransferKnown, Streams, Placed
  <2>3. call.buffer[call.done + 1] = New(call.start + call.done)  BY <2>2
  <2>4. ASSUME NEW b \in Blocks, host'.fifo[1] = New(b) PROVE New(b) \in meant[b]
    <3>1. b \in Int  BY EmmcAssumption DEF Blocks
    <3>2. b = call.start + call.done  BY <2>1, <2>2, <2>3, <2>4, <3>1, EmmcAssumption DEF New
    <3>3. b \in call.start .. call.start + call.num - 1  BY <2>2, <3>2
    <3> QED  BY <1>2, <2>1, <3>3 DEF MeantInv, WritesMeant
  <2>5. NothingMisplaced'  BY <1>2 DEF MeantInv, NothingMisplaced, OneTooMany
  <2>6. WritesMeant'  BY <2>4 DEF MeantInv, WritesMeant, Kept
  <2>7. host'.cmd = "ERASE" => Takes(card.from, card.block)'  BY <1>2, <1>3 DEF MeantInv, Takes, OneTooMany
  <2> QED  BY <1>4, <2>5, <2>6, <2>7 DEF MeantInv
<1> QED  BY <1>5, <1>6

LEMMA DriverKeepsMeant == ASSUME EmmcInv, StartInv, MeantInv, Driver PROVE MeantInv'
<1>1. EmmcShapes /\ Kept /\ UNCHANGED meant  BY DriverKeeps DEF EmmcInv, Driver
<1>2. ASSUME Erasing' PROVE Erasing /\ ErasureKnown  BY <1>1, <1>2 DEF MeantInv, Erasing, Kept
<1>4. CASE sdResetCard
  <2>1. host'.fifo = << >> /\ host'.cmd = "none" /\ UNCHANGED <<card, disk>> /\ call.at = "reset"
    BY <1>4 DEF sdResetCard, HostReset
  <2>2. ~Erasing'  BY <1>2, <2>1 DEF ErasureKnown
  <2> QED  BY <1>1, <2>1, <2>2, StepKeepsMeant
<1>5. CASE Refused \/ AnswerLate
  <2>1. /\ UNCHANGED <<card, disk>> /\ host'.cmd = host.cmd /\ host'.fifo = host.fifo
        /\ host'.dir = host.dir /\ call.at \in {"send", "sent"}
        /\ CommandEnds("BUSY") \/ CommandEnds("TIMEOUT")
    BY <1>1, <1>5 DEF Refused, AnswerLate, EmmcShapes
  <2>2. ~Erasing'
    <3>1. ASSUME Erasing' PROVE call'.at = "idle"
      BY <1>1, <1>2, <2>1, <3>1, ErasureCommandEnds
    <3> QED  BY <3>1 DEF Erasing
  <2> QED  BY <1>1, <2>1, <2>2, StepKeepsMeant
<1>6. CASE sdSetClock \/ sdReadSCR \/ DataDone \/ DataLate
  <2>1. /\ UNCHANGED <<card, disk>> /\ host'.cmd = host.cmd /\ host'.dir = host.dir
        /\ host'.fifo \in {host.fifo, << >>} /\ call.at \in {"clock", "scr", "done", "data"}
    BY <1>1, <1>6 DEF sdSetClock, sdReadSCR, DataDone, DataLate, EmmcShapes
  <2>2. ~Erasing'  BY <1>2, <2>1 DEF ErasureKnown
  <2> QED  BY <1>1, <2>1, <2>2, StepKeepsMeant
<1>7. CASE EraseEnds
  <2>1. UNCHANGED <<host, card, disk>> /\ ~Erasing'
    BY <1>1, <1>7, ReturnedShape DEF EraseEnds, Erasing
  <2> QED  BY <1>1, <2>1, StepKeepsMeant
<1> QED
  BY <1>1, <1>4, <1>5, <1>6, <1>7, IssueKeepsMeant, AnsweredKeepsMeant, WaitKeepsMeant, MoveBlockKeepsMeant
  DEF Driver

-----------------------------------------------------------------------------
(* A request only adds to what is meant.                                   *)
LEMMA RequestKeepsMeant ==
  ASSUME MeantInv, UNCHANGED <<host, card, disk, sd>>,
         \A b \in Blocks : meant[b] \subseteq meant'[b],
         call'.op = "write" /\ call'.at # "idle" =>
           \A b \in Blocks : b \in call'.start .. call'.start + call'.num - 1 => New(b) \in meant'[b],
         Erasing' => ErasureKnown'
  PROVE  MeantInv'
<1>1. \A b \in Blocks : OneTooMany(b) => OneTooMany(b)'
  BY EmmcAssumption DEF OneTooMany, Blocks
<1>2. NothingMisplaced'  BY <1>1 DEF MeantInv, NothingMisplaced
<1>3. WritesMeant'  BY DEF MeantInv, WritesMeant
<1>4. host.cmd = "ERASE" => Takes(card.from, card.block)'  BY <1>1 DEF MeantInv, Takes
<1> QED  BY <1>2, <1>3, <1>4 DEF MeantInv

LEMMA InitKeepsMeant == ASSUME EmmcInv, MeantInv, sdInitCard PROVE MeantInv'
<1>1. call'.op = "init" /\ UNCHANGED <<host, card, disk, sd, meant>>  BY DEF sdInitCard, NoCall
<1> QED  BY <1>1, RequestKeepsMeant DEF Erasing

LEMMA ReadKeepsMeant == ASSUME EmmcInv, MeantInv, NEW start, NEW num, sdcard_read(start, num) PROVE MeantInv'
<1>1. call'.op = "read" /\ UNCHANGED <<host, card, disk, sd, meant>>
  BY DEF sdcard_read, Transfer, Returned, NoCall
<1> QED  BY <1>1, RequestKeepsMeant DEF Erasing

(* What was meant before is meant still, and so is what is asked for now.  *)
LEMMA MeaningGrows ==
  ASSUME NEW start \in Int, NEW data, Len(data) \in Nat, meant' = Meaning(start, data)
  PROVE  /\ \A b \in Blocks : meant[b] \subseteq meant'[b]
         /\ \A b \in Blocks : b \in start .. start + Len(data) - 1 => data[b - start + 1] \in meant'[b]
BY DEF Meaning

LEMMA WriteKeepsMeant ==
  ASSUME EmmcInv, MeantInv, NEW start \in Int, NEW num \in Nat \ {0},
         sdcard_write(start, [i \in 1 .. num |-> New(start + i - 1)])
  PROVE  MeantInv'
<1> DEFINE data == [i \in 1 .. num |-> New(start + i - 1)]
<1>1. data \in Seq(Int) /\ Len(data) = num  BY EmmcAssumption DEF New
<1>2. UNCHANGED <<host, card, disk, sd>> /\ meant' = Meaning(start, data)  BY DEF sdcard_write, Transfer
<1>3. /\ call'.op = "write"
      /\ call'.at # "idle" => call'.start = start /\ call'.num = num
  BY <1>1 DEF sdcard_write, Transfer, Returned, NoCall
<1>4. ASSUME NEW b \in Blocks, b \in start .. start + num - 1 PROVE New(b) \in meant'[b]
  <2>1. b \in Int /\ b - start + 1 \in 1 .. num  BY <1>4, EmmcAssumption DEF Blocks
  <2>2. data[b - start + 1] = New(b)  BY <2>1
  <2>3. data[b - start + 1] \in meant'[b]  BY <1>1, <1>2, <1>4, MeaningGrows
  <2> QED  BY <2>2, <2>3
<1>5. \A b \in Blocks : meant[b] \subseteq meant'[b]  BY <1>1, <1>2, MeaningGrows
<1> HIDE DEF data
<1> QED  BY <1>2, <1>3, <1>4, <1>5, RequestKeepsMeant DEF Erasing

LEMMA ClearKeepsMeant ==
  ASSUME EmmcInv, MeantInv, NEW start \in Blocks, NEW num \in Nat \ {0}, sd.type # "TYPE_1",
         sdClearBlocks(start, num)
  PROVE  MeantInv'
<1> DEFINE data == [i \in 1 .. num |-> Erased]
<1>1. Erased \in Int /\ start \in Int  BY EmmcAssumption DEF Erased, New, Blocks
<1>2. data \in Seq(Int) /\ Len(data) = num  BY <1>1
<1>3. UNCHANGED <<host, card, disk, sd>> /\ meant' = Meaning(start, data)  BY DEF sdClearBlocks, Transfer
<1>4. /\ call'.op = "clear"
      /\ call'.at # "idle" => /\ call'.at = "waitData" /\ call'.start = start /\ call'.num = num
                              /\ ~call'.prefix /\ sd.type # "UNKNOWN"
  BY DEF sdClearBlocks, Transfer, Returned, NoCall
<1>5. ASSUME NEW b \in Blocks, b \in start .. start + num - 1 PROVE Erased \in meant'[b]
  <2>1. b \in Int /\ b - start + 1 \in 1 .. num  BY <1>1, <1>5, EmmcAssumption DEF Blocks
  <2>2. data[b - start + 1] = Erased  BY <2>1
  <2>3. data[b - start + 1] \in meant'[b]  BY <1>1, <1>2, <1>3, <1>5, MeaningGrows
  <2> QED  BY <2>2, <2>3
<1>6. \A b \in Blocks : meant[b] \subseteq meant'[b]  BY <1>1, <1>2, <1>3, MeaningGrows
<1> HIDE DEF data
<1>7. ASSUME Erasing' PROVE ErasureKnown'
  <2>1. call'.at = "waitData" /\ call'.start = start /\ call'.num = num /\ ~call'.prefix
    BY <1>4, <1>7 DEF Erasing
  <2>2. sd'.type \in {"TYPE_2_SC", "TYPE_2_HC"}
    BY <1>3, <1>4, <1>7 DEF Erasing, EmmcInv, TypeAgrees, SDTypes
  <2>3. ~FirstTold' /\ ~BothTold'  BY <2>1 DEF FirstTold, BothTold, Obeys, Follows, OnItsWay
  <2> QED  BY <1>5, <2>1, <2>2, <2>3 DEF ErasureKnown, Follows
<1> QED  BY <1>3, <1>4, <1>6, <1>7, RequestKeepsMeant

LEMMA RequestsKeepMeant == ASSUME EmmcInv, MeantInv, Requests PROVE MeantInv'
<1>1. ASSUME NEW t \in Transfers \cup Erasures PROVE t[1] \in Blocks /\ t[1] \in Int /\ t[2] \in Nat \ {0}
  BY <1>1, EmmcAssumption DEF Blocks
<1>2. ASSUME NEW t \in Transfers, sdcard_read(t[1], t[2]) PROVE MeantInv'  BY <1>2, ReadKeepsMeant
<1>3. ASSUME NEW t \in Transfers, sdcard_write(t[1], [i \in 1 .. t[2] |-> New(t[1] + i - 1)])
      PROVE  MeantInv'
  BY <1>1, <1>3, WriteKeepsMeant
<1>4. ASSUME NEW t \in Erasures, sd.type # "TYPE_1", sdClearBlocks(t[1], t[2]) PROVE MeantInv'
  BY <1>1, <1>4, ClearKeepsMeant
<1> QED  BY <1>2, <1>3, <1>4, InitKeepsMeant DEF Requests

LEMMA MeantInvHoldsFirst == ASSUME EmmcInit PROVE MeantInv
<1>1. host.fifo = << >> /\ host.cmd = "none" /\ call.at = "idle"  BY DEF EmmcInit, HostReset, NoCall
<1>2. NothingMisplaced  BY DEF EmmcInit, NothingMisplaced
<1> QED  BY <1>1, <1>2 DEF MeantInv, WritesMeant, Erasing

LEMMA MeantInvStutters == ASSUME MeantInv, UNCHANGED emmcVars PROVE MeantInv'
<1> USE DEF emmcVars
<1>1. NothingMisplaced' /\ WritesMeant'  BY DEF MeantInv, NothingMisplaced, WritesMeant, OneTooMany
<1>2. Erasing' => ErasureKnown'
  BY DEF MeantInv, Erasing, ErasureKnown, FirstTold, BothTold, Obeys, Follows, OnItsWay, Clean, Argument,
         blockAddress
<1>3. host'.cmd = "ERASE" => Takes(card.from, card.block)'  BY DEF MeantInv, Takes, OneTooMany
<1> QED  BY <1>1, <1>2, <1>3 DEF MeantInv

LEMMA FatKeepsMeant == Spec => []MeantInv
<1>1. FatInit => MeantInv  BY MeantInvHoldsFirst DEF FatInit
<1>2. EmmcInv /\ StartInv /\ MeantInv /\ [Next]_vars => MeantInv'
  <2>1. SUFFICES ASSUME EmmcInv, StartInv, MeantInv, [Next]_vars PROVE MeantInv'  OBVIOUS
  <2>2. CASE FatStep  BY <2>1, <2>2, FatStepAsks, InitKeepsMeant, ReadKeepsMeant, MeantInvStutters
  <2>3. CASE UNCHANGED vars
    <3>1. UNCHANGED emmcVars  BY <2>3 DEF vars
    <3> QED  BY <2>1, <3>1, MeantInvStutters
  <2> QED
    BY <2>1, <2>2, <2>3, HardwareKeepsMeant, DriverKeepsMeant, RequestsKeepMeant DEF Next
<1> QED  BY <1>1, <1>2, FatKeepsStart, PTL DEF Spec

(* Whatever the card, the file system and a program that uses the driver   *)
(* without it do, a block of the card holds what it held at first or what  *)
(* a call asked that very block to hold: nothing of a transfer that failed,*)
(* was given up or was followed by another lands anywhere else.  An        *)
(* erasure, whose commands may fail or come late one by one, takes no      *)
(* block but those asked for and, as sdClearBlocks tells it, the one       *)
(* behind them.                                                            *)
THEOREM NothingIsMisplaced == Spec => []NothingMisplaced
<1>1. MeantInv => NothingMisplaced  BY DEF MeantInv
<1> QED  BY <1>1, FatKeepsMeant, PTL
=============================================================================
