-------------------------------- MODULE Emmc --------------------------------
(***************************************************************************)
(* The SD card driver, kernel/device/emmc.c: sdInitCard, sdcard_read,      *)
(* sdcard_write and sdClearBlocks, over the host controller of the chip    *)
(* and a card that follows the SD rules and may miss any command, refuse   *)
(* it, answer with an error or late, and fail in any block.                *)
(*                                                                         *)
(* The driver is one thread: call holds where it is.  The card and the     *)
(* host move between any two of its steps, and every loop that waits for   *)
(* them has a time limit.  A block is a value; buffers are word-aligned,   *)
(* as every buffer of the program is.                                      *)
(***************************************************************************)
EXTENDS Naturals, Sequences

CONSTANTS
  BlockSize,    \* the bytes of a block (512), the unit of a byte address
  MaxBlock,     \* the last block of the card
  Cards,        \* the cards: kind, CMD_SUPPORT and BUS_WIDTH of the SCR
  Transfers,    \* what is read and written: first block and number
  Erasures,     \* what is erased: first block and number
  Retries       \* how often ACMD41 is repeated (6)

ASSUME EmmcAssumption ==
  /\ BlockSize \in Nat \ {0} /\ MaxBlock \in Nat /\ Retries \in Nat
  /\ Transfers \cup Erasures \subseteq (0 .. MaxBlock) \X (1 .. MaxBlock + 1)
  /\ Cards \subseteq [kind : {"V1", "SC", "HC"}, CMD_SUPPORT : 0 .. 3, BUS_WIDTH : Nat]

VARIABLES
  host,     \* the controller's registers and its block of memory
  card,     \* the card: its kind, its state, what it was told
  disk,     \* the card's blocks
  sd,       \* sdCard: type, rca, ocr, status, scr
  call,     \* the call in progress or the last one: operation, place, result
  meant     \* history: what each block held first or was ever asked to hold

emmcVars == <<host, card, disk, sd, call, meant>>

Blocks == 0 .. MaxBlock

(* A block holds its own number until it is written or erased; an erased   *)
(* block looks like no other.                                              *)
New(b) == MaxBlock + 1 + b
Erased == New(MaxBlock + 1)

(* Bits of the interrupt register.  ERR stands for itself and every bit of *)
(* INT_ERROR_MASK; CTO_ERR is not in the mask and always comes with ERR.   *)
Ints == {"CMD_DONE", "DATA_DONE", "WRITE_RDY", "READ_RDY", "ERR", "CTO_ERR", "DTO_ERR"}
INT_ERROR_MASK == {"ERR", "DTO_ERR"}

(* Commands that must follow an APP_CMD, from IX_APP_CMD_START on.         *)
AppCommands == {"SET_BUS_WIDTH", "APP_SEND_OP_COND", "SEND_SCR"}

(* Parts of the command table: who moves data, and which way, and who may  *)
(* keep the data line busy.                                                *)
DataCommands == [SEND_SCR |-> "read", READ_SINGLE |-> "read", READ_MULTI |-> "read",
                 WRITE_SINGLE |-> "write", WRITE_MULTI |-> "write"]
BusyCommands == {"CARD_SELECT", "STOP_TRANS", "ERASE"}
MultiCommands == {"READ_MULTI", "WRITE_MULTI"}
Registers == {"APP_SEND_OP_COND", "ALL_SEND_CID", "SEND_CSD"}     \* answers without a status

SDTypes   == {"UNKNOWN", "TYPE_1", "TYPE_2_SC", "TYPE_2_HC"}
SDResults == {"OK", "ERROR", "TIMEOUT", "BUSY", "NO_RESP", "ERROR_RESET", "ERROR_CLOCK",
              "ERROR_VOLTAGE", "ERROR_APP_CMD"}

(* What sdCard keeps: rca is a flag, ocr three bits of it, APP_CMD a bit   *)
(* of the last status.                                                     *)
SDDescriptor == [type : SDTypes, rca : BOOLEAN, powered : BOOLEAN, capacity : BOOLEAN,
                 voltage : BOOLEAN, APP_CMD : BOOLEAN, CMD_SUPPORT : 0 .. 3, BUS_WIDTH : Nat]
NoCard == [type |-> "UNKNOWN", rca |-> FALSE, powered |-> FALSE, capacity |-> FALSE,
           voltage |-> FALSE, APP_CMD |-> FALSE, CMD_SUPPORT |-> 0, BUS_WIDTH |-> 0]

NoReply == [error |-> FALSE, APP_CMD |-> FALSE, powered |-> FALSE, capacity |-> FALSE,
            voltage |-> FALSE, echo |-> FALSE]

NoCall == [op |-> "none", at |-> "idle", cmd |-> "none", prefix |-> FALSE, old |-> FALSE,
           tries |-> 0, start |-> 0, num |-> 0, buffer |-> << >>, done |-> 0, result |-> "OK"]

HostReset == [ints |-> {}, cmd |-> "none", arg |-> 0, cmdInhibit |-> FALSE, datInhibit |-> FALSE,
              dir |-> "none", BLKCNT |-> 0, fifo |-> << >>, wide |-> FALSE, reply |-> NoReply]

(* A card with power: nothing said to it yet, or left where the firmware   *)
(* that loaded the kernel from it left it.                                 *)
EmmcInit ==
  /\ host = HostReset
  /\ \E c \in Cards, s \in {"idle", "tran"} :
       card = [kind |-> c.kind, scr |-> c, state |-> s, app |-> FALSE, wide |-> s = "tran",
               blockLen |-> FALSE, left |-> 0, block |-> 0, from |-> 0, misread |-> FALSE]
  /\ disk = [b \in Blocks |-> b]
  /\ sd = NoCard
  /\ call = NoCall
  /\ meant = [b \in Blocks |-> {b}]

-----------------------------------------------------------------------------
(* The card.  Address gives the block an address stands for, or none.      *)
FirstBlock(a) ==
  IF card.kind = "HC" THEN a
  ELSE IF a % BlockSize = 0 THEN a \div BlockSize ELSE MaxBlock + 1

Legal(cmd) ==
  CASE cmd = "GO_IDLE_STATE" -> TRUE
    [] cmd = "SEND_IF_COND" -> card.state = "idle" /\ card.kind # "V1"
    [] cmd = "APP_CMD" -> card.state \notin {"ready", "ident"}
    [] cmd = "APP_SEND_OP_COND" -> card.state = "idle" /\ card.app
    [] cmd = "ALL_SEND_CID" -> card.state = "ready"
    [] cmd = "SEND_REL_ADDR" -> card.state \in {"ident", "stby"}
    [] cmd \in {"SEND_CSD", "CARD_SELECT"} -> card.state = "stby"
    [] cmd = "SEND_SCR" -> card.state = "tran" /\ card.app
    [] cmd = "SET_BLOCKCNT" -> card.state = "tran" /\ card.scr.CMD_SUPPORT \in {2, 3}
    [] cmd = "STOP_TRANS" -> card.state \in {"data", "rcv"}
    [] OTHER -> card.state = "tran"

(* The card after a command it obeys.  A count of blocks and the limits of *)
(* an erasure are forgotten unless their command follows.  Without APP_CMD *)
(* before it, SET_BUS_WIDTH is SWITCH_FUNC: misread remembers that.        *)
Obeyed(cmd, arg) ==
  LET busy == card.state \in {"data", "rcv"}
      next == [card EXCEPT !.app = cmd = "APP_CMD", !.block = IF busy THEN @ ELSE 0,
                           !.left = IF busy \/ cmd \in MultiCommands THEN @ ELSE 0,
                           !.from = IF cmd = "ERASE_WR_END" THEN @ ELSE 0]
  IN CASE cmd = "GO_IDLE_STATE" ->
            [next EXCEPT !.state = "idle", !.wide = FALSE, !.blockLen = FALSE, !.block = 0, !.left = 0]
       [] cmd = "ALL_SEND_CID" -> [next EXCEPT !.state = "ident"]
       [] cmd = "SEND_REL_ADDR" -> [next EXCEPT !.state = "stby"]
       [] cmd = "CARD_SELECT" -> [next EXCEPT !.state = "tran"]
       [] cmd = "SEND_SCR" -> [next EXCEPT !.state = "data", !.left = 1]
       [] cmd = "SET_BUS_WIDTH" ->
            [next EXCEPT !.wide = card.app \/ @, !.misread = @ \/ ~card.app]
       [] cmd = "SET_BLOCKLEN" -> [next EXCEPT !.blockLen = TRUE]
       [] cmd = "SET_BLOCKCNT" -> [next EXCEPT !.left = arg]
       [] cmd \in {"READ_SINGLE", "WRITE_SINGLE"} ->
            [next EXCEPT !.state = IF cmd = "READ_SINGLE" THEN "data" ELSE "rcv",
                         !.left = 1, !.block = FirstBlock(arg)]
       [] cmd \in MultiCommands ->
            [next EXCEPT !.state = IF cmd = "READ_MULTI" THEN "data" ELSE "rcv",
                         !.block = FirstBlock(arg)]
       [] cmd = "STOP_TRANS" -> [next EXCEPT !.state = "tran", !.left = 0, !.block = 0]
       [] cmd = "ERASE_WR_ST" -> [next EXCEPT !.from = FirstBlock(arg)]
       [] cmd = "ERASE_WR_END" -> [next EXCEPT !.block = FirstBlock(arg)]
       [] OTHER -> next

BadAddress(cmd, arg) ==
  cmd \in {"READ_SINGLE", "WRITE_SINGLE", "READ_MULTI", "WRITE_MULTI"} /\ FirstBlock(arg) \notin Blocks

Silent(cmd) == cmd = "GO_IDLE_STATE" \/ (cmd = "APP_CMD" /\ ~sd.rca)

(* A command reaches the card and its answer the host, or the answer is    *)
(* spoilt on the way.  ACMD41 may find the card not ready yet.  An erasure *)
(* takes the first and the last block it was told, and those between.      *)
Reaches(error, powered, spoilt) ==
  /\ Silent(host.cmd) => ~spoilt
  /\ Silent(host.cmd) \/ host.cmd \in Registers \/ powered => ~error
  /\ BadAddress(host.cmd, host.arg) => error
  /\ powered => host.cmd = "APP_SEND_OP_COND" /\ (card.kind = "HC" => host.arg = 1)
  /\ card' = IF error THEN [card EXCEPT !.app = FALSE]
             ELSE [Obeyed(host.cmd, host.arg) EXCEPT !.state = IF powered THEN "ready" ELSE @]
  /\ host' = [host EXCEPT !.cmd = "none", !.arg = 0, !.cmdInhibit = FALSE,
       !.ints = @ \cup IF spoilt THEN {"ERR"} ELSE {"CMD_DONE"},
       !.reply = [error |-> error, powered |-> powered, capacity |-> powered /\ card.kind = "HC",
                  APP_CMD |-> host.cmd = "APP_CMD" \/ card.app, voltage |-> powered,
                  echo |-> ~error /\ host.cmd = "SEND_IF_COND"]]
  /\ disk' = IF host.cmd = "ERASE" /\ ~error
             THEN [b \in Blocks |-> IF b \in card.from .. card.block THEN Erased ELSE disk[b]]
             ELSE disk

CardAnswers ==
  /\ host.cmd # "none" /\ Legal(host.cmd)
  /\ \E error, powered, spoilt \in BOOLEAN : Reaches(error, powered, spoilt)
  /\ UNCHANGED <<sd, call>>

(* A command the card does not hear or does not know gets no answer; the   *)
(* command line, and the data line it would use, may stay taken.           *)
NoAnswer ==
  /\ host.cmd # "none"
  /\ card' = [card EXCEPT !.app = FALSE]
  /\ \E cmdInhibit, datInhibit \in BOOLEAN :
       /\ Silent(host.cmd) => ~cmdInhibit
       /\ datInhibit => host.datInhibit
       /\ host' = [host EXCEPT !.cmd = "none", !.arg = 0, !.cmdInhibit = cmdInhibit,
            !.datInhibit = datInhibit,
            !.ints = @ \cup IF Silent(host.cmd) THEN {"CMD_DONE"} ELSE {"ERR", "CTO_ERR"}]
  /\ UNCHANGED <<disk, sd, call>>

OneBlockOn ==
  [card EXCEPT !.block = IF card.left = 1 THEN 0 ELSE @ + 1, !.left = IF @ = 0 THEN 0 ELSE @ - 1,
               !.state = IF card.left = 1 THEN "tran" ELSE @]

Streaming(dir) == host.cmd = "none" /\ host.datInhibit /\ host.dir = dir /\ host.BLKCNT > 0

CardSends ==
  /\ Streaming("read") /\ card.state = "data" /\ card.block \in Blocks
  /\ host.fifo = << >> /\ host.wide = card.wide
  /\ host' = [host EXCEPT !.ints = @ \cup {"READ_RDY"}, !.fifo = <<disk[card.block]>>,
                          !.BLKCNT = @ - 1]
  /\ card' = OneBlockOn
  /\ UNCHANGED <<disk, sd, call>>

HostWants ==
  /\ Streaming("write") /\ card.state = "rcv" /\ host.fifo = << >>
  /\ "WRITE_RDY" \notin host.ints
  /\ host' = [host EXCEPT !.ints = @ \cup {"WRITE_RDY"}]
  /\ UNCHANGED <<card, disk, sd, call>>

CardStores ==
  /\ Streaming("write") /\ card.state = "rcv" /\ card.block \in Blocks
  /\ host.fifo # << >> /\ host.wide = card.wide
  /\ disk' = [disk EXCEPT ![card.block] = Head(host.fifo)]
  /\ host' = [host EXCEPT !.fifo = << >>, !.BLKCNT = @ - 1]
  /\ card' = OneBlockOn
  /\ UNCHANGED <<sd, call>>

(* The last block is through, or the card is no longer busy.               *)
DataEnds ==
  /\ host.cmd = "none" /\ host.datInhibit /\ host.fifo = << >>
  /\ host.dir = "none" \/ host.BLKCNT = 0
  /\ host' = [host EXCEPT !.datInhibit = FALSE, !.ints = @ \cup {"DATA_DONE"}]
  /\ UNCHANGED <<card, disk, sd, call>>

(* A bad block, a card that sends none, or one that stays busy too long.   *)
DataFails ==
  /\ host.cmd = "none" /\ host.datInhibit /\ (host.dir = "none" \/ host.BLKCNT > 0)
  /\ \E bits \in {{"ERR"}, {"ERR", "DTO_ERR"}}, datInhibit \in BOOLEAN :
       host' = [host EXCEPT !.ints = @ \cup bits, !.datInhibit = datInhibit, !.fifo = << >>]
  /\ UNCHANGED <<card, disk, sd, call>>

Hardware ==
  /\ CardAnswers \/ NoAnswer \/ CardSends \/ HostWants \/ CardStores \/ DataEnds \/ DataFails
  /\ UNCHANGED meant

-----------------------------------------------------------------------------
(* The driver.  A call asks; it returns when call.at is idle again.        *)
Send(c, cmd) == [c EXCEPT !.at = "send", !.cmd = cmd, !.prefix = cmd \in AppCommands]

(* A call that failed keeps nothing but that; its arguments are gone.      *)
Returned(c, result) ==
  IF result = "OK" THEN [NoCall EXCEPT !.op = c.op, !.start = c.start, !.num = c.num, !.buffer = c.buffer]
  ELSE [NoCall EXCEPT !.op = c.op, !.result = result]
Return(result) == call' = Returned(call, result)

sdInitCard ==
  /\ call.at = "idle"
  /\ call' = [NoCall EXCEPT !.op = "init", !.at = "reset"]
  /\ UNCHANGED <<host, card, disk, sd, meant>>

(* sdTransferBlocks and sdClearBlocks begin alike: not without a type.     *)
Transfer(op, start, num, data) ==
  LET asked == [NoCall EXCEPT !.op = op, !.at = "waitData", !.start = start, !.num = num, !.buffer = data]
  IN /\ call.at = "idle"
     /\ call' = IF sd.type = "UNKNOWN" THEN Returned(asked, "NO_RESP") ELSE asked
     /\ UNCHANGED <<host, card, disk, sd>>

(* What the blocks from start on are asked to hold from now on, too.       *)
Meaning(start, data) ==
  [b \in Blocks |-> IF b \in start .. start + Len(data) - 1
                    THEN meant[b] \cup {data[b - start + 1]} ELSE meant[b]]

sdcard_read(start, num) == Transfer("read", start, num, << >>) /\ UNCHANGED meant

sdcard_write(start, data) ==
  Transfer("write", start, Len(data), data) /\ meant' = Meaning(start, data)

sdClearBlocks(start, num) ==
  /\ Transfer("clear", start, num, << >>)
  /\ meant' = Meaning(start, [i \in 1 .. num |-> Erased])

(* sdResetCard: the host circuit and the clock come back or do not; only   *)
(* then is sdCard emptied and GO_IDLE_STATE sent.                          *)
sdResetCard ==
  /\ call.at = "reset"
  /\ \/ \E result \in {"ERROR_RESET", "ERROR_CLOCK"} : Return(result) /\ UNCHANGED sd
     \/ /\ sd' = [NoCard EXCEPT !.CMD_SUPPORT = sd.CMD_SUPPORT, !.BUS_WIDTH = sd.BUS_WIDTH]
        /\ call' = Send(call, "GO_IDLE_STATE")
  /\ host' = HostReset
  /\ UNCHANGED <<card, disk>>

(* The argument of a command: a type 2 standard card takes the address of  *)
(* a byte, every other type is given the number of the block.              *)
(* Mutant of blockAddress: every card of version 2 gets a byte's address.  *)
blockAddress_Shifted(b) == IF sd.type = "TYPE_1" THEN b ELSE b * BlockSize
blockAddress(b) == IF sd.type = "TYPE_2_SC" THEN b * BlockSize ELSE b

(* Mutant of Argument: the end of an erasure is one block further on.      *)
Argument_Further ==
  CASE call.prefix -> 0
    [] call.cmd = "APP_SEND_OP_COND" -> IF call.old THEN 0 ELSE 1
    [] call.cmd = "SET_BLOCKCNT" -> call.num
    [] call.cmd = "ERASE_WR_END" -> blockAddress(call.start + call.num + 1)
    [] OTHER -> blockAddress(call.start)

Argument ==
  CASE call.prefix -> 0
    [] call.cmd = "APP_SEND_OP_COND" -> IF call.old THEN 0 ELSE 1
    [] call.cmd = "SET_BLOCKCNT" -> call.num
    [] call.cmd = "ERASE_WR_END" -> blockAddress(call.start + call.num)
    [] OTHER -> blockAddress(call.start)

Wire == IF call.prefix THEN "APP_CMD" ELSE call.cmd

(* Mutant of Issue: the interrupts that are set stay set.                  *)
Issue_Kept ==
  /\ call.at = "send" /\ ~host.cmdInhibit /\ host.ints \cap INT_ERROR_MASK = {}
  /\ call' = [call EXCEPT !.at = "sent"]
  /\ host' = [host EXCEPT !.cmd = Wire, !.arg = Argument, !.cmdInhibit = TRUE,
       !.datInhibit = @ \/ Wire \in BusyCommands \/ Wire \in DOMAIN DataCommands,
       !.dir = IF Wire \in DOMAIN DataCommands THEN DataCommands[Wire] ELSE "none",
       !.BLKCNT = IF Wire \notin DOMAIN DataCommands THEN @
                  ELSE IF Wire \in MultiCommands THEN call.num ELSE 1,
       !.fifo = << >>]
  /\ UNCHANGED <<card, disk, sd>>

(* The first half of sdSendCommandP, the command line being free: all      *)
(* interrupts are cleared, then the command is on its way.                 *)
Issue ==
  /\ call.at = "send" /\ ~host.cmdInhibit /\ host.ints \cap INT_ERROR_MASK = {}
  /\ call' = [call EXCEPT !.at = "sent"]
  /\ host' = [host EXCEPT !.ints = {}, !.cmd = Wire, !.arg = Argument, !.cmdInhibit = TRUE,
       !.datInhibit = @ \/ Wire \in BusyCommands \/ Wire \in DOMAIN DataCommands,
       !.dir = IF Wire \in DOMAIN DataCommands THEN DataCommands[Wire] ELSE "none",
       !.BLKCNT = IF Wire \notin DOMAIN DataCommands THEN @
                  ELSE IF Wire \in MultiCommands THEN call.num ELSE 1,
       !.fifo = << >>]
  /\ UNCHANGED <<card, disk, sd>>

(* sdWaitForInterrupt: what it returns for the bits it found, and what it  *)
(* leaves of them.                                                         *)
Waited(ints) ==
  IF ints \cap {"CTO_ERR", "DTO_ERR"} # {} THEN "TIMEOUT"
  ELSE IF ints \cap INT_ERROR_MASK # {} THEN "ERROR" ELSE "OK"
Cleared(mask) == IF Waited(host.ints) = "OK" THEN host.ints \ {mask} ELSE {}
Raised(mask) == host.ints \cap ({mask} \cup INT_ERROR_MASK) # {}

(* The second half of sdSendCommandP for a good answer: its result, and    *)
(* what sdCard learns.                                                     *)
Learned(cmd, reply) ==
  CASE Silent(cmd) -> sd
    [] cmd \in {"SEND_IF_COND", "ALL_SEND_CID", "SEND_CSD"} -> [sd EXCEPT !.APP_CMD = FALSE]
    [] cmd = "APP_SEND_OP_COND" ->
         [sd EXCEPT !.APP_CMD = FALSE, !.powered = reply.powered, !.capacity = reply.capacity,
                    !.voltage = reply.voltage,
                    !.type = IF ~reply.powered \/ ~reply.voltage THEN @
                             ELSE IF call.old THEN "TYPE_1"
                             ELSE IF reply.capacity THEN "TYPE_2_HC" ELSE "TYPE_2_SC"]
    [] cmd = "SEND_REL_ADDR" -> [sd EXCEPT !.APP_CMD = reply.APP_CMD, !.rca = TRUE]
    [] OTHER -> [sd EXCEPT !.APP_CMD = reply.APP_CMD]

Judged(cmd, reply) ==
  CASE Silent(cmd) \/ cmd \in {"APP_SEND_OP_COND", "ALL_SEND_CID", "SEND_CSD"} -> "OK"
    [] cmd = "SEND_IF_COND" -> IF reply.echo THEN "OK" ELSE "ERROR"
    [] OTHER -> IF reply.error THEN "ERROR" ELSE "OK"

(* Mutant of PrefixEnds: what became of APP_CMD is never looked at.        *)
PrefixEnds_Ignored(result) ==
  /\ call.prefix
  /\ call' = [call EXCEPT !.prefix = FALSE, !.at = "send"]

(* What follows a command that ended with result; sd' and host' are known. *)
PrefixEnds(result) ==
  /\ call.prefix
  /\ IF sd.rca /\ (result # "OK" \/ ~sd'.APP_CMD)
     THEN Return(IF result = "OK" THEN "ERROR" ELSE result)
     ELSE call' = [call EXCEPT !.prefix = FALSE, !.at = "send"]

GoIdleEnds(result) ==
  /\ call.cmd = "GO_IDLE_STATE"
  /\ IF result # "OK" THEN Return(result)
     ELSE call' = Send(call, IF call.old THEN "APP_SEND_OP_COND" ELSE "SEND_IF_COND")

(* No answer, or a wrong one, makes it an old card; a command line that is *)
(* still taken makes the driver reset once more.                           *)
IfCondEnds(result) ==
  /\ call.cmd = "SEND_IF_COND"
  /\ CASE result = "OK" -> call' = Send(call, "APP_SEND_OP_COND")
       [] result = "BUSY" -> Return("BUSY")
       [] OTHER -> call' = IF host'.cmdInhibit THEN [call EXCEPT !.old = TRUE, !.at = "reset"]
                           ELSE Send([call EXCEPT !.old = TRUE], "APP_SEND_OP_COND")

(* Mutant of OpCondEnds: one repetition too many.                          *)
OpCondEnds_OneMore(result) ==
  /\ call.cmd = "APP_SEND_OP_COND" /\ ~call.prefix
  /\ CASE result \notin {"OK", "TIMEOUT"} -> Return(result)
       [] result \in {"OK", "TIMEOUT"} /\ ~sd'.powered /\ call.tries <= Retries ->
            call' = Send([call EXCEPT !.tries = @ + 1], "APP_SEND_OP_COND")
       [] result \in {"OK", "TIMEOUT"} /\ ~sd'.powered /\ call.tries > Retries -> Return("TIMEOUT")
       [] OTHER -> call' = Send(call, "ALL_SEND_CID")

OpCondEnds(result) ==
  /\ call.cmd = "APP_SEND_OP_COND" /\ ~call.prefix
  /\ CASE result \notin {"OK", "TIMEOUT"} -> Return(result)
       [] result \in {"OK", "TIMEOUT"} /\ ~sd'.powered /\ call.tries < Retries ->
            call' = Send([call EXCEPT !.tries = @ + 1], "APP_SEND_OP_COND")
       [] result \in {"OK", "TIMEOUT"} /\ ~sd'.powered /\ call.tries = Retries -> Return("TIMEOUT")
       [] result \in {"OK", "TIMEOUT"} /\ sd'.powered /\ ~sd'.voltage -> Return("ERROR_VOLTAGE")
       [] OTHER -> call' = Send(call, "ALL_SEND_CID")

(* sdInitCard once the card has a type.  The widths a card supports are a  *)
(* set of bits, so that BUS_WIDTH_4 is a card that supports nothing else.  *)
IdentifyEnds(result) ==
  /\ call.op = "init" /\ ~call.prefix
  /\ call.cmd \in {"ALL_SEND_CID", "SEND_REL_ADDR", "SEND_CSD", "CARD_SELECT", "SEND_SCR",
                   "SET_BUS_WIDTH", "SET_BLOCKLEN"}
  /\ IF result # "OK" \/ call.cmd = "SET_BLOCKLEN" THEN Return(result)
     ELSE call' = CASE call.cmd = "ALL_SEND_CID"  -> Send(call, "SEND_REL_ADDR")
                    [] call.cmd = "SEND_REL_ADDR" -> Send(call, "SEND_CSD")
                    [] call.cmd = "SEND_CSD"      -> [call EXCEPT !.at = "clock"]
                    [] call.cmd = "CARD_SELECT"   -> [call EXCEPT !.at = "waitData"]
                    [] call.cmd = "SEND_SCR"      -> [call EXCEPT !.at = "scr"]
                    [] call.cmd = "SET_BUS_WIDTH" -> Send(call, "SET_BLOCKLEN")

TransferCommand ==
  CASE call.op = "read"  -> IF call.num = 1 THEN "READ_SINGLE" ELSE "READ_MULTI"
    [] call.op = "write" -> IF call.num = 1 THEN "WRITE_SINGLE" ELSE "WRITE_MULTI"
    [] call.op = "clear" -> "ERASE_WR_ST"
    [] call.op = "init"  -> "SEND_SCR"

Counted == call.num > 1 /\ sd.CMD_SUPPORT = 2

TransferEnds(result) ==
  /\ call.op \in {"read", "write", "clear"}
  /\ IF result # "OK" \/ call.cmd = "STOP_TRANS" THEN Return(result)
     ELSE call' = CASE call.cmd = "SET_BLOCKCNT"  -> Send(call, TransferCommand)
                    [] call.cmd = "ERASE_WR_ST"   -> Send(call, "ERASE_WR_END")
                    [] call.cmd = "ERASE_WR_END"  -> Send(call, "ERASE")
                    [] call.cmd = "ERASE"         -> [call EXCEPT !.at = "erase"]
                    [] OTHER                      -> [call EXCEPT !.at = "data"]

CommandEnds(result) ==
  \/ PrefixEnds(result) \/ GoIdleEnds(result) \/ IfCondEnds(result) \/ OpCondEnds(result)
  \/ IdentifyEnds(result) \/ TransferEnds(result)

(* sdWaitForCommand gives up: the command line is taken, or an error is    *)
(* still set, which it leaves set.                                         *)
Refused ==
  /\ call.at = "send" /\ (host.cmdInhibit \/ host.ints \cap INT_ERROR_MASK # {})
  /\ UNCHANGED <<host, card, disk, sd>>
  /\ CommandEnds("BUSY")

Answered ==
  /\ call.at = "sent" /\ Raised("CMD_DONE")
  /\ LET waited == Waited(host.ints)
         judged == IF waited = "OK" THEN Judged(Wire, host.reply) ELSE waited
         result == IF judged = "OK" /\ Wire \in AppCommands /\ sd'.rca /\ ~sd'.APP_CMD
                   THEN "ERROR_APP_CMD" ELSE judged
     IN /\ sd' = IF waited = "OK" THEN Learned(Wire, host.reply) ELSE sd
        /\ host' = [host EXCEPT !.ints = Cleared("CMD_DONE"), !.reply = NoReply,
                                !.wide = @ \/ (Wire = "SET_BUS_WIDTH" /\ result = "OK")]
        /\ CommandEnds(result)
  /\ UNCHANGED <<card, disk>>

AnswerLate ==
  /\ call.at = "sent"
  /\ host' = [host EXCEPT !.ints = {}, !.reply = NoReply]
  /\ UNCHANGED <<card, disk, sd>>
  /\ CommandEnds("TIMEOUT")

sdSetClock ==
  /\ call.at = "clock"
  /\ \/ Return("ERROR_CLOCK")
     \/ ~host.cmdInhibit /\ ~host.datInhibit /\ call' = Send(call, "CARD_SELECT")
  /\ UNCHANGED <<host, card, disk, sd>>

(* sdWaitForData, then the first command of a transfer.  An error that is  *)
(* set ends the wait and stays set.                                        *)
sdWaitForData ==
  /\ call.at = "waitData"
  /\ \/ /\ host.datInhibit \/ host.ints \cap INT_ERROR_MASK # {}
        /\ Return("TIMEOUT")
     \/ /\ ~host.datInhibit /\ host.ints \cap INT_ERROR_MASK = {}
        /\ call' = Send(call, IF call.op \in {"read", "write"} /\ Counted
                              THEN "SET_BLOCKCNT" ELSE TransferCommand)
  /\ UNCHANGED <<host, card, disk, sd>>

(* sdReadSCR after its command: the register, two words of it.  What the   *)
(* driver uses is in the first, which a time-out may leave stored.         *)
WithSCR == [sd EXCEPT !.CMD_SUPPORT = card.scr.CMD_SUPPORT, !.BUS_WIDTH = card.scr.BUS_WIDTH]

sdReadSCR ==
  /\ call.at = "scr" /\ Raised("READ_RDY")
  /\ host' = [host EXCEPT !.ints = Cleared("READ_RDY"), !.fifo = << >>]
  /\ \/ Waited(host.ints) # "OK" /\ Return(Waited(host.ints)) /\ UNCHANGED sd
     \/ /\ Waited(host.ints) = "OK" /\ Return("TIMEOUT")
        /\ sd' \in {sd, WithSCR}
     \/ /\ Waited(host.ints) = "OK"
        /\ sd' = WithSCR
        /\ call' = Send(call, IF sd'.BUS_WIDTH = 4 THEN "SET_BUS_WIDTH" ELSE "SET_BLOCKLEN")
  /\ UNCHANGED <<card, disk>>

(* One round of the loop of sdTransferBlocks: wait for the block to be     *)
(* ready, then move it.  After the last one a write waits for DATA_DONE,   *)
(* and a multi-block transfer the card did not count is stopped.           *)
NextBlock(c) ==
  IF c.done < c.num THEN c
  ELSE IF c.op = "write" THEN [c EXCEPT !.at = "done"]
  ELSE IF c.num > 1 /\ ~Counted THEN Send(c, "STOP_TRANS")
  ELSE Returned(c, "OK")

MoveBlock ==
  LET ready == IF call.op = "write" THEN "WRITE_RDY" ELSE "READ_RDY"
  IN /\ call.at = "data" /\ Raised(ready)
     /\ \/ /\ Waited(host.ints) # "OK"
           /\ Return(Waited(host.ints))
           /\ host' = [host EXCEPT !.ints = Cleared(ready)]
        \/ /\ Waited(host.ints) = "OK" /\ call.op = "read"
           /\ host' = [host EXCEPT !.ints = Cleared(ready), !.fifo = << >>]
           /\ call' = NextBlock([call EXCEPT !.done = @ + 1, !.buffer = @ \o host.fifo])
        \/ /\ Waited(host.ints) = "OK" /\ call.op = "write"
           /\ host' = [host EXCEPT !.ints = Cleared(ready), !.fifo = <<call.buffer[call.done + 1]>>]
           /\ call' = NextBlock([call EXCEPT !.done = @ + 1])
     /\ UNCHANGED <<card, disk, sd>>

DataDone ==
  /\ call.at = "done" /\ Raised("DATA_DONE")
  /\ host' = [host EXCEPT !.ints = Cleared("DATA_DONE")]
  /\ \/ Waited(host.ints) # "OK" /\ Return(Waited(host.ints))
     \/ Waited(host.ints) = "OK" /\ call.num > 1 /\ ~Counted /\ call' = Send(call, "STOP_TRANS")
     \/ Waited(host.ints) = "OK" /\ (call.num = 1 \/ Counted) /\ Return("OK")
  /\ UNCHANGED <<card, disk, sd>>

DataLate ==
  /\ call.at \in {"scr", "data", "done"}
  /\ host' = [host EXCEPT !.ints = {}]
  /\ Return("TIMEOUT")
  /\ UNCHANGED <<card, disk, sd>>

EraseEnds ==
  /\ call.at = "erase"
  /\ Return(IF host.datInhibit THEN "TIMEOUT" ELSE "OK")
  /\ UNCHANGED <<host, card, disk, sd>>

Driver ==
  /\ \/ sdResetCard \/ Issue \/ Refused \/ Answered \/ AnswerLate \/ sdSetClock \/ sdWaitForData
     \/ sdReadSCR \/ MoveBlock \/ DataDone \/ DataLate \/ EraseEnds
  /\ UNCHANGED meant

(* The calls of a program that knows the size of the card, and that leaves *)
(* alone the blocks of a card taken for one of version 1.                  *)
Requests ==
  \/ sdInitCard
  \/ \E t \in Transfers : sdcard_read(t[1], t[2])
  \/ /\ sd.type # "TYPE_1"
     /\ \/ \E t \in Transfers : sdcard_write(t[1], [i \in 1 .. t[2] |-> New(t[1] + i - 1)])
        \/ \E t \in Erasures : sdClearBlocks(t[1], t[2])

-----------------------------------------------------------------------------
EmmcTypeOK ==
  /\ host.ints \subseteq Ints /\ host.BLKCNT \in 0 .. MaxBlock + 1 /\ Len(host.fifo) <= 1
  /\ sd \in SDDescriptor /\ call.result \in SDResults /\ call.tries \in 0 .. Retries
  /\ call.done \in 0 .. call.num
  /\ disk \in [Blocks -> 0 .. Erased]

(* A read or a write that returns OK moved every block asked for, in       *)
(* order, between the buffer and its place on the card, whatever failed    *)
(* before it.  A card taken for one of version 1 is left out: it is given  *)
(* a block's number for the address of a byte.                             *)
TransferWhole ==
  call.at = "idle" /\ call.result = "OK" /\ call.op \in {"read", "write"} /\ sd.type # "TYPE_1"
    => call.buffer = [i \in 1 .. call.num |-> disk[call.start + i - 1]]

(* A block holds what it held first or what a call asked it to hold, after *)
(* transfers that failed half-way, too.  The one exception: sdClearBlocks  *)
(* names the block behind its last one as the end of the erasure, which    *)
(* takes that one as well (emmc.c:1428), so that a block nobody asked to   *)
(* erase may be erased with the one before it.                             *)
OneTooMany(b) == b > 0 /\ Erased \in meant[b - 1]
NothingMisplaced ==
  \A b \in Blocks : disk[b] \in meant[b] \/ (disk[b] = Erased /\ OneTooMany(b))

(* After sdInitCard returned OK the card is selected, has its block length *)
(* and uses as many lines as the host, and no command meant for an         *)
(* application command was taken for another.                              *)
Initialised ==
  /\ call.at = "idle" /\ call.op = "init" /\ call.result = "OK"
       => card.state = "tran" /\ card.blockLen /\ card.wide = host.wide /\ sd.type # "UNKNOWN"
  /\ ~card.misread

(* The card is brought up within the rounds that sdInitCard has, and is    *)
(* then what the program takes it for.                                     *)
CardSound == EmmcTypeOK /\ Initialised
=============================================================================
