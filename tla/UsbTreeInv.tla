----------------------------- MODULE UsbTreeInv -----------------------------
(***************************************************************************)
(* The inductive invariant of module UsbTree, and the steps after which    *)
(* every device and every port is as before, but for changes that were     *)
(* seen and what the program has read.                                     *)
(*                                                                         *)
(* The functions call one another recursively: a request that fails has    *)
(* the port of its device looked at, which may free devices that calls     *)
(* further out are working on.  TreeInv says why it does not.              *)
(*   Stack      the calls go down the tree, but for the reset of a         *)
(*              device's own port and the check of a failed request, and   *)
(*              these call nothing that goes down again;                   *)
(*   Paths      the ports on the way to the device of each call are        *)
(*              enabled and have no change to be seen, so that the check   *)
(*              finds nothing to drop on the way to any of them;           *)
(*   Knowledge  what a call may rely on at each of its places, of the      *)
(*              port and the device it works on, and what it is answered   *)
(*              only when a device was given up;                           *)
(*   Elsewhere  what is so of devices and ports that no call works on: a   *)
(*              port that was switched off under a device has a change     *)
(*              that tells of it, and a hub has a device on just the ports *)
(*              where one is plugged.                                      *)
(* Tree and Table are what memory and the table have to do with these; a   *)
(* device and its number are parted in the middle of an attach.            *)
(*                                                                         *)
(* Facts about ways, the stack and the tree come first; then how the       *)
(* actions move the stack, and that a step in a calm world keeps the       *)
(* invariant when the innermost calls keep their part of it; then the      *)
(* actions that are such steps.                                            *)
(***************************************************************************)
EXTENDS UsbTree, FiniteSetTheorems, SequenceTheorems, WellFoundedInduction, TLAPS

(* The ports on the way to a position, its own included.                   *)
Way(q) == {SubSeq(q, 1, k) : k \in 1 .. Len(q)}

(* Where the device of a call is, the port it works on, and what is there. *)
PosOf(k)  == dev[frames[k].dev].pos
PortOf(k) == Append(PosOf(k), frames[k].port)
On(k)     == dev[frames[k].dev].children[frames[k].port]

Early == {"describe", "described", "rereset", "address", "addressed"}
Late  == {"describe2", "described2", "strings", "configure", "configured", "strings2", "driver", "end"}
Done  == {"Addressed", "Configured"}

Places ==
  [CheckConnection   |-> {"status", "got", "enable", "clear_enable", "interference", "others", "clear", "done"},
   ConnectionChanged |-> {"status", "got", "clear", "decide", "reset", "was_reset", "allocate", "status_new",
                          "got_new", "attached", "disable", "failed"},
   PortReset         |-> {"set", "was_set", "wait", "look", "retry", "clear", "done"},
   Verify            |-> {"check", "checked"},
   Attach            |-> {"begin"} \cup Early \cup Late,
   HubAttach         |-> {"begin", "describe", "described", "status", "got", "power", "status_again", "got_again", "port"},
   CheckForChange    |-> {"port", "checked"}]

OnPort == {"CheckConnection", "ConnectionChanged", "PortReset", "Verify"}

FrameType == [proc : OnPort \cup {"Attach", "HubAttach", "CheckForChange"}, at : UNION {Places[proc] : proc \in DOMAIN Places},
              dev : DevIds, port : Nat, n : Nat]

(* A call is at a place of its function, and has a device and a port.      *)
FrameOK(k) ==
  LET f == frames[k] IN
  /\ f.at \in Places[f.proc] /\ f.dev \in Live
  /\ f.proc \in OnPort \/ (f.proc = "CheckForChange" /\ f.at = "checked") => f.port \in 1 .. dev[f.dev].maxChildren
  /\ f.proc \in {"HubAttach", "CheckForChange"} => f.port >= 1

Types ==
  /\ TypeOK
  /\ frames \in Seq(FrameType)
  /\ \A k \in 1 .. Len(frames) : FrameOK(k)

(* The tree, as the positions tell it.                                     *)
Rooted    == 1 \in Live /\ dev[1].pos = <<>> /\ dev[1].parent = Null /\ devices[1] = 1
FreeIsNew == \A d \in DevIds \ Live : dev[d] = Free
Children  == \A d \in Live, i \in PortNums :
               dev[d].children[i] # Null =>
                 /\ dev[d].children[i] \in Live /\ dev[dev[d].children[i]].pos = Append(dev[d].pos, i)
                 /\ i <= dev[d].maxChildren
OnePlace  == \A d, e \in Live : dev[d].pos = dev[e].pos => d = e
Hooked    == \A d \in Live : dev[d].pos # <<>> => \E e \in Live, i \in PortNums : dev[e].children[i] = d
Parents   == \A d \in Live : dev[d].parent # Null =>
               /\ dev[d].parent \in Live /\ dev[d].port \in PortNums
               /\ dev[dev[d].parent].children[dev[d].port] = d
Parented  == \A d \in Live : dev[d].pos # <<>> => dev[d].status = "Attached" \/ dev[d].parent # Null

Tree == Rooted /\ FreeIsNew /\ Children /\ OnePlace /\ Hooked /\ Parents /\ Parented

Numbered == \A d \in Live : dev[d].number # 0 => dev[d].number \in Slots /\ devices[dev[d].number] = d
OneSlot  == ~gaveUp => /\ \A s \in Slots : devices[s] \in Live \cup {Null}
                       /\ \A d \in Live : \E s \in Slots : devices[s] = d
                       /\ \A s, t \in Slots : devices[s] = devices[t] /\ devices[s] # Null => s = t

Table == Numbered /\ OneSlot

(* The stack: who calls whom, and that the calls go down the tree, but for *)
(* the reset of a device's own port and the checks of a failed request,    *)
(* which climb.                                                            *)
Asked(k) == \E q \in Requests : frames[k].proc = q[1] /\ frames[k].at = q[4]

Calls(k) ==
  LET f == frames[k]
      g == frames[k + 1]
      same == g.dev = f.dev /\ g.port = f.port
  IN
  CASE g.proc = "Verify"            -> Asked(k) /\ PortOf(k + 1) = PosOf(k)
    [] g.proc = "CheckConnection"   -> \/ f.proc = "Verify" /\ f.at = "checked" /\ same
                                       \/ f.proc = "HubAttach" /\ f.at = "port" /\ g.dev = f.dev
                                       \/ f.proc = "CheckForChange" /\ f.at = "checked" /\ same
    [] g.proc = "ConnectionChanged" -> f.proc = "CheckConnection" /\ f.at \in {"enable", "others"} /\ same
    [] g.proc = "PortReset"         -> \/ f.proc = "ConnectionChanged" /\ f.at = "was_reset" /\ same
                                       \/ f.proc = "Attach" /\ f.at = "rereset" /\ PortOf(k + 1) = PosOf(k)
    [] g.proc = "Attach"            -> f.proc = "ConnectionChanged" /\ f.at = "attached" /\ PosOf(k + 1) = PortOf(k)
    [] g.proc = "HubAttach"         -> f.proc = "Attach" /\ f.at = "end" /\ g.dev = f.dev
    [] g.proc = "CheckForChange"    -> /\ f.proc = "CheckForChange" /\ f.at = "port"
                                       /\ \E i \in PortNums : PosOf(k + 1) = Append(PosOf(k), i)

Climbing(k) == frames[k].proc \in {"Verify", "PortReset"}
Down(k)     == \A j \in 1 .. k : ~Climbing(j)

First  == frames # <<>> => frames[1].proc \in {"Attach", "CheckForChange"} /\ frames[1].dev = 1
Links  == \A k \in 1 .. Len(frames) - 1 : Calls(k)
Climbs == \A j, k \in 1 .. Len(frames) :
            j < k /\ Climbing(j) => frames[k].proc \in {"Verify", "CheckConnection"}
Chain  == \A j, k \in 1 .. Len(frames) : j <= k /\ Down(k) => Way(PosOf(j)) \subseteq Way(PosOf(k))

Stack == First /\ Links /\ Climbs /\ Chain

(* The ways to the devices of the calls are open, and their changes seen,  *)
(* but for a device that is reset once more.                               *)
Settled(q) == Way(q) \subseteq enabled \ connChange

Rereset(k) == frames[k].proc = "Attach" /\ frames[k].at = "rereset"

Open(k) ==
  IF Rereset(k)
  THEN PosOf(k) # <<>> /\ Way(PosOf(k)) \ {PosOf(k)} \subseteq enabled /\ Way(PosOf(k)) \cap connChange = {}
  ELSE Settled(PosOf(k))

Paths == \A k \in 1 .. Len(frames) : Open(k)

(* What a call knows at its places, as the innermost one or while a        *)
(* request of its own that failed is looked into.                          *)
IsTop(k)    == k = Len(frames)
Asking(k)   == k < Len(frames) /\ frames[k + 1].proc = "Verify"
GotOK(k)    == IsTop(k) /\ result = "ok"
GotError(k) == (IsTop(k) /\ result # "ok") \/ Asking(k)

Fresh(p)   == status[p] = PortStatus(p)
Reports(p) == Below(p) \cap plugged \subseteq connChange
Up(p)      == p \in enabled /\ status[p].en /\ status[p].conn
Bare(d)    == ~dev[d].hub /\ dev[d].maxChildren = 0

KnowsCheck(k) ==
  LET at == frames[k].at p == PortOf(k) IN
  frames[k].proc = "CheckConnection" /\ (IsTop(k) \/ Asking(k)) =>
    /\ at = "got" /\ GotOK(k) => Fresh(p)
    /\ at \in {"enable", "clear_enable", "interference", "others", "clear", "done"} => p \notin connChange
    /\ at \in {"enable", "clear_enable", "interference"} /\ On(k) # Null =>
         /\ p \in plugged /\ status[p].conn
         /\ status[p].en <=> p \in enabled
         /\ at = "interference" \/ p \in enabled \/ status[p].enCh
    /\ at \in {"others", "clear", "done"} /\ On(k) # Null => p \in enabled

KnowsChanged(k) ==
  LET at == frames[k].at p == PortOf(k) c == On(k) IN
  frames[k].proc = "ConnectionChanged" =>
    /\ at \in {"status", "got", "clear", "decide", "reset", "allocate"} => IsTop(k)
    /\ at = "got" => result = "ok"
    /\ at \in {"status", "got", "clear", "decide"} /\ c # Null => dev[c].number # 0 /\ (dev[c].status \in Done \/ gaveUp)
    /\ at \in {"got", "clear"} => Fresh(p)
    /\ at = "decide" => p \notin connChange /\ (status[p].conn <=> p \in plugged) /\ (status[p].en <=> p \in enabled)
    /\ at \notin {"status", "got", "clear", "decide"} => p \notin connChange /\ p \in plugged
    /\ at \in {"reset", "was_reset", "allocate", "disable", "failed"} => c = Null
    /\ at \in {"allocate", "status_new", "got_new"} => Up(p) /\ Reports(p)
    /\ at \in {"status_new", "got_new"} =>
         c # Null /\ Bare(c) /\ dev[c].status = "Attached" /\ dev[c].parent = Null /\ dev[c].number # 0
    /\ at = "attached" => c # Null /\ dev[c].parent # Null
    /\ at \in {"disable", "failed"} => gaveUp
    /\ at = "was_reset" /\ GotOK(k) => Up(p) /\ Reports(p)
    /\ at = "attached" /\ GotOK(k) => Up(p) /\ dev[c].status \in Done
    /\ at \in {"was_reset", "got_new", "attached"} /\ GotError(k) => gaveUp

KnowsReset(k) ==
  LET at == frames[k].at p == PortOf(k) IN
  frames[k].proc = "PortReset" =>
    /\ p \in plugged /\ p \notin connChange
    /\ at \in {"wait", "look", "retry", "clear", "done"} \/ (at = "was_set" /\ GotOK(k)) => Reports(p)
    /\ at \in {"was_set", "look"} /\ GotError(k) => gaveUp
    /\ at = "look" /\ GotOK(k) => Fresh(p)
    /\ at \in {"clear", "done"} => Up(p)

KnowsAttach(k) ==
  LET at == frames[k].at q == PosOf(k) d == frames[k].dev IN
  frames[k].proc = "Attach" =>
    /\ q # <<>> => dev[d].parent # Null /\ q \in plugged /\ (at # "rereset" => Up(q))
    /\ at # "end" => Bare(d) /\ Reports(q)
    /\ at = "begin" => dev[d].number # 0 /\ dev[d].status \in {"Attached", "Powered"}
    /\ at \in Early => /\ dev[d].number = 0 /\ frames[k].n \in Slots /\ devices[frames[k].n] = d
                       /\ dev[d].status \in {"Attached", "Powered", "Default"}
    /\ at \in Late => dev[d].number # 0 /\ dev[d].status \in Done
    /\ at \in {"described", "addressed", "described2", "rereset"} /\ GotError(k) => gaveUp /\ q # <<>>
    /\ at = "rereset" /\ GotOK(k) => Up(q)

KnowsHub(k) ==
  LET at == frames[k].at d == frames[k].dev IN
  frames[k].proc = "HubAttach" =>
    /\ dev[d].status \in Done
    /\ at \in {"begin", "describe", "described"} => dev[d].maxChildren = 0 /\ Reports(PosOf(k))
    /\ at # "port" => \A i \in PortNums : dev[d].children[i] = Null

KnowsWalk(k) ==
  frames[k].proc = "CheckForChange" /\ frames[k].at = "checked" /\ GotOK(k) /\ On(k) # Null =>
    PortOf(k) \in enabled \ connChange

Knows(k) == KnowsCheck(k) /\ KnowsChanged(k) /\ KnowsReset(k) /\ KnowsAttach(k) /\ KnowsHub(k) /\ KnowsWalk(k)

Knowledge == \A k \in 1 .. Len(frames) : Knows(k)

(* What is so of the ports that no call is changing.                       *)
InHand(p) == \E k \in 1 .. Len(frames) : frames[k].proc = "ConnectionChanged" /\ PortOf(k) = p

Cleared(p) == LET n == Len(frames) IN
  n > 0 /\ frames[n].proc = "CheckConnection" /\ frames[n].at = "interference" /\ PortOf(n) = p

Off == \A d \in Live : LET q == dev[d].pos IN
  Way(q) \ {q} \subseteq enabled /\ q \notin enabled /\ q # <<>> =>
    q \in connChange \cup enableChange \/ InHand(q) \/ Cleared(q)

SeenOf(d) ==
  dev[d].hub /\ Way(dev[d].pos) \subseteq enabled =>
    \A i \in 1 .. dev[d].maxChildren :
      LET p == Append(dev[d].pos, i) IN
      p \notin connChange /\ ~InHand(p) =>
        /\ dev[d].children[i] # Null => p \in plugged
        /\ p \in plugged /\ ~gaveUp => dev[d].children[i] # Null

Seen == \A d \in Live : SeenOf(d)

EarlyNow(d) == \E k \in 1 .. Len(frames) : frames[k].proc = "Attach" /\ frames[k].at \in Early /\ frames[k].dev = d

AddressedIs(d) ==
  /\ dev[d].number = 0 => EarlyNow(d)
  /\ \/ dev[d].status \in Done
     \/ d = 1 /\ frames # <<>> /\ frames[1].proc = "Attach"
     \/ InHand(dev[d].pos)
     \/ dev[d].status = "Attached" /\ dev[d].parent = Null /\ gaveUp

Addressed == \A d \in Live : AddressedIs(d)

Elsewhere == Off /\ Seen /\ Addressed

TreeInv == Types /\ Tree /\ Table /\ Stack /\ Paths /\ Knowledge /\ Elsewhere

-----------------------------------------------------------------------------
(* Facts about ways.                                                       *)
LEMMA PrefixIs ==
  ASSUME NEW q \in Seq(Nat), NEW k \in 1 .. Len(q)
  PROVE  /\ SubSeq(q, 1, k) \in Seq(Nat) /\ Len(SubSeq(q, 1, k)) = k
         /\ \A i \in 1 .. k : SubSeq(q, 1, k)[i] = q[i]
<1>1. k \in Int /\ 1 \in Int /\ \A i \in 1 .. k : q[i] \in Nat  OBVIOUS
<1>2. /\ SubSeq(q, 1, k) \in Seq(Nat) /\ Len(SubSeq(q, 1, k)) = IF 1 <= k THEN k - 1 + 1 ELSE 0
      /\ \A i \in 1 .. k - 1 + 1 : SubSeq(q, 1, k)[i] = q[1 + i - 1]
  BY <1>1, SubSeqProperties, SMTT(20)
<1>3. 1 <= k /\ k - 1 + 1 = k /\ \A i \in 1 .. k : 1 + i - 1 = i  OBVIOUS
<1> QED  BY <1>2, <1>3

LEMMA WayIs ==
  ASSUME NEW q \in Seq(Nat), NEW p \in Way(q)
  PROVE  /\ p \in Seq(Nat) /\ Len(p) \in 1 .. Len(q) /\ p = SubSeq(q, 1, Len(p)) /\ p # << >>
         /\ Len(p) = Len(q) => p = q
<1>1. PICK k \in 1 .. Len(q) : p = SubSeq(q, 1, k)  BY DEF Way
<1>2. p \in Seq(Nat) /\ Len(p) = k /\ k \in Nat \ {0}  BY <1>1, PrefixIs
<1>3. SubSeq(q, 1, Len(q)) = q  BY SubSeqFull
<1>4. p # << >>  BY <1>2, EmptySeq
<1> QED  BY <1>1, <1>2, <1>3, <1>4

LEMMA WayEnds == ASSUME NEW q \in Seq(Nat), q # << >> PROVE q \in Way(q)
<1>1. SubSeq(q, 1, Len(q)) = q /\ Len(q) \in 1 .. Len(q)  BY SubSeqFull
<1> QED  BY <1>1 DEF Way

LEMMA WayOfNothing == Way(<< >>) = {}
  BY EmptySeq DEF Way

LEMMA WayGoesOn ==
  ASSUME NEW q \in Seq(Nat), NEW i \in Nat
  PROVE  Way(Append(q, i)) = Way(q) \cup {Append(q, i)}
<1> DEFINE r == Append(q, i)
<1>1. /\ r \in Seq(Nat) /\ Len(r) = Len(q) + 1 /\ r # << >>
      /\ \A j \in 1 .. Len(q) : r[j] = q[j]
  BY AppendProperties
<1> HIDE DEF r
<1>2. ASSUME NEW k \in 1 .. Len(q)  PROVE SubSeq(r, 1, k) = SubSeq(q, 1, k)
  <2>1. /\ SubSeq(q, 1, k) \in Seq(Nat) /\ Len(SubSeq(q, 1, k)) = k
        /\ \A j \in 1 .. k : SubSeq(q, 1, k)[j] = q[j]
    BY PrefixIs
  <2>2. k \in 1 .. Len(r)  BY <1>1
  <2>3. /\ SubSeq(r, 1, k) \in Seq(Nat) /\ Len(SubSeq(r, 1, k)) = k
        /\ \A j \in 1 .. k : SubSeq(r, 1, k)[j] = r[j]
    BY <1>1, <2>2, PrefixIs
  <2> QED  BY <1>1, <2>1, <2>3, SeqEqual
<1>3. SubSeq(r, 1, Len(q) + 1) = r  BY <1>1, SubSeqFull
<1>4. \A p : p \in Way(r) <=> p \in Way(q) \/ p = r
  <2>1. Len(q) \in Nat  OBVIOUS
  <2>2. ASSUME NEW p \in Way(r)  PROVE p \in Way(q) \/ p = r
    <3>1. PICK k \in 1 .. Len(r) : p = SubSeq(r, 1, k)  BY DEF Way
    <3>2. k \in 1 .. Len(q) \/ k = Len(q) + 1  BY <1>1, <2>1
    <3> QED  BY <1>2, <1>3, <3>1, <3>2 DEF Way
  <2>3. ASSUME NEW p \in Way(q)  PROVE p \in Way(r)
    <3>1. PICK k \in 1 .. Len(q) : p = SubSeq(q, 1, k)  BY DEF Way
    <3>2. k \in 1 .. Len(r)  BY <1>1, <2>1
    <3> QED  BY <1>2, <3>1, <3>2 DEF Way
  <2> QED  BY <1>1, <2>2, <2>3, WayEnds
<1> QED  BY <1>4 DEF r

LEMMA WayOfWay ==
  ASSUME NEW r \in Seq(Nat), NEW q \in Way(r), NEW p \in Way(q)
  PROVE  p \in Way(r)
<1>1. /\ q \in Seq(Nat) /\ Len(q) \in 1 .. Len(r) /\ q = SubSeq(r, 1, Len(q))  BY WayIs
<1>2. /\ p \in Seq(Nat) /\ Len(p) \in 1 .. Len(q) /\ p = SubSeq(q, 1, Len(p))  BY <1>1, WayIs
<1>3. Len(p) \in 1 .. Len(r)  BY <1>1, <1>2
<1>4. \A j \in 1 .. Len(q) : q[j] = r[j]  BY <1>1, PrefixIs
<1>5. \A j \in 1 .. Len(p) : p[j] = q[j] /\ j \in 1 .. Len(q)  BY <1>1, <1>2, PrefixIs
<1>6. /\ SubSeq(r, 1, Len(p)) \in Seq(Nat) /\ Len(SubSeq(r, 1, Len(p))) = Len(p)
      /\ \A j \in 1 .. Len(p) : SubSeq(r, 1, Len(p))[j] = r[j]
  BY <1>3, PrefixIs
<1>7. p = SubSeq(r, 1, Len(p))  BY <1>2, <1>4, <1>5, <1>6, SeqEqual
<1> QED  BY <1>3, <1>7 DEF Way

(* Of two ways to one position one goes on from the other.                 *)
LEMMA OneWay ==
  ASSUME NEW r \in Seq(Nat), NEW q \in Way(r), NEW p \in Way(r), Len(p) <= Len(q)
  PROVE  p \in Way(q)
<1>1. /\ q \in Seq(Nat) /\ Len(q) \in 1 .. Len(r) /\ q = SubSeq(r, 1, Len(q))  BY WayIs
<1>2. /\ p \in Seq(Nat) /\ Len(p) \in 1 .. Len(r) /\ p = SubSeq(r, 1, Len(p))  BY WayIs
<1>3. Len(p) \in 1 .. Len(q)  BY <1>1, <1>2
<1>4. \A j \in 1 .. Len(q) : q[j] = r[j]  BY <1>1, PrefixIs
<1>5. \A j \in 1 .. Len(p) : p[j] = r[j] /\ j \in 1 .. Len(q)  BY <1>1, <1>2, <1>3, PrefixIs
<1>6. /\ SubSeq(q, 1, Len(p)) \in Seq(Nat) /\ Len(SubSeq(q, 1, Len(p))) = Len(p)
      /\ \A j \in 1 .. Len(p) : SubSeq(q, 1, Len(p))[j] = q[j]
  BY <1>1, <1>3, PrefixIs
<1>7. p = SubSeq(q, 1, Len(p))  BY <1>2, <1>4, <1>5, <1>6, SeqEqual
<1> QED  BY <1>3, <1>7 DEF Way

(* Facts about positions.                                                  *)
LEMMA PositionIs == ASSUME NEW p \in Positions PROVE p \in Seq(Nat) /\ PortCount[p] \in Nat
<1>1. p \in Seq(Nat \ {0}) /\ PortCount[p] \in Nat  BY TopologyAssumption
<1>2. p \in Seq(Nat)
  <2>1. \A i \in 1 .. Len(p) : p[i] \in Nat  BY <1>1
  <2> QED  BY <1>1, <2>1
<1> QED  BY <1>1, <1>2

LEMMA LastIs ==
  ASSUME NEW p \in Seq(Nat), NEW i \in Nat
  PROVE  Last(Append(p, i)) = i /\ Front(Append(p, i)) = p
<1>1. /\ Append(p, i) \in Seq(Nat) /\ Len(Append(p, i)) = Len(p) + 1 /\ Append(p, i)[Len(p) + 1] = i
      /\ Len(p) \in Nat /\ \A j \in 1 .. Len(p) : Append(p, i)[j] = p[j]
  BY AppendProperties
<1>2. Last(Append(p, i)) = i  BY <1>1 DEF Last
<1>3. Front(Append(p, i)) = SubSeq(Append(p, i), 1, Len(p))  BY <1>1 DEF Front
<1>4. CASE Len(p) = 0
  <2>1. p = << >>  BY <1>4, EmptySeq
  <2>2. SubSeq(Append(p, i), 1, Len(p)) = << >>  BY <1>4, SubSeqEmpty, 0 < 1
  <2> QED  BY <1>2, <1>3, <2>1, <2>2
<1>5. CASE Len(p) # 0
  <2>1. Len(p) \in 1 .. Len(Append(p, i))  BY <1>1, <1>5
  <2>2. /\ SubSeq(Append(p, i), 1, Len(p)) \in Seq(Nat) /\ Len(SubSeq(Append(p, i), 1, Len(p))) = Len(p)
        /\ \A j \in 1 .. Len(p) : SubSeq(Append(p, i), 1, Len(p))[j] = Append(p, i)[j]
    BY <1>1, <2>1, PrefixIs
  <2>3. SubSeq(Append(p, i), 1, Len(p)) = p  BY <1>1, <2>2, SeqEqual
  <2> QED  BY <1>2, <1>3, <2>3
<1> QED  BY <1>4, <1>5

LEMMA PortIs ==
  ASSUME NEW p \in Positions, NEW i \in 1 .. PortCount[p]
  PROVE  /\ Append(p, i) \in Ports /\ i \in PortNums /\ i \in Nat \ {0}
         /\ Way(Append(p, i)) = Way(p) \cup {Append(p, i)}
         /\ Append(p, i) \notin Way(p) /\ Append(p, i) # p
<1>1. p \in Seq(Nat) /\ PortCount[p] \in Nat  BY PositionIs
<1>2. i \in Nat \ {0}  BY <1>1
<1>3. /\ Append(p, i) \in Seq(Nat) /\ Append(p, i) # << >> /\ Len(Append(p, i)) = Len(p) + 1 /\ Len(p) \in Nat
      /\ Last(Append(p, i)) = i
  BY <1>1, <1>2, AppendProperties, LastIs
<1>4. Append(p, i) \in Ports  BY <1>3, TopologyAssumption DEF Ports
<1>5. i \in PortNums  BY <1>3, <1>4 DEF PortNums
<1>6. Append(p, i) \notin Way(p)
  <2> SUFFICES ASSUME Append(p, i) \in Way(p)  PROVE FALSE
    OBVIOUS
  <2>1. Len(Append(p, i)) \in 1 .. Len(p)  BY <1>1, WayIs
  <2> QED  BY <1>3, <2>1
<1> QED  BY <1>1, <1>2, <1>3, <1>4, <1>5, <1>6, WayGoesOn

LEMMA SamePort ==
  ASSUME NEW p \in Positions, NEW i \in Nat, NEW q \in Positions, NEW j \in Nat, Append(p, i) = Append(q, j)
  PROVE  p = q /\ i = j
  BY PositionIs, AppendInjective

LEMMA BelowIs == ASSUME NEW p \in Ports PROVE \A q \in Ports : q \in Below(p) <=> p \in Way(q) /\ q # p
<1>1. p \in Seq(Nat) /\ p # << >>  BY PositionIs DEF Ports
<1>2. Len(p) \in Nat \ {0}  BY <1>1, EmptySeq
<1> SUFFICES ASSUME NEW q \in Ports  PROVE q \in Below(p) <=> p \in Way(q) /\ q # p
  OBVIOUS
<1>3. q \in Seq(Nat)  BY PositionIs DEF Ports
<1>4. ASSUME q \in Below(p)  PROVE p \in Way(q) /\ q # p
  <2>1. Len(q) > Len(p) /\ SubSeq(q, 1, Len(p)) = p  BY <1>4 DEF Below
  <2>2. Len(p) \in 1 .. Len(q) /\ Len(q) # Len(p)  BY <1>2, <1>3, <2>1
  <2>3. p \in Way(q)  BY <2>1, <2>2 DEF Way
  <2> QED  BY <2>2, <2>3
<1>5. ASSUME p \in Way(q), q # p  PROVE q \in Below(p)
  <2>1. Len(p) \in 1 .. Len(q) /\ p = SubSeq(q, 1, Len(p)) /\ (Len(p) = Len(q) => p = q)  BY <1>3, <1>5, WayIs
  <2>2. Len(q) > Len(p)  BY <1>2, <1>3, <1>5, <2>1
  <2> QED  BY <2>1, <2>2 DEF Below
<1> QED  BY <1>4, <1>5

LEMMA BelowNext ==
  ASSUME NEW p \in Positions, NEW i \in 1 .. PortCount[p]
  PROVE  Append(p, i) \in Below(p)
<1>1. p \in Seq(Nat) /\ i \in Nat /\ Append(p, i) \in Ports  BY PositionIs, PortIs
<1>2. Len(Append(p, i)) = Len(p) + 1 /\ Len(p) \in Nat  BY <1>1, AppendProperties
<1>3. SubSeq(Append(p, i), 1, Len(p)) = p
  <2>1. Front(Append(p, i)) = p  BY <1>1, LastIs
  <2>2. Len(Append(p, i)) - 1 = Len(p)  BY <1>2
  <2> QED  BY <2>1, <2>2 DEF Front
<1>4. Len(Append(p, i)) > Len(p)  BY <1>2
<1> QED  BY <1>1, <1>3, <1>4 DEF Below

LEMMA ReachableIs == ASSUME NEW q \in Positions PROVE Reachable(q) <=> Way(q) \subseteq enabled
  BY DEF Reachable, Way

-----------------------------------------------------------------------------
(* The stack.                                                              *)
LEMMA FramesAre ==
  ASSUME frames \in Seq(FrameType), frames # << >>
  PROVE  /\ Len(frames) \in Nat \ {0} /\ Top = frames[Len(frames)] /\ Top \in FrameType
         /\ \A k \in 1 .. Len(frames) : frames[k] \in FrameType
         /\ Len(frames) \in 1 .. Len(frames)
<1>1. Len(frames) \in Nat /\ Len(frames) # 0  BY EmptySeq
<1>2. Len(frames) \in 1 .. Len(frames)  BY <1>1
<1>3. Top = frames[Len(frames)]  BY DEF Top, Last
<1> QED  BY <1>1, <1>2, <1>3

LEMMA FrontIs ==
  ASSUME frames \in Seq(FrameType), frames # << >>
  PROVE  /\ Front(frames) \in Seq(FrameType) /\ Len(Front(frames)) = Len(frames) - 1
         /\ \A k \in 1 .. Len(frames) - 1 : Front(frames)[k] = frames[k]
<1> DEFINE m == Len(frames) - 1
<1>1. Len(frames) \in Nat \ {0} /\ m \in Nat  BY FramesAre
<1>2. \A k \in 1 .. m : frames[k] \in FrameType  BY <1>1, FramesAre
<1>3. Front(frames) = SubSeq(frames, 1, m)  BY DEF Front
<1> HIDE DEF m
<1>4. /\ SubSeq(frames, 1, m) \in Seq(FrameType)
      /\ Len(SubSeq(frames, 1, m)) = IF 1 <= m THEN m - 1 + 1 ELSE 0
      /\ \A k \in 1 .. m - 1 + 1 : SubSeq(frames, 1, m)[k] = frames[1 + k - 1]
  BY <1>1, <1>2, SubSeqProperties
<1> DEFINE f == SubSeq(frames, 1, m)
<1> HIDE DEF f
<1>5. f \in Seq(FrameType) /\ Len(f) = m /\ \A k \in 1 .. m : f[k] = frames[k]
  BY <1>1, <1>4 DEF f
<1> QED  BY <1>3, <1>5 DEF f, m

LEMMA GotoIs ==
  ASSUME frames \in Seq(FrameType), frames # << >>, NEW f \in FrameType
  PROVE  LET s == Append(Front(frames), f) IN
         /\ s \in Seq(FrameType) /\ s # << >> /\ Len(s) = Len(frames)
         /\ \A k \in 1 .. Len(frames) - 1 : s[k] = frames[k]
         /\ s[Len(frames)] = f
<1> DEFINE t == Front(frames)
           s == Append(t, f)
<1>1. Len(frames) \in Nat \ {0}  BY FramesAre
<1>2. /\ t \in Seq(FrameType) /\ Len(t) = Len(frames) - 1
      /\ \A k \in 1 .. Len(frames) - 1 : t[k] = frames[k]
  BY FrontIs
<1> HIDE DEF t
<1>3. /\ s \in Seq(FrameType) /\ s # << >> /\ Len(s) = Len(t) + 1
      /\ \A k \in 1 .. Len(t) : s[k] = t[k]
      /\ s[Len(t) + 1] = f
  BY <1>2, AppendProperties
<1>4. Len(t) + 1 = Len(frames)  BY <1>1, <1>2
<1> QED  BY <1>2, <1>3, <1>4 DEF t

LEMMA CallIs ==
  ASSUME frames \in Seq(FrameType), frames # << >>, NEW f \in FrameType, NEW g \in FrameType
  PROVE  LET s == Append(Append(Front(frames), f), g) IN
         /\ s \in Seq(FrameType) /\ s # << >> /\ Len(s) = Len(frames) + 1
         /\ \A k \in 1 .. Len(frames) - 1 : s[k] = frames[k]
         /\ s[Len(frames)] = f /\ s[Len(frames) + 1] = g
<1> DEFINE t == Append(Front(frames), f)
           s == Append(t, g)
<1>1. Len(frames) \in Nat \ {0}  BY FramesAre
<1>2. /\ t \in Seq(FrameType) /\ Len(t) = Len(frames)
      /\ \A k \in 1 .. Len(frames) - 1 : t[k] = frames[k]
      /\ t[Len(frames)] = f
  BY GotoIs
<1> HIDE DEF t
<1>3. /\ s \in Seq(FrameType) /\ s # << >> /\ Len(s) = Len(t) + 1
      /\ \A k \in 1 .. Len(t) : s[k] = t[k]
      /\ s[Len(t) + 1] = g
  BY <1>2, AppendProperties
<1>4. Len(frames) \in 1 .. Len(t) /\ \A k \in 1 .. Len(frames) - 1 : k \in 1 .. Len(t)  BY <1>1, <1>2
<1> QED  BY <1>2, <1>3, <1>4 DEF t

(* How the stack moves: the innermost call goes on, makes a call, returns. *)
Kin(f) == f.proc = Top.proc /\ f.dev = Top.dev /\ (f.port = Top.port \/ f.proc \in {"HubAttach", "CheckForChange"})

Lower == \A k \in 1 .. Len(frames) - 1 : frames'[k] = frames[k]

Goes(f) ==
  /\ frames # << >> /\ frames' # << >> /\ frames' \in Seq(FrameType) /\ Len(frames') = Len(frames)
  /\ Lower /\ frames'[Len(frames)] = f /\ Kin(f)

Makes(f, g) ==
  /\ frames # << >> /\ frames' # << >> /\ frames' \in Seq(FrameType) /\ Len(frames') = Len(frames) + 1
  /\ Lower /\ frames'[Len(frames)] = f /\ Kin(f) /\ frames'[Len(frames) + 1] = g

Returns ==
  frames # << >> /\ frames' \in Seq(FrameType) /\ Len(frames') = Len(frames) - 1 /\ Lower

(* The devices of the calls are where they were.                           *)
PosStay == \A k \in 1 .. Len(frames) : dev'[frames[k].dev].pos = dev[frames[k].dev].pos

LEMMA StackGoes ==
  ASSUME frames \in Seq(FrameType), Stack, PosStay, NEW f \in FrameType, Goes(f)
  PROVE  Stack'
<1> DEFINE n == Len(frames)
<1>1. n \in Nat \ {0} /\ Top = frames[n]  BY FramesAre DEF Goes
<1>2. /\ n = Len(frames') /\ \A k \in 1 .. n - 1 : frames'[k] = frames[k]
      /\ frames'[n] = f /\ f.proc = frames[n].proc /\ f.dev = frames[n].dev
      /\ f.port = frames[n].port \/ f.proc \in {"HubAttach", "CheckForChange"}
  BY <1>1 DEF Goes, Lower, Kin
<1>3. \A k \in 1 .. n : frames'[k].proc = frames[k].proc /\ frames'[k].dev = frames[k].dev
  BY <1>1, <1>2
<1>4. \A k \in 1 .. n : PosOf(k)' = PosOf(k) /\ (Climbing(k)' <=> Climbing(k))
  BY <1>3 DEF PosOf, PosStay, Climbing
<1>5. \A k \in 1 .. n : Down(k)' <=> Down(k)
  <2> SUFFICES ASSUME NEW k \in 1 .. n  PROVE Down(k)' <=> Down(k)
    OBVIOUS
  <2>1. \A j \in 1 .. k : j \in 1 .. n  BY <1>1
  <2> QED  BY <1>4, <2>1 DEF Down
<1>6. First'  BY <1>1, <1>2, <1>3 DEF Stack, First, Goes
<1>7. Links'
  <2> SUFFICES ASSUME NEW k \in 1 .. n - 1  PROVE Calls(k)'
    BY <1>2 DEF Links
  <2>1. k \in 1 .. n /\ k + 1 \in 1 .. n /\ frames'[k] = frames[k]  BY <1>1, <1>2
  <2>2. Calls(k)  BY DEF Stack, Links
  <2>3. PosOf(k)' = PosOf(k) /\ PosOf(k + 1)' = PosOf(k + 1) /\ PortOf(k)' = PortOf(k)
    BY <1>4, <2>1 DEF PortOf
  <2>4. /\ frames'[k + 1].proc = frames[k + 1].proc /\ frames'[k + 1].dev = frames[k + 1].dev
        /\ frames'[k + 1].port = frames[k + 1].port \/ frames[k + 1].proc \in {"HubAttach", "CheckForChange"}
    BY <1>1, <1>2, <1>3, <2>1
  <2>5. Asked(k)' <=> Asked(k)  BY <2>1 DEF Asked
  <2>6. CASE frames[k + 1].proc \in {"HubAttach", "CheckForChange"}
    BY <2>1, <2>2, <2>3, <2>4, <2>6 DEF Calls
  <2>7. CASE frames'[k + 1].port = frames[k + 1].port
    <3>1. PortOf(k + 1)' = PortOf(k + 1)  BY <2>3, <2>7 DEF PortOf
    <3> QED  BY <2>1, <2>2, <2>3, <2>4, <2>5, <2>7, <3>1 DEF Calls
  <2> QED  BY <2>4, <2>6, <2>7
<1>8. Climbs'  BY <1>2, <1>3, <1>4 DEF Stack, Climbs
<1>9. Chain'  BY <1>2, <1>4, <1>5 DEF Stack, Chain
<1> QED  BY <1>6, <1>7, <1>8, <1>9 DEF Stack

LEMMA StackReturns ==
  ASSUME frames \in Seq(FrameType), Stack, PosStay, Returns
  PROVE  Stack'
<1> DEFINE n == Len(frames)
<1>1. n \in Nat \ {0}  BY FramesAre DEF Returns
<1>2. Len(frames') = n - 1 /\ \A k \in 1 .. n - 1 : frames'[k] = frames[k] /\ k \in 1 .. n
  BY <1>1 DEF Returns, Lower
<1>4. \A k \in 1 .. n - 1 : PosOf(k)' = PosOf(k) /\ (Climbing(k)' <=> Climbing(k)) /\ PortOf(k)' = PortOf(k) /\ (Asked(k)' <=> Asked(k))
  BY <1>2 DEF PosOf, PosStay, Climbing, PortOf, Asked
<1>5. \A k \in 1 .. n - 1 : Down(k)' <=> Down(k)
  <2> SUFFICES ASSUME NEW k \in 1 .. n - 1  PROVE Down(k)' <=> Down(k)
    OBVIOUS
  <2>1. \A j \in 1 .. k : j \in 1 .. n - 1  BY <1>1
  <2> QED  BY <1>4, <2>1 DEF Down
<1>6. First'
  <2> SUFFICES ASSUME frames' # << >>  PROVE frames'[1].proc \in {"Attach", "CheckForChange"} /\ frames'[1].dev = 1
    BY DEF First
  <2>1. 1 \in 1 .. n - 1
    <3>1. Len(frames') # 0 /\ Len(frames') \in Nat  BY EmptySeq DEF Returns
    <3> QED  BY <1>1, <1>2, <3>1
  <2> QED  BY <1>2, <2>1 DEF Stack, First, Returns
<1>7. Links'
  <2> SUFFICES ASSUME NEW k \in 1 .. (n - 1) - 1  PROVE Calls(k)'
    BY <1>2 DEF Links
  <2>1. k \in 1 .. n - 1 /\ k + 1 \in 1 .. n - 1 /\ frames'[k] = frames[k] /\ frames'[k + 1] = frames[k + 1]
    BY <1>1, <1>2
  <2>2. Calls(k)  BY <2>1 DEF Stack, Links
  <2>3. PosOf(k)' = PosOf(k) /\ PosOf(k + 1)' = PosOf(k + 1) /\ PortOf(k)' = PortOf(k) /\ PortOf(k + 1)' = PortOf(k + 1)
        /\ (Asked(k)' <=> Asked(k))
    BY <1>4, <2>1
  <2> QED  BY <2>1, <2>2, <2>3 DEF Calls
<1>8. Climbs'  BY <1>2, <1>4 DEF Stack, Climbs
<1>9. Chain'  BY <1>2, <1>4, <1>5 DEF Stack, Chain
<1> QED  BY <1>6, <1>7, <1>8, <1>9 DEF Stack

LEMMA StackMakes ==
  ASSUME frames \in Seq(FrameType), Stack, PosStay, NEW f \in FrameType, NEW g \in FrameType, Makes(f, g),
         NEW n, n = Len(frames), Calls(n)',
         g.proc \in {"Verify", "CheckConnection"} \/ Down(n),
         g.proc \in {"Verify", "PortReset"} \/ ~Down(n) \/ Way(PosOf(n)) \subseteq Way(dev'[g.dev].pos)
  PROVE  Stack'
<1>1. n \in Nat \ {0} /\ Top = frames[n]  BY FramesAre DEF Makes
<1>2. /\ n + 1 = Len(frames') /\ \A k \in 1 .. n - 1 : frames'[k] = frames[k]
      /\ frames'[n] = f /\ f.proc = frames[n].proc /\ f.dev = frames[n].dev /\ frames'[n + 1] = g
      /\ f.port = frames[n].port \/ f.proc \in {"HubAttach", "CheckForChange"}
  BY <1>1 DEF Makes, Lower, Kin
<1>3. \A k \in 1 .. n : frames'[k].proc = frames[k].proc /\ frames'[k].dev = frames[k].dev
  BY <1>1, <1>2
<1>4. \A k \in 1 .. n : PosOf(k)' = PosOf(k) /\ (Climbing(k)' <=> Climbing(k))
  BY <1>3 DEF PosOf, PosStay, Climbing
<1>5. \A k \in 1 .. n : Down(k)' <=> Down(k)
  <2> SUFFICES ASSUME NEW k \in 1 .. n  PROVE Down(k)' <=> Down(k)
    OBVIOUS
  <2>1. \A j \in 1 .. k : j \in 1 .. n  BY <1>1
  <2> QED  BY <1>4, <2>1 DEF Down
<1>6. First'
  <2>1. 1 \in 1 .. n  BY <1>1
  <2>2. frames[1].proc \in {"Attach", "CheckForChange"} /\ frames[1].dev = 1  BY DEF Stack, First, Makes
  <2> QED  BY <1>3, <2>1, <2>2 DEF First
<1>7. Links'
  <2> SUFFICES ASSUME NEW k \in 1 .. (n + 1) - 1  PROVE Calls(k)'
    BY <1>2 DEF Links
  <2>0. CASE k = n  BY <2>0
  <2>10. CASE k # n
    <3>1. k \in 1 .. n - 1 /\ k \in 1 .. n /\ k + 1 \in 1 .. n /\ frames'[k] = frames[k]  BY <1>1, <1>2, <2>10
    <3>2. Calls(k)  BY <3>1 DEF Stack, Links
    <3>3. PosOf(k)' = PosOf(k) /\ PosOf(k + 1)' = PosOf(k + 1) /\ PortOf(k)' = PortOf(k)
      BY <1>4, <3>1 DEF PortOf
    <3>4. /\ frames'[k + 1].proc = frames[k + 1].proc /\ frames'[k + 1].dev = frames[k + 1].dev
          /\ frames'[k + 1].port = frames[k + 1].port \/ frames[k + 1].proc \in {"HubAttach", "CheckForChange"}
      <4>1. PICK m : m = k + 1  OBVIOUS
      <4>2. m = n \/ m \in 1 .. n - 1  BY <1>1, <3>1, <4>1
      <4>3. CASE m = n  BY <1>1, <1>2, <1>3, <4>1, <4>3
      <4>4. CASE m \in 1 .. n - 1
        <5>1. frames'[m] = frames[m]  BY <1>2, <4>4
        <5> QED  BY <4>1, <5>1
      <4> QED  BY <4>2, <4>3, <4>4
    <3>5. Asked(k)' <=> Asked(k)  BY <3>1 DEF Asked
    <3>6. CASE frames[k + 1].proc \in {"HubAttach", "CheckForChange"}
      BY <3>1, <3>2, <3>3, <3>4, <3>6 DEF Calls
    <3>7. CASE frames'[k + 1].port = frames[k + 1].port
      <4>1. PortOf(k + 1)' = PortOf(k + 1)  BY <3>3, <3>7 DEF PortOf
      <4> QED  BY <3>1, <3>2, <3>3, <3>4, <3>5, <3>7, <4>1 DEF Calls
    <3> QED  BY <3>4, <3>6, <3>7
  <2> QED  BY <2>0, <2>10
<1>8. Climbs'
  <2> SUFFICES ASSUME NEW j \in 1 .. n + 1, NEW k \in 1 .. n + 1, j < k, Climbing(j)'
               PROVE  frames'[k].proc \in {"Verify", "CheckConnection"}
    BY <1>2 DEF Climbs
  <2>1. j \in 1 .. n /\ Climbing(j)  BY <1>1, <1>4
  <2>2. CASE k = n + 1
    <3>1. ~Down(n)  BY <2>1 DEF Down
    <3> QED  BY <1>2, <2>2, <3>1
  <2>3. CASE k # n + 1
    <3>1. k \in 1 .. n  BY <1>1, <2>3
    <3> QED  BY <1>3, <2>1, <3>1 DEF Stack, Climbs
  <2> QED  BY <2>2, <2>3
<1>9. Chain'
  <2> SUFFICES ASSUME NEW j \in 1 .. n + 1, NEW k \in 1 .. n + 1, j <= k, Down(k)'
               PROVE  (Way(PosOf(j)) \subseteq Way(PosOf(k)))'
    BY <1>2 DEF Chain
  <2>2. CASE k = n + 1
    <3>1. Down(n)' /\ ~Climbing(n + 1)'
      <4>1. \A i \in 1 .. n : i \in 1 .. n + 1  BY <1>1
      <4>2. n + 1 \in 1 .. n + 1  BY <1>1
      <4> QED  BY <2>2, <4>1, <4>2 DEF Down
    <3>2. n \in 1 .. n /\ Down(n)  BY <1>1, <1>5, <3>1
    <3>3. g.proc \notin {"Verify", "PortReset"}  BY <1>2, <3>1 DEF Climbing
    <3>4. Way(PosOf(n)) \subseteq Way(PosOf(n + 1))'  BY <1>2, <3>2, <3>3 DEF PosOf, Way
    <3>5. CASE j = n + 1  BY <2>2, <3>5
    <3>6. CASE j # n + 1
      <4>1. j \in 1 .. n /\ j <= n  BY <1>1, <3>6
      <4>2. Way(PosOf(j)) \subseteq Way(PosOf(n))  BY <3>2, <4>1 DEF Stack, Chain
      <4>3. PosOf(j)' = PosOf(j)  BY <1>4, <4>1
      <4> QED  BY <2>2, <3>4, <4>2, <4>3 DEF Way
    <3> QED  BY <3>5, <3>6
  <2>3. CASE k # n + 1
    <3>1. k \in 1 .. n /\ j \in 1 .. n  BY <1>1, <2>3
    <3>2. Way(PosOf(j)) \subseteq Way(PosOf(k))  BY <1>5, <3>1 DEF Stack, Chain
    <3>3. PosOf(j)' = PosOf(j) /\ PosOf(k)' = PosOf(k)  BY <1>4, <3>1
    <3> QED  BY <3>2, <3>3 DEF Way
  <2> QED  BY <2>2, <2>3
<1> QED  BY <1>6, <1>7, <1>8, <1>9 DEF Stack

(* While a call that looks into no failure is made, none below it does.    *)
LEMMA NoneClimbs ==
  ASSUME frames \in Seq(FrameType), frames # << >>, Climbs, Top.proc \notin {"Verify", "CheckConnection"}
  PROVE  \A j \in 1 .. Len(frames) - 1 : ~Climbing(j)
<1>1. Len(frames) \in Nat \ {0} /\ Top = frames[Len(frames)]  BY FramesAre
<1> SUFFICES ASSUME NEW j \in 1 .. Len(frames) - 1, Climbing(j)  PROVE FALSE
  OBVIOUS
<1>2. j \in 1 .. Len(frames) /\ Len(frames) \in 1 .. Len(frames) /\ j < Len(frames)  BY <1>1
<1> QED  BY <1>1, <1>2 DEF Climbs

LEMMA IsDown ==
  ASSUME frames \in Seq(FrameType), frames # << >>, Climbs,
         Top.proc \notin {"Verify", "CheckConnection", "PortReset"}
  PROVE  \A k \in 1 .. Len(frames) : Down(k)
<1>1. Len(frames) \in Nat \ {0} /\ Top = frames[Len(frames)]  BY FramesAre
<1>2. \A j \in 1 .. Len(frames) - 1 : ~Climbing(j)  BY NoneClimbs
<1>3. ~Climbing(Len(frames))  BY <1>1 DEF Climbing
<1>4. \A j \in 1 .. Len(frames) : ~Climbing(j)
  <2> SUFFICES ASSUME NEW j \in 1 .. Len(frames)  PROVE ~Climbing(j)
    OBVIOUS
  <2>1. j = Len(frames) \/ j \in 1 .. Len(frames) - 1  BY <1>1
  <2> QED  BY <1>2, <1>3, <2>1
<1> SUFFICES ASSUME NEW k \in 1 .. Len(frames)  PROVE Down(k)
  OBVIOUS
<1>5. \A j \in 1 .. k : j \in 1 .. Len(frames)  BY <1>1
<1> QED  BY <1>4, <1>5 DEF Down

-----------------------------------------------------------------------------
(* The tree.                                                               *)
LEMMA LeastNumber ==
  ASSUME NEW S \in SUBSET Nat, S # {}
  PROVE  \E m \in S : \A n \in S : m <= n
<1>1. PICK m \in S : \A n \in S : ~(<<n, m>> \in OpToRel(<, Nat))
  BY NatLessThanWellFounded, WFMin
<1>2. \A n \in S : ~(n < m)  BY <1>1 DEF OpToRel
<1> QED  BY <1>2

LEMMA DeviceIs ==
  ASSUME TypeOK, NEW d \in DevIds
  PROVE  /\ dev[d] \in DeviceType
         /\ dev[d].pos \in Positions /\ dev[d].pos \in Seq(Nat) /\ Len(dev[d].pos) \in Nat
         /\ dev[d].maxChildren \in Nat /\ PortCount[dev[d].pos] \in Nat /\ dev[d].maxChildren <= PortCount[dev[d].pos]
         /\ \A i \in PortNums : dev[d].children[i] \in DevIds \cup {Null}
         /\ dev[d].parent \in DevIds \cup {Null} /\ dev[d].number \in 0 .. MaxDevices
         /\ dev[d].hub \in BOOLEAN /\ dev[d].port \in PortNums \cup {0}
         /\ d # Null /\ Null \notin DevIds
<1>1. dev[d] \in DeviceType /\ dev[d].maxChildren <= PortCount[dev[d].pos]  BY DEF TypeOK
<1>2. dev[d].pos \in Positions  BY <1>1 DEF DeviceType
<1>3. dev[d].pos \in Seq(Nat) /\ PortCount[dev[d].pos] \in Nat  BY <1>2, PositionIs
<1>4. Cardinality(DevIds) \in Nat /\ DevIds = 1 .. Cardinality(DevIds)  BY FS_CardinalityType, BoundsAssumption
<1>5. d # Null /\ Null \notin DevIds  BY <1>4 DEF Null
<1>6. Len(dev[d].pos) \in Nat  BY <1>3
<1> QED  BY <1>1, <1>2, <1>3, <1>5, <1>6 DEF DeviceType

LEMMA LiveIs == Live \subseteq DevIds  BY DEF Live

LEMMA PortNumIs == \A i \in PortNums : i \in Nat \ {0}
<1> SUFFICES ASSUME NEW p \in Ports  PROVE Last(p) \in Nat \ {0}
  BY DEF PortNums
<1>1. Front(p) \in Positions /\ Last(p) \in 1 .. PortCount[Front(p)]  BY TopologyAssumption
<1>2. PortCount[Front(p)] \in Nat  BY <1>1, PositionIs
<1> QED  BY <1>1, <1>2

LEMMA LinkIs ==
  ASSUME TypeOK, Children, NEW d \in Live, NEW i \in PortNums, dev[d].children[i] # Null
  PROVE  LET c == dev[d].children[i] IN
         /\ c \in Live /\ dev[c].pos = Append(dev[d].pos, i) /\ dev[c].pos \in Ports
         /\ i \in 1 .. dev[d].maxChildren /\ i \in 1 .. PortCount[dev[d].pos] /\ i \in Nat
         /\ Way(dev[c].pos) = Way(dev[d].pos) \cup {dev[c].pos} /\ dev[c].pos \notin Way(dev[d].pos)
         /\ Len(dev[c].pos) = Len(dev[d].pos) + 1
<1> DEFINE c == dev[d].children[i]
<1>1. c \in Live /\ dev[c].pos = Append(dev[d].pos, i) /\ i <= dev[d].maxChildren  BY DEF Children
<1>2. /\ dev[d].pos \in Positions /\ dev[d].pos \in Seq(Nat) /\ dev[d].maxChildren \in Nat
      /\ PortCount[dev[d].pos] \in Nat /\ dev[d].maxChildren <= PortCount[dev[d].pos]
  BY LiveIs, DeviceIs
<1>3. i \in Nat \ {0}  BY PortNumIs
<1>4. i \in 1 .. dev[d].maxChildren /\ i \in 1 .. PortCount[dev[d].pos]  BY <1>1, <1>2, <1>3
<1>5. /\ Append(dev[d].pos, i) \in Ports /\ Append(dev[d].pos, i) \notin Way(dev[d].pos)
      /\ Way(Append(dev[d].pos, i)) = Way(dev[d].pos) \cup {Append(dev[d].pos, i)}
  BY <1>2, <1>4, PortIs
<1>6. Len(Append(dev[d].pos, i)) = Len(dev[d].pos) + 1  BY <1>2, <1>3, AppendProperties
<1> QED  BY <1>1, <1>3, <1>4, <1>5, <1>6

LEMMA HookIs ==
  ASSUME TypeOK, Tree, NEW c \in Live, dev[c].pos # << >>
  PROVE  \E d \in Live : \E i \in PortNums :
           /\ dev[d].children[i] = c /\ dev[c].pos = Append(dev[d].pos, i) /\ i \in 1 .. dev[d].maxChildren
           /\ Way(dev[c].pos) = Way(dev[d].pos) \cup {dev[c].pos} /\ dev[c].pos \notin Way(dev[d].pos)
           /\ Len(dev[c].pos) = Len(dev[d].pos) + 1
<1>1. PICK d \in Live, i \in PortNums : dev[d].children[i] = c  BY DEF Tree, Hooked
<1>2. c # Null  BY LiveIs, DeviceIs
<1>3. /\ dev[c].pos = Append(dev[d].pos, i) /\ i \in 1 .. dev[d].maxChildren
      /\ Way(dev[c].pos) = Way(dev[d].pos) \cup {dev[c].pos} /\ dev[c].pos \notin Way(dev[d].pos)
      /\ Len(dev[c].pos) = Len(dev[d].pos) + 1
  BY <1>1, <1>2, LinkIs DEF Tree
<1> QED  BY <1>1, <1>3

(* On the way to a device there are devices.                               *)
LEMMA WayIsTaken ==
  ASSUME TypeOK, Tree, NEW d \in Live
  PROVE  \A p \in Way(dev[d].pos) : \E e \in Live : dev[e].pos = p
<1> DEFINE q == dev[d].pos
           On2(k) == \E e \in Live : dev[e].pos = SubSeq(q, 1, k)
           Missing == {j \in 0 .. Len(q) - 1 : ~On2(Len(q) - j)}
<1>1. q \in Seq(Nat) /\ Len(q) \in Nat  BY LiveIs, DeviceIs
<1>2. On2(Len(q))  BY <1>1, SubSeqFull
<1>3. ASSUME Missing # {}  PROVE FALSE
  <2>1. Missing \in SUBSET Nat  BY <1>1
  <2>2. PICK j \in Missing : \A i \in Missing : j <= i  BY <1>3, <2>1, LeastNumber
  <2>3. j \in 0 .. Len(q) - 1 /\ ~On2(Len(q) - j) /\ j # 0
    <3>1. Len(q) - 0 = Len(q)  BY <1>1
    <3> QED  BY <1>2, <3>1
  <2> DEFINE k == Len(q) - j
  <2>4. j - 1 \in 0 .. Len(q) - 1 /\ ~(j <= j - 1) /\ Len(q) - (j - 1) = k + 1 /\ k \in 1 .. Len(q) /\ k + 1 \in 1 .. Len(q)
    BY <1>1, <2>3
  <2>5. On2(k + 1)  BY <2>2, <2>4
  <2> HIDE DEF k, q
  <2>6. PICK e \in Live : dev[e].pos = SubSeq(q, 1, k + 1)  BY <2>5
  <2>7. /\ SubSeq(q, 1, k + 1) \in Seq(Nat) /\ Len(SubSeq(q, 1, k + 1)) = k + 1
        /\ \A i \in 1 .. k + 1 : SubSeq(q, 1, k + 1)[i] = q[i]
    BY <1>1, <2>4, PrefixIs
  <2>8. dev[e].pos # << >>
    <3>1. k + 1 # 0  BY <1>1, <2>4
    <3> QED  BY <2>6, <2>7, <3>1, EmptySeq
  <2>9. PICK f \in Live, i \in PortNums : dev[e].pos = Append(dev[f].pos, i)  BY <2>8, HookIs
  <2>10. dev[f].pos \in Seq(Nat) /\ i \in Nat /\ Len(dev[f].pos) \in Nat  BY LiveIs, DeviceIs, PortNumIs
  <2>11. /\ Len(dev[e].pos) = Len(dev[f].pos) + 1
         /\ \A m \in 1 .. Len(dev[f].pos) : dev[e].pos[m] = dev[f].pos[m]
    BY <2>9, <2>10, AppendProperties
  <2>12. Len(dev[f].pos) = k
    <3>1. Len(dev[e].pos) = k + 1 /\ k \in Nat  BY <1>1, <2>4, <2>6, <2>7
    <3>2. Len(dev[f].pos) + 1 = k + 1  BY <2>11, <3>1
    <3> QED  BY ONLY <2>10, <3>1, <3>2
  <2>13. /\ SubSeq(q, 1, k) \in Seq(Nat) /\ Len(SubSeq(q, 1, k)) = k
         /\ \A m \in 1 .. k : SubSeq(q, 1, k)[m] = q[m]
    BY <1>1, <2>4, PrefixIs
  <2>14. \A m \in 1 .. k : dev[f].pos[m] = q[m]
    <3>1. \A m \in 1 .. k : m \in 1 .. k + 1  BY <1>1, <2>4
    <3> QED  BY <2>6, <2>7, <2>11, <2>12, <3>1
  <2>15. dev[f].pos = SubSeq(q, 1, k)  BY <2>10, <2>12, <2>13, <2>14, SeqEqual
  <2> QED  BY <2>3, <2>15 DEF k
<1>4. ASSUME NEW k \in 1 .. Len(q)  PROVE On2(k)
  <2>1. Len(q) - k \in 0 .. Len(q) - 1 /\ Len(q) - (Len(q) - k) = k  BY <1>1
  <2> QED  BY <1>3, <2>1
<1> QED  BY <1>4 DEF Way

LEMMA NoDeeper ==
  ASSUME TypeOK, Tree, NEW d \in Live
  PROVE  Len(dev[d].pos) <= Cardinality(DevIds)
<1> DEFINE q == dev[d].pos
           g == [k \in 1 .. Len(q) |-> CHOOSE e \in Live : dev[e].pos = SubSeq(q, 1, k)]
<1>1. q \in Seq(Nat) /\ Len(q) \in Nat  BY LiveIs, DeviceIs
<1>2. \A k \in 1 .. Len(q) : g[k] \in Live /\ dev[g[k]].pos = SubSeq(q, 1, k)
  BY WayIsTaken DEF Way
<1>3. \A k \in 1 .. Len(q) : Len(SubSeq(q, 1, k)) = k  BY <1>1, PrefixIs
<1>4. IsFiniteSet(DevIds) /\ Cardinality(DevIds) \in Nat  BY FS_CardinalityType, BoundsAssumption
<1>5. IsFiniteSet(1 .. Len(q)) /\ Cardinality(1 .. Len(q)) = Len(q)
  <2>1. Cardinality(1 .. Len(q)) = IF 1 > Len(q) THEN 0 ELSE Len(q) - 1 + 1  BY <1>1, FS_Interval
  <2> QED  BY <1>1, <2>1, FS_Interval
<1> HIDE DEF q
<1> SUFFICES ASSUME Cardinality(DevIds) < Cardinality(1 .. Len(q))  PROVE FALSE
  BY <1>1, <1>4, <1>5 DEF q
<1>6. g \in [1 .. Len(q) -> DevIds]  BY <1>2, LiveIs
<1> HIDE DEF g
<1>7. PICK x \in 1 .. Len(q), y \in 1 .. Len(q) : x # y /\ g[x] = g[y]
  BY <1>4, <1>5, <1>6, FS_PigeonHole
<1>8. SubSeq(q, 1, x) = SubSeq(q, 1, y)  BY <1>2, <1>7
<1> QED  BY <1>3, <1>7, <1>8

(* A device and those behind it are those on whose way its position is.    *)
Behind(r) == {e \in Live : r \in Way(dev[e].pos)}

LEMMA FamilyIs ==
  ASSUME TypeOK, Tree, NEW d \in Live, dev[d].pos # << >>
  PROVE  Family(d) = Behind(dev[d].pos)
<1> DEFINE N == Cardinality(DevIds)
           r == dev[d].pos
           m == Len(r)
           deep(x) == Len(dev[x].pos)
           B(k) == {x \in Behind(r) : deep(x) <= m + k}
           Kids(S) == UNION {{dev[e].children[i] : i \in 1 .. dev[e].maxChildren} : e \in S \ {Null}}
           G(f) == [k \in 0 .. N |-> IF k = 0 THEN {d} ELSE f[k - 1] \cup Kids(f[k - 1])]
           g == [k \in 0 .. N |-> B(k) \cup (IF k = 0 THEN {} ELSE Kids(B(k - 1)) \cap {Null})]
<1>1. r \in Seq(Nat) /\ m \in Nat /\ N \in Nat /\ r \in Way(r) /\ r # << >>
  BY LiveIs, DeviceIs, FS_CardinalityType, BoundsAssumption, WayEnds
<1>2. \A e \in Live : e # Null /\ dev[e].pos \in Seq(Nat) /\ deep(e) \in Nat /\ deep(e) <= N
  BY LiveIs, DeviceIs, NoDeeper
<1>20. \A e \in Live : r \in Way(dev[e].pos) => m <= deep(e) /\ (m = deep(e) => r = dev[e].pos)
  <2> SUFFICES ASSUME NEW e \in Live, r \in Way(dev[e].pos)  PROVE m <= deep(e) /\ (m = deep(e) => r = dev[e].pos)
    OBVIOUS
  <2>1. Len(r) \in 1 .. Len(dev[e].pos) /\ (Len(r) = Len(dev[e].pos) => r = dev[e].pos)  BY <1>2, WayIs
  <2> QED  BY <1>1, <1>2, <2>1
<1>21. deep(d) = m  OBVIOUS
<1>22. \A c \in Live : dev[c].pos # << >> =>
        \E e \in Live : \E i \in 1 .. dev[e].maxChildren :
          dev[e].children[i] = c /\ Way(dev[c].pos) = Way(dev[e].pos) \cup {dev[c].pos} /\ deep(c) = deep(e) + 1
  <2> SUFFICES ASSUME NEW c \in Live, dev[c].pos # << >>
               PROVE  \E e \in Live : \E i \in 1 .. dev[e].maxChildren :
                 dev[e].children[i] = c /\ Way(dev[c].pos) = Way(dev[e].pos) \cup {dev[c].pos} /\ deep(c) = deep(e) + 1
    OBVIOUS
  <2>1. PICK e \in Live : \E i \in PortNums :
           /\ dev[e].children[i] = c /\ dev[c].pos = Append(dev[e].pos, i) /\ i \in 1 .. dev[e].maxChildren
           /\ Way(dev[c].pos) = Way(dev[e].pos) \cup {dev[c].pos} /\ dev[c].pos \notin Way(dev[e].pos)
           /\ deep(c) = deep(e) + 1
    BY HookIs
  <2> QED  BY <2>1
<1>23. \A e \in Live : \A i \in PortNums : dev[e].children[i] # Null =>
         LET c == dev[e].children[i] IN
         c \in Live /\ Way(dev[c].pos) = Way(dev[e].pos) \cup {dev[c].pos} /\ deep(c) = deep(e) + 1
  BY LinkIs DEF Tree
<1>24. \A c \in Live : deep(c) # 0 => dev[c].pos # << >>  BY EmptySeq
<1> HIDE DEF m, deep
<1>3. B(0) = {d}
  <2>1. d \in B(0)  BY <1>1, <1>21 DEF Behind
  <2>2. ASSUME NEW e \in B(0)  PROVE e = d
    <3>1. e \in Live /\ r \in Way(dev[e].pos) /\ deep(e) <= m + 0  BY DEF Behind
    <3>2. deep(e) \in Nat /\ m <= deep(e)  BY <1>2, <1>20, <3>1
    <3>3. r = dev[e].pos  BY <1>1, <1>20, <3>1, <3>2
    <3> QED  BY <3>1, <3>3 DEF Tree, OnePlace
  <2> QED  BY <2>1, <2>2
<1>4. ASSUME NEW k \in 0 .. N  PROVE B(k) \subseteq B(k + 1)
  <2>1. ASSUME NEW e \in Live, deep(e) <= m + k  PROVE deep(e) <= m + (k + 1)
    <3>1. deep(e) \in Nat  BY <1>2
    <3> QED  BY <1>1, <2>1, <3>1
  <2> QED  BY <2>1 DEF Behind
<1>5. ASSUME NEW k \in 0 .. N, NEW e \in B(k), NEW i \in 1 .. dev[e].maxChildren, dev[e].children[i] # Null
      PROVE  dev[e].children[i] \in B(k + 1)
  <2>1. e \in Live /\ r \in Way(dev[e].pos) /\ deep(e) <= m + k  BY DEF Behind
  <2>2. i \in PortNums
    <3>1. /\ dev[e].pos \in Positions /\ dev[e].maxChildren \in Nat /\ PortCount[dev[e].pos] \in Nat
          /\ dev[e].maxChildren <= PortCount[dev[e].pos]
      BY <2>1, LiveIs, DeviceIs
    <3>2. i \in 1 .. PortCount[dev[e].pos]  BY <3>1
    <3> QED  BY <3>1, <3>2, PortIs
  <2> DEFINE c == dev[e].children[i]
  <2>3. c \in Live /\ Way(dev[c].pos) = Way(dev[e].pos) \cup {dev[c].pos} /\ deep(c) = deep(e) + 1
    BY <1>5, <1>23, <2>1, <2>2
  <2>5. deep(e) \in Nat  BY <1>2, <2>1
  <2>4. deep(c) <= m + (k + 1)  BY <1>1, <2>1, <2>3, <2>5
  <2> QED  BY <2>1, <2>3, <2>4 DEF Behind
<1>6. ASSUME NEW k \in 0 .. N, NEW c \in B(k + 1), c \notin B(k)
      PROVE  \E e \in B(k) : \E i \in 1 .. dev[e].maxChildren : dev[e].children[i] = c
  <2>1. c \in Live /\ r \in Way(dev[c].pos) /\ deep(c) <= m + (k + 1) /\ ~(deep(c) <= m + k)
    BY <1>6 DEF Behind
  <2>2. deep(c) \in Nat /\ deep(c) # m /\ deep(c) # 0
    <3>1. deep(c) \in Nat  BY <1>2, <2>1
    <3> QED  BY <1>1, <2>1, <3>1
  <2>3. dev[c].pos # << >> /\ dev[c].pos # r
    <3>1. dev[c].pos # r  BY <2>2 DEF deep, m
    <3> QED  BY <1>24, <2>1, <2>2, <3>1
  <2>4. PICK e \in Live : \E i \in 1 .. dev[e].maxChildren :
          dev[e].children[i] = c /\ Way(dev[c].pos) = Way(dev[e].pos) \cup {dev[c].pos} /\ deep(c) = deep(e) + 1
    BY <1>22, <2>1, <2>3
  <2>5. r \in Way(dev[e].pos)  BY <2>1, <2>3, <2>4
  <2>7. deep(e) \in Nat  BY <1>2
  <2>6. deep(e) <= m + k  BY <1>1, <2>1, <2>4, <2>7
  <2> QED  BY <2>4, <2>5, <2>6 DEF Behind
<1>7. ASSUME NEW k \in 0 .. N  PROVE B(k) \cup Kids(B(k)) = B(k + 1) \cup (Kids(B(k)) \cap {Null})
  <2>1. Null \notin B(k) /\ B(k) \ {Null} = B(k)  BY <1>2 DEF Behind
  <2> HIDE DEF B
  <2>2. \A c : c \in Kids(B(k)) <=> \E e \in B(k) : \E i \in 1 .. dev[e].maxChildren : dev[e].children[i] = c
    BY <2>1
  <2> HIDE DEF Kids
  <2> QED  BY <1>4, <1>5, <1>6, <2>2
<1>8. B(N) = Behind(r)
  <2>1. ASSUME NEW e \in Live  PROVE deep(e) <= m + N
    <3>1. deep(e) \in Nat /\ deep(e) <= N  BY <1>2
    <3> QED  BY <1>1, <3>1
  <2> QED  BY <2>1 DEF Behind
<1>9. \A k \in 0 .. N : Null \notin B(k)  BY <1>2 DEF Behind
<1>10. ASSUME NEW S, NEW T, S \ {Null} = T \ {Null}  PROVE Kids(S) = Kids(T)
  BY <1>10
<1> HIDE DEF B
<1>11. \A k \in 0 .. N : g[k] \ {Null} = B(k) \ {Null} /\ Kids(g[k]) = Kids(B(k))
  <2> SUFFICES ASSUME NEW k \in 0 .. N  PROVE g[k] \ {Null} = B(k) \ {Null} /\ Kids(g[k]) = Kids(B(k))
    OBVIOUS
  <2>1. g[k] \ {Null} = B(k) \ {Null}
    <3> HIDE DEF Kids
    <3> QED  OBVIOUS
  <2> HIDE DEF g, Kids
  <2> QED  BY <1>10, <2>1
<1> HIDE DEF Kids
<1>12. g = G(g)
  <2> SUFFICES ASSUME NEW k \in 0 .. N
               PROVE  g[k] = IF k = 0 THEN {d} ELSE g[k - 1] \cup Kids(g[k - 1])
    OBVIOUS
  <2>1. CASE k = 0  BY <1>3, <2>1
  <2>2. CASE k # 0
    <3>1. k - 1 \in 0 .. N /\ (k - 1) + 1 = k  BY <1>1, <2>2
    <3>2. Kids(g[k - 1]) = Kids(B(k - 1))  BY <1>11, <3>1
    <3>3. B(k - 1) \cup Kids(B(k - 1)) = B(k) \cup (Kids(B(k - 1)) \cap {Null})  BY <1>7, <3>1
    <3>4. g[k] = B(k) \cup (Kids(B(k - 1)) \cap {Null})  BY <2>2
    <3>5. CASE k - 1 = 0
      <4>1. g[k - 1] = B(k - 1)  BY <3>1, <3>5
      <4> QED  BY <2>2, <3>2, <3>3, <3>4, <4>1
    <3>6. CASE k - 1 # 0
      <4>1. g[k - 1] = B(k - 1) \cup (Kids(B((k - 1) - 1)) \cap {Null})  BY <3>1, <3>6
      <4>2. (k - 1) - 1 \in 0 .. N /\ ((k - 1) - 1) + 1 = k - 1  BY <1>1, <3>1, <3>6
      <4>3. B((k - 1) - 1) \subseteq B(k - 1)  BY <1>4, <4>2
      <4>4. Kids(B((k - 1) - 1)) \subseteq Kids(B(k - 1))  BY <4>3 DEF Kids
      <4> QED  BY <2>2, <3>2, <3>3, <3>4, <4>1, <4>4
    <3> QED  BY <3>5, <3>6
  <2> QED  BY <2>1, <2>2
<1> HIDE DEF g
<1>13. ASSUME NEW f, f = G(f)  PROVE f = g
  <2>1. f = [k \in 0 .. N |-> f[k]] /\ g = [k \in 0 .. N |-> g[k]]  BY <1>12, <1>13
  <2>2. /\ \A k \in 0 .. N : f[k] = IF k = 0 THEN {d} ELSE f[k - 1] \cup Kids(f[k - 1])
        /\ \A k \in 0 .. N : g[k] = IF k = 0 THEN {d} ELSE g[k - 1] \cup Kids(g[k - 1])
    BY <1>12, <1>13
  <2> DEFINE Differ == {k \in 0 .. N : f[k] # g[k]}
  <2>3. ASSUME Differ # {} PROVE FALSE
    <3>0. Differ \in SUBSET Nat  BY <1>1
    <3>1. PICK k \in Differ : \A j \in Differ : k <= j  BY <2>3, <3>0, LeastNumber
    <3>2. k \in 0 .. N /\ f[k] # g[k] /\ k # 0  BY <2>2, <3>1
    <3>3. k - 1 \in 0 .. N /\ ~(k <= k - 1)  BY <1>1, <3>2
    <3>4. f[k - 1] = g[k - 1]  BY <3>1, <3>3
    <3> QED  BY <2>2, <3>2, <3>4
  <2> QED  BY <2>1, <2>3
<1>14. Family(d) = g[N] \ {Null}
  <2> DEFINE reached == CHOOSE f : f = G(f)
  <2>1. reached = g  BY <1>12, <1>13
  <2>2. Family(d) = reached[N] \ {Null}  BY DEF Family, Kids
  <2> HIDE DEF reached
  <2> QED  BY <2>1, <2>2
<1>15. N \in 0 .. N  BY <1>1
<1> QED  BY <1>8, <1>9, <1>11, <1>14, <1>15

-----------------------------------------------------------------------------
(* Changes of the world.                                                   *)
(* The fields of a device change, its place in the tree does not.          *)
Retouched(d, r) ==
  /\ d \in Live /\ r \in DeviceType /\ r.status # "Free"
  /\ r.pos = dev[d].pos /\ r.parent = dev[d].parent /\ r.port = dev[d].port /\ r.children = dev[d].children
  /\ r.maxChildren >= dev[d].maxChildren /\ r.maxChildren <= PortCount[dev[d].pos]
  /\ r.status = dev[d].status \/ dev[d].pos = << >> \/ dev[d].parent # Null
  /\ dev' = [dev EXCEPT ![d] = r]

LEMMA RetouchedIs ==
  ASSUME TypeOK, NEW d, NEW r, Retouched(d, r)
  PROVE  /\ d \in DevIds /\ Live' = Live /\ dev' \in [DevIds -> DeviceType]
         /\ dev'[d] = r /\ \A e \in DevIds : e # d => dev'[e] = dev[e]
         /\ \A e \in DevIds : /\ dev'[e].pos = dev[e].pos /\ dev'[e].parent = dev[e].parent
                              /\ dev'[e].port = dev[e].port /\ dev'[e].children = dev[e].children
                              /\ dev'[e].maxChildren >= dev[e].maxChildren
                              /\ dev'[e].maxChildren <= PortCount[dev'[e].pos]
<1>1. d \in DevIds  BY LiveIs DEF Retouched
<1>2. dev \in [DevIds -> DeviceType]  BY DEF TypeOK
<1>3. dev' \in [DevIds -> DeviceType] /\ dev'[d] = r /\ \A e \in DevIds : e # d => dev'[e] = dev[e]
  BY <1>1, <1>2 DEF Retouched
<1>4. \A e \in DevIds : dev'[e].status # "Free" <=> dev[e].status # "Free"
  BY <1>1, <1>3 DEF Retouched, Live
<1>5. Live' = Live  BY <1>4 DEF Live
<1>6. ASSUME NEW e \in DevIds
      PROVE  /\ dev'[e].pos = dev[e].pos /\ dev'[e].parent = dev[e].parent
             /\ dev'[e].port = dev[e].port /\ dev'[e].children = dev[e].children
             /\ dev'[e].maxChildren >= dev[e].maxChildren
             /\ dev'[e].maxChildren <= PortCount[dev'[e].pos]
  <2>1. dev[e].maxChildren \in Nat /\ dev[e].maxChildren <= PortCount[dev[e].pos]  BY DeviceIs
  <2>2. CASE e = d  BY <1>3, <2>2 DEF Retouched
  <2>3. CASE e # d  BY <1>3, <2>1, <2>3
  <2> QED  BY <2>2, <2>3
<1> QED  BY <1>1, <1>3, <1>5, <1>6

LEMMA RetouchedKeepsTree ==
  ASSUME Types, Tree, NEW d, NEW r, Retouched(d, r), devices' = devices
  PROVE  Tree' /\ PosStay
<1>0. TypeOK /\ frames \in Seq(FrameType)  BY DEF Types
<1>1. /\ d \in DevIds /\ Live' = Live /\ dev' \in [DevIds -> DeviceType]
      /\ dev'[d] = r /\ \A e \in DevIds : e # d => dev'[e] = dev[e]
      /\ \A e \in DevIds : /\ dev'[e].pos = dev[e].pos /\ dev'[e].parent = dev[e].parent
                           /\ dev'[e].port = dev[e].port /\ dev'[e].children = dev[e].children
                           /\ dev'[e].maxChildren >= dev[e].maxChildren
  BY <1>0, RetouchedIs
<1>2. Live \subseteq DevIds  BY LiveIs
<1>3. Rooted'  BY <1>1, <1>2 DEF Tree, Rooted
<1>4. FreeIsNew'  BY <1>1, <1>2 DEF Tree, FreeIsNew, Retouched, Free
<1>5. Children'
  <2> SUFFICES ASSUME NEW e \in Live, NEW i \in PortNums, dev[e].children[i] # Null
               PROVE  /\ dev[e].children[i] \in Live
                      /\ dev'[dev[e].children[i]].pos = Append(dev'[e].pos, i)
                      /\ i <= dev'[e].maxChildren
    BY <1>1, <1>2 DEF Children
  <2>1. dev[e].children[i] \in Live /\ dev[dev[e].children[i]].pos = Append(dev[e].pos, i) /\ i \in 1 .. dev[e].maxChildren
    BY <1>0, LinkIs DEF Tree
  <2>2. dev[e].maxChildren \in Nat /\ dev'[e].maxChildren \in Nat /\ dev'[e].maxChildren >= dev[e].maxChildren
    BY <1>0, <1>1, <1>2 DEF DeviceType, TypeOK
  <2>3. i <= dev'[e].maxChildren  BY <2>1, <2>2
  <2> QED  BY <1>1, <1>2, <2>1, <2>3
<1>6. OnePlace'  BY <1>1, <1>2 DEF Tree, OnePlace
<1>7. Hooked'
  <2> SUFFICES ASSUME NEW e \in Live, dev[e].pos # << >>
               PROVE  \E f \in Live, i \in PortNums : dev'[f].children[i] = e
    BY <1>1, <1>2 DEF Hooked
  <2>1. PICK f \in Live, i \in PortNums : dev[f].children[i] = e  BY DEF Tree, Hooked
  <2> QED  BY <1>1, <1>2, <2>1
<1>8. Parents'  BY <1>0, <1>1, <1>2 DEF Tree, Parents, TypeOK, DeviceType
<1>9. Parented'
  <2> SUFFICES ASSUME NEW e \in Live, dev[e].pos # << >>
               PROVE  dev'[e].status = "Attached" \/ dev[e].parent # Null
    BY <1>1, <1>2 DEF Parented
  <2>1. dev[e].status = "Attached" \/ dev[e].parent # Null  BY DEF Tree, Parented
  <2> QED  BY <1>1, <1>2, <2>1 DEF Retouched
<1>10. PosStay
  <2>1. \A k \in 1 .. Len(frames) : frames[k] \in FrameType  BY <1>0
  <2>2. \A k \in 1 .. Len(frames) : frames[k].dev \in DevIds  BY <2>1 DEF FrameType
  <2> QED  BY <1>1, <2>2 DEF PosStay
<1> QED  BY <1>3, <1>4, <1>5, <1>6, <1>7, <1>8, <1>9, <1>10 DEF Tree

LEMMA RetouchedKeepsTable ==
  ASSUME TypeOK, Table, NEW d, NEW r, Retouched(d, r), UNCHANGED <<devices, gaveUp>>,
         r.number \in {0, dev[d].number} \/ (r.number \in Slots /\ devices[r.number] = d)
  PROVE  Table'
<1>1. /\ d \in DevIds /\ Live' = Live /\ dev'[d] = r /\ \A e \in DevIds : e # d => dev'[e] = dev[e]
  BY RetouchedIs
<1>2. Live \subseteq DevIds /\ d \in Live  BY LiveIs DEF Retouched
<1>3. Numbered'
  <2> SUFFICES ASSUME NEW e \in Live, dev'[e].number # 0
               PROVE  dev'[e].number \in Slots /\ devices[dev'[e].number] = e
    BY <1>1 DEF Numbered
  <2>1. CASE e = d  BY <1>1, <1>2, <2>1 DEF Table, Numbered
  <2>2. CASE e # d  BY <1>1, <1>2, <2>2 DEF Table, Numbered
  <2> QED  BY <2>1, <2>2
<1>4. OneSlot'  BY <1>1 DEF Table, OneSlot
<1> QED  BY <1>3, <1>4 DEF Table

(* The devices at and behind a port are deallocated.                       *)
LEMMA DeallocateIs ==
  ASSUME TypeOK, Tree, NEW r \in Ports, Deallocate(Behind(r))
  PROVE  /\ Live' = Live \ Behind(r) /\ dev' \in [DevIds -> DeviceType]
         /\ devices' \in [Slots -> DevIds \cup {Null}]
         /\ 1 \in Live'
         /\ \A d \in DevIds \ Behind(r) :
              /\ dev'[d].status = dev[d].status /\ dev'[d].number = dev[d].number
              /\ dev'[d].parent = dev[d].parent /\ dev'[d].port = dev[d].port /\ dev'[d].pos = dev[d].pos
              /\ dev'[d].hub = dev[d].hub /\ dev'[d].maxChildren = dev[d].maxChildren
         /\ \A d \in Live' : \A i \in PortNums :
              dev'[d].children[i] = IF Append(dev[d].pos, i) = r THEN Null ELSE dev[d].children[i]
         /\ \A d \in DevIds : dev'[d].maxChildren <= PortCount[dev'[d].pos]
         /\ \A s \in Slots : /\ devices[s] \notin Behind(r) => devices'[s] = devices[s]
                             /\ devices'[s] \in {Null, devices[s]}
                             /\ devices[s] \in Behind(r) /\ dev[devices[s]].number = s /\ dev[devices[s]].status \in Done
                                  => devices'[s] = Null
<1> DEFINE gone == Behind(r)
<1>1. gone \subseteq Live /\ Live \subseteq DevIds  BY LiveIs DEF Behind
<1>2. dev \in [DevIds -> DeviceType] /\ devices \in [Slots -> DevIds \cup {Null}]  BY DEF TypeOK
<1>3. Free \in DeviceType /\ Free.status = "Free" /\ Free.maxChildren <= PortCount[Free.pos]
  <2>1. << >> \in Positions  BY TopologyAssumption
  <2>2. PortCount[<< >>] \in Nat  BY <2>1, PositionIs
  <2>3. 0 \in 0 .. MaxDevices  BY BoundsAssumption
  <2> QED  BY <2>1, <2>2, <2>3 DEF Free, DeviceType
<1>4. dev' = [d \in DevIds |-> IF d \in gone THEN Free
                ELSE [dev[d] EXCEPT !.children = [i \in PortNums |-> IF @[i] \in gone THEN Null ELSE @[i]]]]
  BY DEF Deallocate
<1>5. devices' = [s \in Slots |-> IF SlotGivenUp(s, gone) THEN Null ELSE devices[s]]
  BY DEF Deallocate
<1>6. \A d \in DevIds : dev[d] \in DeviceType  BY <1>2
<1>7. \A d \in gone : dev'[d] = Free  BY <1>1, <1>4
<1> HIDE DEF gone
<1>8. ASSUME NEW d \in DevIds \ gone
      PROVE  /\ dev'[d] \in DeviceType
             /\ dev'[d].status = dev[d].status /\ dev'[d].number = dev[d].number
             /\ dev'[d].parent = dev[d].parent /\ dev'[d].port = dev[d].port /\ dev'[d].pos = dev[d].pos
             /\ dev'[d].hub = dev[d].hub /\ dev'[d].maxChildren = dev[d].maxChildren
             /\ \A i \in PortNums : dev'[d].children[i] = IF dev[d].children[i] \in gone THEN Null ELSE dev[d].children[i]
  <2>1. dev'[d] = [dev[d] EXCEPT !.children = [i \in PortNums |-> IF @[i] \in gone THEN Null ELSE @[i]]]
    BY <1>4
  <2>2. dev[d] \in DeviceType /\ \A i \in PortNums : dev[d].children[i] \in DevIds \cup {Null}  BY <1>6 DEF DeviceType
  <2>3. [i \in PortNums |-> IF dev[d].children[i] \in gone THEN Null ELSE dev[d].children[i]] \in [PortNums -> DevIds \cup {Null}]
    BY <2>2
  <2> QED  BY <2>1, <2>2, <2>3 DEF DeviceType
<1>9. \A d \in DevIds : dev'[d] \in DeviceType /\ dev'[d].maxChildren <= PortCount[dev'[d].pos]
  <2> SUFFICES ASSUME NEW d \in DevIds  PROVE dev'[d] \in DeviceType /\ dev'[d].maxChildren <= PortCount[dev'[d].pos]
    OBVIOUS
  <2>1. CASE d \in gone  BY <1>3, <1>7, <2>1
  <2>2. CASE d \notin gone
    <3>1. dev[d].maxChildren <= PortCount[dev[d].pos]  BY DEF TypeOK
    <3> QED  BY <1>8, <2>2, <3>1
  <2> QED  BY <2>1, <2>2
<1>10. dev' \in [DevIds -> DeviceType]
  <2>1. dev' = [d \in DevIds |-> dev'[d]]  BY <1>4
  <2> QED  BY <1>9, <2>1
<1>11. Live' = Live \ gone
  <2>1. \A d \in DevIds : dev'[d].status # "Free" <=> dev[d].status # "Free" /\ d \notin gone
    BY <1>3, <1>7, <1>8
  <2> QED  BY <2>1 DEF Live
<1>12. 1 \in Live'
  <2>1. 1 \in Live /\ dev[1].pos = << >>  BY DEF Tree, Rooted
  <2>2. 1 \notin gone  BY <2>1, WayOfNothing DEF gone, Behind
  <2> QED  BY <1>11, <2>1, <2>2
<1>13. ASSUME NEW d \in Live', NEW i \in PortNums
       PROVE  dev'[d].children[i] = IF Append(dev[d].pos, i) = r THEN Null ELSE dev[d].children[i]
  <2>1. d \in Live /\ d \notin gone /\ d \in DevIds  BY <1>1, <1>11
  <2>2. dev'[d].children[i] = IF dev[d].children[i] \in gone THEN Null ELSE dev[d].children[i]
    BY <1>8, <2>1
  <2>3. CASE dev[d].children[i] = Null  BY <2>2, <2>3
  <2>4. CASE dev[d].children[i] # Null
    <3> DEFINE c == dev[d].children[i]
    <3>1. c \in Live /\ dev[c].pos = Append(dev[d].pos, i) /\ Way(dev[c].pos) = Way(dev[d].pos) \cup {dev[c].pos}
      BY <2>1, <2>4, LinkIs DEF Tree
    <3>2. r \notin Way(dev[d].pos)  BY <2>1 DEF gone, Behind
    <3>3. c \in gone <=> dev[c].pos = r  BY <3>1, <3>2 DEF gone, Behind
    <3> QED  BY <2>2, <3>1, <3>3
  <2> QED  BY <2>3, <2>4
<1>14. \A s \in Slots : devices'[s] = IF SlotGivenUp(s, gone) THEN Null ELSE devices[s]
  BY <1>5
<1>15. \A s \in Slots : /\ devices[s] \notin gone => devices'[s] = devices[s]
                        /\ devices'[s] \in {Null, devices[s]}
                        /\ devices[s] \in gone /\ dev[devices[s]].number = s /\ dev[devices[s]].status \in Done
                             => devices'[s] = Null
  BY <1>14 DEF SlotGivenUp, Done
<1>16. devices' \in [Slots -> DevIds \cup {Null}]  BY <1>2, <1>5
<1> QED  BY <1>8, <1>9, <1>10, <1>11, <1>12, <1>13, <1>15, <1>16 DEF gone

LEMMA DeallocateKeepsTree ==
  ASSUME TypeOK, Tree, NEW r \in Ports, Deallocate(Behind(r))
  PROVE  Tree'
<1>1. /\ Live' = Live \ Behind(r) /\ dev' \in [DevIds -> DeviceType] /\ 1 \in Live'
      /\ \A d \in DevIds \ Behind(r) :
           /\ dev'[d].status = dev[d].status
           /\ dev'[d].parent = dev[d].parent /\ dev'[d].port = dev[d].port /\ dev'[d].pos = dev[d].pos
           /\ dev'[d].maxChildren = dev[d].maxChildren
      /\ \A d \in Live' : \A i \in PortNums :
           dev'[d].children[i] = IF Append(dev[d].pos, i) = r THEN Null ELSE dev[d].children[i]
      /\ \A s \in Slots : devices[s] \notin Behind(r) => devices'[s] = devices[s]
  BY DeallocateIs
<1>2. Live \subseteq DevIds /\ Behind(r) \subseteq Live  BY LiveIs DEF Behind
<1>3. \A d \in Live' : d \in DevIds \ Behind(r) /\ d \in Live  BY <1>1, <1>2
<1>4. \A d \in Live : d \in Live' <=> r \notin Way(dev[d].pos)  BY <1>1 DEF Behind
<1>5. Rooted'
  <2>1. 1 \in Slots  BY BoundsAssumption DEF Slots
  <2> QED  BY <1>1, <1>3, <2>1 DEF Tree, Rooted
<1>6. FreeIsNew'
  <2>1. ASSUME NEW d \in DevIds, d \notin Live'  PROVE dev'[d] = Free
    <3>1. CASE d \in Behind(r)  BY <3>1 DEF Deallocate
    <3>2. CASE d \notin Behind(r)
      <4>1. dev[d] = Free  BY <1>1, <2>1, <3>2 DEF Tree, FreeIsNew
      <4>2. \A i \in PortNums : Free.children[i] = Null  BY DEF Free
      <4>3. Null \notin Behind(r)  BY <1>2, DeviceIs
      <4>4. dev'[d] = [Free EXCEPT !.children = [i \in PortNums |-> IF Free.children[i] \in Behind(r) THEN Null ELSE Free.children[i]]]
        BY <3>2, <4>1 DEF Deallocate
      <4> QED  BY <4>2, <4>3, <4>4 DEF Free
    <3> QED  BY <3>1, <3>2
  <2> QED  BY <2>1 DEF FreeIsNew
<1>7. Children'
  <2> SUFFICES ASSUME NEW d \in Live', NEW i \in PortNums, dev'[d].children[i] # Null
               PROVE  /\ dev'[d].children[i] \in Live'
                      /\ dev'[dev'[d].children[i]].pos = Append(dev'[d].pos, i)
                      /\ i <= dev'[d].maxChildren
    BY DEF Children
  <2>1. d \in Live /\ d \in DevIds \ Behind(r) /\ r \notin Way(dev[d].pos)  BY <1>3, <1>4
  <2>2. dev'[d].children[i] = dev[d].children[i] /\ Append(dev[d].pos, i) # r  BY <1>1
  <2> DEFINE c == dev[d].children[i]
  <2>3. /\ c \in Live /\ dev[c].pos = Append(dev[d].pos, i) /\ Way(dev[c].pos) = Way(dev[d].pos) \cup {dev[c].pos}
        /\ i <= dev[d].maxChildren
    BY <2>1, <2>2, LinkIs DEF Tree, Children
  <2>4. c \in Live'  BY <1>4, <2>1, <2>2, <2>3
  <2> QED  BY <1>1, <1>3, <2>1, <2>2, <2>3, <2>4
<1>8. OnePlace'  BY <1>1, <1>3 DEF Tree, OnePlace
<1>9. ASSUME NEW d \in Live', NEW e \in Live, NEW i \in PortNums, dev[e].children[i] = d
      PROVE  e \in Live' /\ dev'[e].children[i] = d
  <2>1. d \in Live /\ r \notin Way(dev[d].pos) /\ d # Null  BY <1>2, <1>3, <1>4, DeviceIs
  <2>2. dev[d].pos = Append(dev[e].pos, i) /\ Way(dev[d].pos) = Way(dev[e].pos) \cup {dev[d].pos}
    BY <1>9, <2>1, LinkIs DEF Tree
  <2>3. e \in Live' /\ Append(dev[e].pos, i) # r  BY <1>4, <2>1, <2>2
  <2> QED  BY <1>1, <1>9, <2>3
<1>10. Hooked'
  <2> SUFFICES ASSUME NEW d \in Live', dev'[d].pos # << >>
               PROVE  \E e \in Live', i \in PortNums : dev'[e].children[i] = d
    BY DEF Hooked
  <2>1. PICK e \in Live, i \in PortNums : dev[e].children[i] = d  BY <1>1, <1>3 DEF Tree, Hooked
  <2> QED  BY <1>9, <2>1
<1>11. Parents'
  <2> SUFFICES ASSUME NEW d \in Live', dev'[d].parent # Null
               PROVE  /\ dev'[d].parent \in Live' /\ dev'[d].port \in PortNums
                      /\ dev'[dev'[d].parent].children[dev'[d].port] = d
    BY DEF Parents
  <2>1. d \in Live /\ dev'[d].parent = dev[d].parent /\ dev'[d].port = dev[d].port  BY <1>1, <1>3
  <2>2. dev[d].parent \in Live /\ dev[d].port \in PortNums /\ dev[dev[d].parent].children[dev[d].port] = d
    BY <2>1 DEF Tree, Parents
  <2> QED  BY <1>9, <2>1, <2>2
<1>12. Parented'
  BY <1>1, <1>3 DEF Tree, Parented
<1> QED  BY <1>5, <1>6, <1>7, <1>8, <1>10, <1>11, <1>12 DEF Tree

LEMMA DeallocateKeepsTable ==
  ASSUME TypeOK, Tree, Table, NEW r \in Ports, Deallocate(Behind(r)), gaveUp' = gaveUp,
         gaveUp \/ \A d \in Behind(r) : dev[d].number # 0 /\ dev[d].status \in Done
  PROVE  Table'
<1>1. /\ Live' = Live \ Behind(r)
      /\ \A d \in DevIds \ Behind(r) : dev'[d].number = dev[d].number
      /\ \A s \in Slots : /\ devices[s] \notin Behind(r) => devices'[s] = devices[s]
                          /\ devices'[s] \in {Null, devices[s]}
                          /\ devices[s] \in Behind(r) /\ dev[devices[s]].number = s /\ dev[devices[s]].status \in Done
                               => devices'[s] = Null
  BY DeallocateIs
<1>2. Live \subseteq DevIds /\ Behind(r) \subseteq Live  BY LiveIs DEF Behind
<1>3. Null \notin Live  BY <1>2, DeviceIs
<1>4. Numbered'
  <2> SUFFICES ASSUME NEW d \in Live', dev'[d].number # 0
               PROVE  dev'[d].number \in Slots /\ devices'[dev'[d].number] = d
    BY DEF Numbered
  <2>1. d \in Live /\ d \in DevIds \ Behind(r) /\ dev'[d].number = dev[d].number  BY <1>1, <1>2
  <2>2. dev[d].number \in Slots /\ devices[dev[d].number] = d  BY <2>1 DEF Table, Numbered
  <2> QED  BY <1>1, <2>1, <2>2
<1>5. OneSlot'
  <2> SUFFICES ASSUME ~gaveUp
               PROVE  /\ \A s \in Slots : devices'[s] \in Live' \cup {Null}
                      /\ \A d \in Live' : \E s \in Slots : devices'[s] = d
                      /\ \A s, t \in Slots : devices'[s] = devices'[t] /\ devices'[s] # Null => s = t
    BY DEF OneSlot
  <2>1. /\ \A s \in Slots : devices[s] \in Live \cup {Null}
        /\ \A d \in Live : \E s \in Slots : devices[s] = d
        /\ \A s, t \in Slots : devices[s] = devices[t] /\ devices[s] # Null => s = t
    BY DEF Table, OneSlot
  <2>2. ASSUME NEW s \in Slots  PROVE devices'[s] \in Live' \cup {Null}
    <3>1. CASE devices[s] \in Behind(r)
      <4> DEFINE d == devices[s]
      <4>1. dev[d].number # 0 /\ dev[d].status \in Done /\ d \in Live  BY <1>2, <3>1
      <4>2. dev[d].number \in Slots /\ devices[dev[d].number] = d  BY <4>1 DEF Table, Numbered
      <4>3. dev[d].number = s  BY <1>3, <2>1, <4>1, <4>2
      <4> QED  BY <1>1, <3>1, <4>1, <4>3
    <3>2. CASE devices[s] \notin Behind(r)  BY <1>1, <2>1, <3>2
    <3> QED  BY <3>1, <3>2
  <2>3. ASSUME NEW d \in Live'  PROVE \E s \in Slots : devices'[s] = d
    <3>1. d \in Live /\ d \notin Behind(r)  BY <1>1
    <3>2. PICK s \in Slots : devices[s] = d  BY <2>1, <3>1
    <3> QED  BY <1>1, <3>1, <3>2
  <2>4. ASSUME NEW s \in Slots, NEW t \in Slots, devices'[s] = devices'[t], devices'[s] # Null  PROVE s = t
    BY <1>1, <2>1, <2>4
  <2> QED  BY <2>2, <2>3, <2>4
<1> QED  BY <1>4, <1>5 DEF Table

-----------------------------------------------------------------------------
(* Where the calls are.                                                    *)
LEMMA PlaceIs ==
  ASSUME Types, NEW k \in 1 .. Len(frames)
  PROVE  /\ frames[k] \in FrameType /\ frames[k].dev \in Live /\ frames[k].dev \in DevIds
         /\ PosOf(k) \in Positions /\ PosOf(k) \in Seq(Nat) /\ frames[k].at \in Places[frames[k].proc]
<1>1. frames[k] \in FrameType /\ FrameOK(k) /\ TypeOK  BY DEF Types
<1>2. frames[k].dev \in Live /\ frames[k].dev \in DevIds /\ frames[k].at \in Places[frames[k].proc]
  BY <1>1, LiveIs DEF FrameOK
<1> QED  BY <1>1, <1>2, DeviceIs DEF PosOf

LEMMA PortOfIs ==
  ASSUME Types, NEW k \in 1 .. Len(frames),
         frames[k].proc \in OnPort \/ (frames[k].proc = "CheckForChange" /\ frames[k].at = "checked")
  PROVE  /\ PortOf(k) \in Ports /\ frames[k].port \in PortNums /\ frames[k].port \in Nat \ {0}
         /\ frames[k].port \in 1 .. dev[frames[k].dev].maxChildren
         /\ PortOf(k) # << >> /\ PortOf(k) \in Positions
         /\ Way(PortOf(k)) = Way(PosOf(k)) \cup {PortOf(k)}
         /\ PortOf(k) \notin Way(PosOf(k)) /\ PortOf(k) # PosOf(k)
         /\ On(k) \in DevIds \cup {Null}
<1>1. frames[k].port \in 1 .. dev[frames[k].dev].maxChildren  BY DEF Types, FrameOK
<1>2. /\ frames[k].dev \in DevIds /\ PosOf(k) \in Positions /\ TypeOK  BY PlaceIs DEF Types
<1>3. /\ dev[frames[k].dev].maxChildren \in Nat /\ PortCount[PosOf(k)] \in Nat
      /\ dev[frames[k].dev].maxChildren <= PortCount[PosOf(k)]
      /\ \A i \in PortNums : dev[frames[k].dev].children[i] \in DevIds \cup {Null}
  BY <1>2, DeviceIs DEF PosOf
<1>4. frames[k].port \in 1 .. PortCount[PosOf(k)]  BY <1>1, <1>3
<1>5. /\ Append(PosOf(k), frames[k].port) \in Ports /\ frames[k].port \in PortNums /\ frames[k].port \in Nat \ {0}
      /\ Way(Append(PosOf(k), frames[k].port)) = Way(PosOf(k)) \cup {Append(PosOf(k), frames[k].port)}
      /\ Append(PosOf(k), frames[k].port) \notin Way(PosOf(k)) /\ Append(PosOf(k), frames[k].port) # PosOf(k)
  BY <1>2, <1>4, PortIs
<1> QED  BY <1>1, <1>3, <1>5 DEF PortOf, On, Ports

(* A port that is being changed, but for the last, is on the way to where  *)
(* the calls are.                                                          *)
LEMMA HandsAbove ==
  ASSUME Types, Stack, NEW n \in 1 .. Len(frames), Down(n),
         NEW k \in 1 .. n - 1, frames[k].proc = "ConnectionChanged"
  PROVE  PortOf(k) \in Way(PosOf(n)) /\ frames[k].at = "attached" /\ frames[k + 1].proc = "Attach" /\ PosOf(k + 1) = PortOf(k)
<1>1. Len(frames) \in Nat  BY DEF Types
<1>2. k \in 1 .. Len(frames) /\ k \in 1 .. Len(frames) - 1 /\ k + 1 \in 1 .. Len(frames) /\ k + 1 \in 1 .. n /\ k + 1 <= n
  BY <1>1
<1>3. Calls(k) /\ ~Climbing(k + 1)  BY <1>2 DEF Stack, Links, Down
<1>4. frames[k + 1].proc \in OnPort \cup {"Attach", "HubAttach", "CheckForChange"}  BY <1>2, PlaceIs DEF FrameType
<1>5. frames[k + 1].proc = "Attach" /\ PosOf(k + 1) = PortOf(k) /\ frames[k].at = "attached"
  <2>1. frames[k + 1].proc \notin {"Verify", "PortReset"}  BY <1>3 DEF Climbing
  <2>2. CASE frames[k + 1].proc = "CheckConnection"  BY <1>3, <2>2 DEF Calls
  <2>3. CASE frames[k + 1].proc = "ConnectionChanged"  BY <1>3, <2>3 DEF Calls
  <2>4. CASE frames[k + 1].proc = "Attach"  BY <1>3, <2>4 DEF Calls
  <2>5. CASE frames[k + 1].proc = "HubAttach"  BY <1>3, <2>5 DEF Calls
  <2>6. CASE frames[k + 1].proc = "CheckForChange"  BY <1>3, <2>6 DEF Calls
  <2> QED  BY <1>4, <2>1, <2>2, <2>3, <2>4, <2>5, <2>6 DEF OnPort
<1>6. PortOf(k) # << >> /\ PosOf(k + 1) \in Seq(Nat)
  BY <1>2, PortOfIs, PlaceIs DEF OnPort
<1>7. PortOf(k) \in Way(PosOf(k + 1))  BY <1>5, <1>6, WayEnds
<1>8. Way(PosOf(k + 1)) \subseteq Way(PosOf(n))  BY <1>2 DEF Stack, Chain
<1> QED  BY <1>5, <1>7, <1>8

(* Nothing that is called works at or behind a port that a call that goes  *)
(* down the tree works on.                                                 *)
LEMMA NoneBehind ==
  ASSUME Types, Stack, NEW n \in 1 .. Len(frames), Down(n), frames[n].proc \in OnPort
  PROVE  /\ \A k \in 1 .. n : PortOf(n) \notin Way(PosOf(k)) /\ frames[k].dev \notin Behind(PortOf(n))
         /\ \A k \in 1 .. n - 1 : frames[k].proc = "ConnectionChanged" => PortOf(n) \notin Way(PortOf(k))
<1>1. PortOf(n) \notin Way(PosOf(n)) /\ Len(frames) \in Nat  BY PortOfIs DEF Types
<1>2. ASSUME NEW k \in 1 .. n  PROVE PortOf(n) \notin Way(PosOf(k)) /\ frames[k].dev \notin Behind(PortOf(n))
  <2>1. k \in 1 .. Len(frames) /\ k <= n  BY <1>1
  <2>2. Way(PosOf(k)) \subseteq Way(PosOf(n))  BY <2>1 DEF Stack, Chain
  <2>3. PortOf(n) \notin Way(PosOf(k))  BY <1>1, <2>2
  <2> QED  BY <2>3 DEF Behind, PosOf
<1>3. ASSUME NEW k \in 1 .. n - 1, frames[k].proc = "ConnectionChanged"  PROVE PortOf(n) \notin Way(PortOf(k))
  <2>1. k \in 1 .. n /\ k \in 1 .. Len(frames)  BY <1>1
  <2>2. PortOf(k) \in Way(PosOf(n))  BY <1>3, HandsAbove
  <2>3. Way(PortOf(k)) = Way(PosOf(k)) \cup {PortOf(k)}  BY <1>3, <2>1, PortOfIs DEF OnPort
  <2>4. PortOf(n) # PortOf(k)  BY <1>1, <2>2
  <2> QED  BY <1>2, <2>1, <2>3, <2>4
<1> QED  BY <1>2, <1>3

LEMMA AttachAlone ==
  ASSUME Types, Stack, NEW n \in 1 .. Len(frames), Down(n), frames[n].proc = "Attach"
  PROVE  /\ n # 1 => /\ n - 1 \in 1 .. Len(frames) - 1 /\ frames[n - 1].proc = "ConnectionChanged"
                     /\ frames[n - 1].at = "attached" /\ PosOf(n) = PortOf(n - 1) /\ PosOf(n) # << >>
         /\ n = 1 => frames[n].dev = 1
         /\ \A k \in 1 .. n - 1 : PosOf(n) \notin Way(PosOf(k)) /\ frames[k].dev # frames[n].dev
         /\ \A k \in 1 .. n - 2 : frames[k].proc = "ConnectionChanged" => PortOf(k) # PosOf(n)
<1>1. Len(frames) \in Nat  BY DEF Types
<1>2. CASE n = 1  BY <1>1, <1>2, EmptySeq DEF Stack, First
<1>3. CASE n # 1
  <2>1. n - 1 \in 1 .. Len(frames) - 1 /\ n - 1 \in 1 .. Len(frames) /\ (n - 1) + 1 = n /\ n - 1 \in 1 .. n /\ n - 1 <= n
    BY <1>1, <1>3
  <2>2. Calls(n - 1)  BY <2>1 DEF Stack, Links
  <2>3. frames[n - 1].proc = "ConnectionChanged" /\ frames[n - 1].at = "attached" /\ PosOf(n) = PortOf(n - 1)
    BY <2>1, <2>2 DEF Calls
  <2>4. Down(n - 1)
    <3>1. \A j \in 1 .. n - 1 : j \in 1 .. n  BY <1>1
    <3> QED  BY <3>1 DEF Down
  <2>5. /\ \A k \in 1 .. n - 1 : PortOf(n - 1) \notin Way(PosOf(k))
        /\ \A k \in 1 .. (n - 1) - 1 : frames[k].proc = "ConnectionChanged" => PortOf(n - 1) \notin Way(PortOf(k))
    BY <2>1, <2>3, <2>4, NoneBehind DEF OnPort
  <2>6. PosOf(n) # << >> /\ PosOf(n) \in Seq(Nat) /\ PosOf(n) \in Way(PosOf(n))
    BY <2>1, <2>3, PortOfIs, PlaceIs, WayEnds DEF OnPort
  <2>7. \A k \in 1 .. n - 1 : PosOf(n) \notin Way(PosOf(k)) /\ frames[k].dev # frames[n].dev
    BY <2>3, <2>5, <2>6 DEF PosOf
  <2>8. \A k \in 1 .. n - 2 : frames[k].proc = "ConnectionChanged" => PortOf(k) # PosOf(n)
    <3>1. \A k \in 1 .. n - 2 : k \in 1 .. (n - 1) - 1  BY <1>1
    <3> QED  BY <2>3, <2>5, <2>6, <3>1
  <2> QED  BY <1>3, <2>1, <2>3, <2>6, <2>7, <2>8
<1> QED  BY <1>2, <1>3

LEMMA HubAlone ==
  ASSUME Types, Stack, NEW n \in 1 .. Len(frames), Down(n), frames[n].proc = "HubAttach"
  PROVE  /\ n - 1 \in 1 .. Len(frames) - 1 /\ n - 1 \in 1 .. Len(frames) /\ Down(n - 1)
         /\ frames[n - 1].proc = "Attach" /\ frames[n - 1].at = "end" /\ frames[n - 1].dev = frames[n].dev
         /\ PosOf(n - 1) = PosOf(n)
         /\ \A k \in 1 .. n - 2 : frames[k].dev # frames[n].dev
<1>1. Len(frames) \in Nat  BY DEF Types
<1>2. n # 1  BY EmptySeq DEF Stack, First
<1>3. n - 1 \in 1 .. Len(frames) - 1 /\ n - 1 \in 1 .. Len(frames) /\ (n - 1) + 1 = n
  BY <1>1, <1>2
<1>4. Calls(n - 1)  BY <1>3 DEF Stack, Links
<1>5. frames[n - 1].proc = "Attach" /\ frames[n - 1].at = "end" /\ frames[n - 1].dev = frames[n].dev
  BY <1>3, <1>4 DEF Calls
<1>6. Down(n - 1)
  <2>1. \A j \in 1 .. n - 1 : j \in 1 .. n  BY <1>1
  <2> QED  BY <2>1 DEF Down
<1>7. \A k \in 1 .. n - 2 : k \in 1 .. (n - 1) - 1  BY <1>1
<1> QED  BY <1>3, <1>5, <1>6, <1>7, AttachAlone DEF PosOf

(* What a call still knows while the one it made goes on.                  *)
Waits(k) ==
  LET at == frames[k].at p == PortOf(k) q == PosOf(k) d == frames[k].dev c == On(k) IN
  /\ frames[k].proc = "ConnectionChanged" =>
       /\ p \notin connChange /\ p \in plugged
       /\ \/ at = "was_reset" /\ c = Null
          \/ at = "attached" /\ c # Null /\ dev[c].parent # Null
  /\ frames[k].proc = "Attach" =>
       /\ q # <<>> => dev[d].parent # Null /\ q \in plugged
       /\ \/ /\ at = "rereset" /\ Bare(d) /\ Reports(q) /\ dev[d].number = 0 /\ frames[k].n \in Slots
             /\ devices[frames[k].n] = d /\ dev[d].status \in {"Attached", "Powered", "Default"}
          \/ at = "end" /\ (q # <<>> => Up(q)) /\ dev[d].number # 0 /\ dev[d].status \in Done
  /\ frames[k].proc = "HubAttach" => at = "port" /\ dev[d].status \in Done

LEMMA WaitsIs ==
  ASSUME Types, Stack, Knowledge, NEW k \in 1 .. Len(frames) - 1, frames[k + 1].proc # "Verify"
  PROVE  Waits(k) /\ frames[k].proc # "PortReset"
<1>1. Len(frames) \in Nat  BY DEF Types
<1>2. k \in 1 .. Len(frames) /\ k + 1 \in 1 .. Len(frames) /\ k # Len(frames)  BY <1>1
<1>3. Calls(k) /\ Knows(k)  BY <1>2 DEF Stack, Links, Knowledge
<1>4. frames[k + 1].proc \in (OnPort \cup {"Attach", "HubAttach", "CheckForChange"}) \ {"Verify"}
  BY <1>2, PlaceIs DEF FrameType
<1>5. /\ frames[k].proc # "PortReset"
      /\ frames[k].proc = "ConnectionChanged" => frames[k].at \in {"was_reset", "attached"}
      /\ frames[k].proc = "Attach" => frames[k].at \in {"rereset", "end"}
      /\ frames[k].proc = "HubAttach" => frames[k].at = "port"
  BY <1>3, <1>4 DEF Calls, OnPort
<1>6. frames[k].proc = "ConnectionChanged" =>
        /\ PortOf(k) \notin connChange /\ PortOf(k) \in plugged
        /\ \/ frames[k].at = "was_reset" /\ On(k) = Null
           \/ frames[k].at = "attached" /\ On(k) # Null /\ dev[On(k)].parent # Null
  BY <1>3, <1>5 DEF Knows, KnowsChanged
<1>7. frames[k].proc = "Attach" =>
       /\ PosOf(k) # <<>> => dev[frames[k].dev].parent # Null /\ PosOf(k) \in plugged
       /\ \/ /\ frames[k].at = "rereset" /\ Bare(frames[k].dev) /\ Reports(PosOf(k)) /\ dev[frames[k].dev].number = 0
             /\ frames[k].n \in Slots /\ devices[frames[k].n] = frames[k].dev
             /\ dev[frames[k].dev].status \in {"Attached", "Powered", "Default"}
          \/ /\ frames[k].at = "end" /\ (PosOf(k) # <<>> => Up(PosOf(k)))
             /\ dev[frames[k].dev].number # 0 /\ dev[frames[k].dev].status \in Done
  BY <1>3, <1>5 DEF Knows, KnowsAttach, Early, Late
<1>8. frames[k].proc = "HubAttach" => frames[k].at = "port" /\ dev[frames[k].dev].status \in Done
  BY <1>3, <1>5 DEF Knows, KnowsHub
<1> QED  BY <1>5, <1>6, <1>7, <1>8 DEF Waits

LEMMA WaitsKnows ==
  ASSUME NEW k, (k # Len(frames))', (frames[k + 1].proc # "Verify")', (frames[k].proc # "PortReset")', Waits(k)'
  PROVE  Knows(k)'
<1>1. ~IsTop(k)' /\ ~Asking(k)' /\ ~GotOK(k)' /\ ~GotError(k)'  BY DEF IsTop, Asking, GotOK, GotError
<1>2. KnowsCheck(k)'  BY <1>1 DEF KnowsCheck
<1>3. KnowsChanged(k)'
  <2>1. CASE frames'[k].proc = "ConnectionChanged"  BY <1>1, <2>1 DEF KnowsChanged, Waits
  <2> QED  BY <2>1 DEF KnowsChanged
<1>4. KnowsReset(k)'  BY DEF KnowsReset
<1>5. KnowsAttach(k)'
  <2>1. CASE frames'[k].proc = "Attach"  BY <1>1, <2>1 DEF KnowsAttach, Waits, Early, Late
  <2> QED  BY <2>1 DEF KnowsAttach
<1>6. KnowsHub(k)'
  <2>1. CASE frames'[k].proc = "HubAttach"  BY <1>1, <2>1 DEF KnowsHub, Waits
  <2> QED  BY <2>1 DEF KnowsHub
<1>7. KnowsWalk(k)'  BY <1>1 DEF KnowsWalk
<1> QED  BY <1>2, <1>3, <1>4, <1>5, <1>6, <1>7 DEF Knows

(* The world stays, but for what is read of a port and its enable change.  *)
Calm ==
  /\ UNCHANGED <<dev, devices, plugged, enabled, connChange>> /\ (gaveUp => gaveUp')
  /\ status' = status \/ \E p \in Ports : status' = [status EXCEPT ![p] = PortStatus(p)]

LEMMA CalmIs ==
  ASSUME TypeOK, Calm
  PROVE  /\ status' \in [Ports -> [conn : BOOLEAN, connCh : BOOLEAN, en : BOOLEAN, enCh : BOOLEAN]]
         /\ \A p \in Ports : \/ status'[p] = status[p]
                             \/ status'[p].conn = (p \in plugged) /\ status'[p].en = (p \in enabled)
         /\ \A p \in Ports : Up(p) => Up(p)'
         /\ \A p : Reports(p)' = Reports(p)
<1>1. status \in [Ports -> [conn : BOOLEAN, connCh : BOOLEAN, en : BOOLEAN, enCh : BOOLEAN]]  BY DEF TypeOK
<1>2. \A p : PortStatus(p) \in [conn : BOOLEAN, connCh : BOOLEAN, en : BOOLEAN, enCh : BOOLEAN]
               /\ PortStatus(p).conn = (p \in plugged) /\ PortStatus(p).en = (p \in enabled)
  BY DEF PortStatus
<1>3. CASE status' = status
  BY <1>1, <1>3 DEF Calm, Up, Reports
<1>4. CASE \E p \in Ports : status' = [status EXCEPT ![p] = PortStatus(p)]
  <2>1. PICK p \in Ports : status' = [status EXCEPT ![p] = PortStatus(p)]  BY <1>4
  <2>2. status'[p] = PortStatus(p) /\ \A q \in Ports : q # p => status'[q] = status[q]  BY <1>1, <2>1
  <2>3. status' \in [Ports -> [conn : BOOLEAN, connCh : BOOLEAN, en : BOOLEAN, enCh : BOOLEAN]]
    BY <1>1, <1>2, <2>1
  <2>4. \A q \in Ports : \/ status'[q] = status[q]
                         \/ status'[q].conn = (q \in plugged) /\ status'[q].en = (q \in enabled)
    BY <1>2, <2>2
  <2>5. UNCHANGED <<plugged, enabled, connChange>> /\ enabled \subseteq plugged  BY DEF Calm, TypeOK
  <2>6. \A q \in Ports : Up(q) => Up(q)'  BY <2>4, <2>5 DEF Up
  <2>7. \A q : Reports(q)' = Reports(q)  BY <2>5 DEF Reports
  <2> QED  BY <2>3, <2>4, <2>6, <2>7
<1> QED  BY <1>3, <1>4 DEF Calm

LEMMA CalmKnows ==
  ASSUME Types, Stack, Knowledge, Calm, NEW k \in 1 .. Len(frames) - 1, k # Len(frames)',
         frames'[k] = frames[k], frames'[k + 1].proc = frames[k + 1].proc
  PROVE  Knows(k)'
<1>1. Len(frames) \in Nat /\ TypeOK  BY DEF Types
<1>2. k \in 1 .. Len(frames) /\ k + 1 \in 1 .. Len(frames) /\ k # Len(frames) /\ k < Len(frames)  BY <1>1
<1>3. Calls(k) /\ Knows(k)  BY <1>2 DEF Stack, Links, Knowledge
<1>4. /\ \A p \in Ports : \/ status'[p] = status[p]
                          \/ status'[p].conn = (p \in plugged) /\ status'[p].en = (p \in enabled)
      /\ \A p \in Ports : Up(p) => Up(p)'
      /\ \A p : Reports(p)' = Reports(p)
      /\ UNCHANGED <<dev, devices, plugged, enabled, connChange>> /\ (gaveUp => gaveUp')
  BY <1>1, CalmIs DEF Calm
<1>5. PosOf(k)' = PosOf(k) /\ PortOf(k)' = PortOf(k) /\ On(k)' = On(k) /\ \A d : Bare(d)' = Bare(d)
  BY <1>4 DEF PosOf, PortOf, On, Bare
<1>6. frames[k].proc \in OnPort => PortOf(k) \in Ports  BY <1>2, PortOfIs
<1>7. PosOf(k) # <<>> => PosOf(k) \in Ports  BY <1>2, PlaceIs DEF Ports
<1>8. /\ ~IsTop(k) /\ ~IsTop(k)' /\ ~GotOK(k) /\ ~GotOK(k)'
      /\ GotError(k)' => GotError(k)
      /\ Asking(k)' => Asking(k)
  BY <1>2 DEF IsTop, Asking, GotOK, GotError
<1>9. Asking(k) => Asked(k)  BY <1>3 DEF Asking, Calls
<1>10. KnowsCheck(k)'
  <2> SUFFICES ASSUME frames[k].proc = "CheckConnection", Asking(k)
               PROVE  /\ frames[k].at \in {"enable", "clear_enable", "interference", "others", "clear", "done"} => PortOf(k) \notin connChange
                      /\ frames[k].at \in {"enable", "clear_enable", "interference"} /\ On(k) # Null =>
                           /\ PortOf(k) \in plugged /\ status'[PortOf(k)].conn
                           /\ status'[PortOf(k)].en <=> PortOf(k) \in enabled
                           /\ frames[k].at = "interference" \/ PortOf(k) \in enabled \/ status'[PortOf(k)].enCh
                      /\ frames[k].at \in {"others", "clear", "done"} /\ On(k) # Null => PortOf(k) \in enabled
    BY <1>4, <1>5, <1>8 DEF KnowsCheck
  <2>1. frames[k].at \in {"got", "interference", "done"}  BY <1>9 DEF Asked, Requests
  <2> QED  BY <1>3, <1>4, <1>6, <2>1 DEF Knows, KnowsCheck, OnPort
<1>11. KnowsChanged(k)'
  <2> SUFFICES ASSUME frames[k].proc = "ConnectionChanged"  PROVE KnowsChanged(k)'
    BY DEF KnowsChanged
  <2>1. PortOf(k) \in Ports  BY <1>6 DEF OnPort
  <2> QED  BY <1>3, <1>4, <1>5, <1>8, <2>1 DEF Knows, KnowsChanged
<1>12. KnowsReset(k)'
  <2> SUFFICES ASSUME frames[k].proc = "PortReset"  PROVE KnowsReset(k)'
    BY DEF KnowsReset
  <2>1. PortOf(k) \in Ports  BY <1>6 DEF OnPort
  <2> QED  BY <1>3, <1>4, <1>5, <1>8, <2>1 DEF Knows, KnowsReset
<1>13. KnowsAttach(k)'
  <2> SUFFICES ASSUME frames[k].proc = "Attach"  PROVE KnowsAttach(k)'
    BY DEF KnowsAttach
  <2>1. KnowsAttach(k)  BY <1>3 DEF Knows
  <2> QED  BY <1>4, <1>5, <1>7, <1>8, <2>1 DEF KnowsAttach
<1>14. KnowsHub(k)'
  BY <1>3, <1>4, <1>5 DEF Knows, KnowsHub
<1>15. KnowsWalk(k)'  BY <1>8 DEF KnowsWalk
<1> QED  BY <1>10, <1>11, <1>12, <1>13, <1>14, <1>15 DEF Knows

(* The innermost call is still there, with or without one that it made.    *)
Stays(f) ==
  /\ frames # << >> /\ frames' # << >> /\ frames' \in Seq(FrameType) /\ Len(frames') >= Len(frames)
  /\ Lower /\ frames'[Len(frames)] = f /\ Kin(f)

LEMMA BothStay ==
  ASSUME frames \in Seq(FrameType), NEW f
  PROVE  (Goes(f) => Stays(f)) /\ \A g : Makes(f, g) => Stays(f)
<1>1. frames # << >> => Len(frames) \in Nat \ {0}  BY FramesAre
<1>2. Goes(f) => Stays(f)  BY <1>1 DEF Goes, Stays
<1>3. ASSUME NEW g, Makes(f, g)  PROVE Stays(f)
  <2>1. frames # << >>  BY <1>3 DEF Makes
  <2>2. Len(frames) + 1 >= Len(frames)  BY <1>1, <2>1
  <2> QED  BY <1>3, <2>2 DEF Makes, Stays
<1> QED  BY <1>2, <1>3

LEMMA StaysIs ==
  ASSUME frames \in Seq(FrameType), NEW f, Stays(f)
  PROVE  /\ \A k \in 1 .. Len(frames) : /\ k \in 1 .. Len(frames')
                                        /\ frames'[k].proc = frames[k].proc /\ frames'[k].dev = frames[k].dev
         /\ \A k \in 1 .. Len(frames) - 1 : frames'[k] = frames[k] /\ k \in 1 .. Len(frames)
         /\ \A k \in 1 .. Len(frames) : frames'[k].port = frames[k].port \/ frames[k].proc \in {"HubAttach", "CheckForChange"}
         /\ \A k \in 1 .. Len(frames) : k = Len(frames) \/ k \in 1 .. Len(frames) - 1
         /\ Top = frames[Len(frames)] /\ Len(frames) \in Nat \ {0} /\ Len(frames') \in Nat
<1>1. Len(frames) \in Nat \ {0} /\ Top = frames[Len(frames)]  BY FramesAre DEF Stays
<1>2. Len(frames') \in Nat /\ Len(frames') >= Len(frames)  BY DEF Stays
<1>3. \A k \in 1 .. Len(frames) - 1 : frames'[k] = frames[k] /\ k \in 1 .. Len(frames)
  BY <1>1 DEF Stays, Lower
<1>4. \A k \in 1 .. Len(frames) : k \in 1 .. Len(frames') /\ (k = Len(frames) \/ k \in 1 .. Len(frames) - 1)
  BY <1>1, <1>2
<1>5. /\ frames'[Len(frames)].proc = Top.proc /\ frames'[Len(frames)].dev = Top.dev
      /\ frames'[Len(frames)].port = Top.port \/ Top.proc \in {"HubAttach", "CheckForChange"}
  BY DEF Stays, Kin
<1> QED  BY <1>1, <1>2, <1>3, <1>4, <1>5

LEMMA HandsStay ==
  ASSUME frames \in Seq(FrameType), PosStay, NEW f, Stays(f)
  PROVE  /\ \A p : InHand(p) => InHand(p)'
         /\ \A d : EarlyNow(d) => EarlyNow(d)' \/ (d = Top.dev /\ Top.proc = "Attach" /\ Top.at \in Early /\ f.at \notin Early)
         /\ frames'[1].proc = frames[1].proc /\ frames'[1].dev = frames[1].dev
<1>1. /\ \A k \in 1 .. Len(frames) : /\ k \in 1 .. Len(frames')
                                     /\ frames'[k].proc = frames[k].proc /\ frames'[k].dev = frames[k].dev
      /\ \A k \in 1 .. Len(frames) - 1 : frames'[k] = frames[k] /\ k \in 1 .. Len(frames)
      /\ \A k \in 1 .. Len(frames) : frames'[k].port = frames[k].port \/ frames[k].proc \in {"HubAttach", "CheckForChange"}
      /\ \A k \in 1 .. Len(frames) : k = Len(frames) \/ k \in 1 .. Len(frames) - 1
      /\ Top = frames[Len(frames)] /\ Len(frames) \in Nat \ {0}
  BY StaysIs
<1>2. ASSUME NEW p, InHand(p)  PROVE InHand(p)'
  <2>1. PICK k \in 1 .. Len(frames) : frames[k].proc = "ConnectionChanged" /\ PortOf(k) = p  BY <1>2 DEF InHand
  <2>2. k \in 1 .. Len(frames') /\ frames'[k].proc = "ConnectionChanged" /\ frames'[k].dev = frames[k].dev /\ frames'[k].port = frames[k].port
    BY <1>1, <2>1
  <2>3. PortOf(k)' = PortOf(k)  BY <2>2 DEF PortOf, PosOf, PosStay
  <2> QED  BY <2>1, <2>2, <2>3 DEF InHand
<1>3. ASSUME NEW d, EarlyNow(d)
      PROVE  EarlyNow(d)' \/ (d = Top.dev /\ Top.proc = "Attach" /\ Top.at \in Early /\ f.at \notin Early)
  <2>1. PICK k \in 1 .. Len(frames) : frames[k].proc = "Attach" /\ frames[k].at \in Early /\ frames[k].dev = d
    BY <1>3 DEF EarlyNow
  <2>2. k \in 1 .. Len(frames') /\ frames'[k].proc = "Attach" /\ frames'[k].dev = d  BY <1>1, <2>1
  <2>3. CASE k = Len(frames)
    <3>1. frames'[k] = f /\ Top = frames[k]  BY <1>1, <2>3 DEF Stays
    <3> QED  BY <2>1, <2>2, <3>1 DEF EarlyNow
  <2>4. CASE k \in 1 .. Len(frames) - 1
    <3>1. frames'[k] = frames[k]  BY <1>1, <2>4
    <3> QED  BY <2>1, <2>2, <3>1 DEF EarlyNow
  <2> QED  BY <1>1, <2>3, <2>4
<1>4. 1 \in 1 .. Len(frames)  BY <1>1
<1> QED  BY <1>1, <1>2, <1>3, <1>4

LEMMA ElsewhereStays ==
  ASSUME Types, Elsewhere, PosStay, NEW f, Stays(f),
         UNCHANGED <<plugged, enabled, connChange>>, gaveUp => gaveUp', Live' = Live,
         \A d \in Live : /\ dev'[d].pos = dev[d].pos /\ dev'[d].children = dev[d].children /\ dev'[d].parent = dev[d].parent
                         /\ d # Top.dev => dev'[d].number = dev[d].number /\ dev'[d].status = dev[d].status
                         /\ dev'[d].hub => (dev[d].hub /\ dev'[d].maxChildren = dev[d].maxChildren) \/ SeenOf(d)'
                         /\ LET p == dev[d].pos IN
                            p \notin enabled /\ (p \in enableChange \/ Cleared(p))
                              => p \in enableChange' \/ Cleared(p)' \/ InHand(p)',
         \A d \in Live : d = Top.dev =>
           \/ /\ dev'[d].number = dev[d].number /\ dev'[d].status = dev[d].status
              /\ Top.proc # "Attach" \/ Top.at \notin Early \/ f.at \in Early
           \/ AddressedIs(d)'
  PROVE  Elsewhere'
<1>1. frames \in Seq(FrameType)  BY DEF Types
<1>2. /\ \A p : InHand(p) => InHand(p)'
      /\ \A d : EarlyNow(d) => EarlyNow(d)' \/ (d = Top.dev /\ Top.proc = "Attach" /\ Top.at \in Early /\ f.at \notin Early)
      /\ frames'[1].proc = frames[1].proc /\ frames' # << >>
  BY <1>1, HandsStay DEF Stays
<1>3. Off'
  <2> SUFFICES ASSUME NEW d \in Live, Way(dev[d].pos) \ {dev[d].pos} \subseteq enabled, dev[d].pos \notin enabled, dev[d].pos # <<>>
               PROVE  dev[d].pos \in connChange \cup enableChange' \/ InHand(dev[d].pos)' \/ Cleared(dev[d].pos)'
    BY DEF Off, Way
  <2>1. dev[d].pos \in connChange \cup enableChange \/ InHand(dev[d].pos) \/ Cleared(dev[d].pos)
    BY DEF Elsewhere, Off
  <2> QED  BY <1>2, <2>1
<1>4. Seen'
  <2> SUFFICES ASSUME NEW d \in Live  PROVE SeenOf(d)'
    BY DEF Seen
  <2>1. SeenOf(d)  BY DEF Elsewhere, Seen
  <2>2. CASE dev[d].hub /\ dev'[d].maxChildren = dev[d].maxChildren  BY <1>2, <2>1, <2>2 DEF SeenOf, Way
  <2>3. CASE ~dev'[d].hub  BY <2>3 DEF SeenOf
  <2> QED  BY <2>2, <2>3
<1>5. Addressed'
  <2> SUFFICES ASSUME NEW d \in Live  PROVE AddressedIs(d)'
    BY DEF Addressed
  <2>1. AddressedIs(d)  BY DEF Elsewhere, Addressed
  <2>2. CASE d # Top.dev  BY <1>2, <2>1, <2>2 DEF AddressedIs
  <2>3. CASE d = Top.dev
    <3>1. CASE AddressedIs(d)'  BY <3>1
    <3>2. CASE /\ dev'[d].number = dev[d].number /\ dev'[d].status = dev[d].status
               /\ Top.proc # "Attach" \/ Top.at \notin Early \/ f.at \in Early
      <4>1. EarlyNow(d) => EarlyNow(d)'  BY <1>2, <3>2
      <4> QED  BY <1>2, <2>1, <3>2, <4>1 DEF AddressedIs
    <3> QED  BY <2>3, <3>1, <3>2
  <2> QED  BY <2>2, <2>3
<1> QED  BY <1>3, <1>4, <1>5 DEF Elsewhere

-----------------------------------------------------------------------------
(* The moves of the stack, as the actions write them.                      *)
Procs == OnPort \cup {"Attach", "HubAttach", "CheckForChange"}

LEMMA PlacesAre ==
  /\ DOMAIN Places = Procs
  /\ \A p \in Procs : \A a \in Places[p] : a \in UNION {Places[proc] : proc \in DOMAIN Places}
<1>1. DOMAIN Places = Procs  BY DEF Places, Procs, OnPort
<1> HIDE DEF Places
<1> QED  BY <1>1

LEMMA FrameIs ==
  ASSUME NEW proc \in Procs, NEW at \in Places[proc], NEW d \in DevIds, NEW port \in Nat, NEW m \in Nat
  PROVE  [proc |-> proc, at |-> at, dev |-> d, port |-> port, n |-> m] \in FrameType
<1>1. at \in UNION {Places[p] : p \in DOMAIN Places}  BY PlacesAre
<1> QED  BY <1>1 DEF FrameType, Procs

LEMMA TopIs ==
  ASSUME Types, frames # << >>
  PROVE  /\ Top \in FrameType /\ Top = frames[Len(frames)] /\ Len(frames) \in Nat \ {0} /\ Len(frames) \in 1 .. Len(frames)
         /\ Top.proc \in Procs /\ Top.at \in Places[Top.proc] /\ Top.dev \in Live /\ Top.dev \in DevIds
         /\ Top.port \in Nat /\ Top.n \in Nat
         /\ Top = [proc |-> Top.proc, at |-> Top.at, dev |-> Top.dev, port |-> Top.port, n |-> Top.n]
         /\ Here = dev[frames[Len(frames)].dev] /\ Here.pos = PosOf(Len(frames))
         /\ Child = On(Len(frames)) /\ PortPos = PortOf(Len(frames))
         /\ IsTop(Len(frames))
<1>1. frames \in Seq(FrameType)  BY DEF Types
<1>2. Top \in FrameType /\ Top = frames[Len(frames)] /\ Len(frames) \in Nat \ {0} /\ Len(frames) \in 1 .. Len(frames)
  BY <1>1, FramesAre
<1>3. FrameOK(Len(frames))  BY <1>2 DEF Types
<1>4. Top.dev \in Live /\ Top.dev \in DevIds /\ Top.at \in Places[Top.proc]  BY <1>2, <1>3, LiveIs DEF FrameOK
<1>5. Top.proc \in Procs /\ Top.port \in Nat /\ Top.n \in Nat
      /\ Top = [proc |-> Top.proc, at |-> Top.at, dev |-> Top.dev, port |-> Top.port, n |-> Top.n]
  BY <1>2 DEF FrameType, Procs
<1>6. Here = dev[frames[Len(frames)].dev] /\ Here.pos = PosOf(Len(frames))
      /\ Child = On(Len(frames)) /\ PortPos = PortOf(Len(frames))
  BY <1>2 DEF Here, PosOf, Child, On, PortPos, PortOf
<1> QED  BY <1>2, <1>4, <1>5, <1>6 DEF IsTop

(* The innermost call, gone on to a place with a port and a number.        *)
On1(a, i, m) == [proc |-> Top.proc, at |-> a, dev |-> Top.dev, port |-> i, n |-> m]

LEMMA OnIs ==
  ASSUME Types, frames # << >>, NEW a \in Places[Top.proc], NEW m \in Nat, NEW i \in Nat
  PROVE  /\ [Top EXCEPT !.at = a] = On1(a, Top.port, Top.n)
         /\ [Top EXCEPT !.at = a, !.n = m] = On1(a, Top.port, m)
         /\ [Top EXCEPT !.at = a, !.port = i] = On1(a, i, Top.n)
<1> DEFINE A == UNION {Places[p] : p \in DOMAIN Places}
           P == OnPort \cup {"Attach", "HubAttach", "CheckForChange"}
           R == [proc : P, at : A, dev : DevIds, port : Nat, n : Nat]
           t == Top
           u == [t EXCEPT !.at = a]
           v == [t EXCEPT !.at = a, !.n = m]
           w == [t EXCEPT !.at = a, !.port = i]
<1>1. t \in R /\ a \in A
  <2>1. Top \in FrameType /\ a \in A  BY TopIs, PlacesAre
  <2> QED  BY <2>1 DEF FrameType
<1> HIDE DEF A, P, t
<1>2. u \in R /\ v \in R /\ w \in R  BY <1>1
<1>3. /\ On1(a, t.port, t.n) \in R /\ On1(a, t.port, m) \in R /\ On1(a, i, t.n) \in R
  BY <1>1 DEF On1, t
<1>4. ASSUME NEW x \in R, NEW y \in R, x.proc = y.proc, x.at = y.at, x.dev = y.dev, x.port = y.port, x.n = y.n
      PROVE  x = y
  BY <1>4
<1>5. /\ u.proc = t.proc /\ u.at = a /\ u.dev = t.dev /\ u.port = t.port /\ u.n = t.n
      /\ v.proc = t.proc /\ v.at = a /\ v.dev = t.dev /\ v.port = t.port /\ v.n = m
      /\ w.proc = t.proc /\ w.at = a /\ w.dev = t.dev /\ w.port = i /\ w.n = t.n
  BY <1>1
<1> HIDE DEF u, v, w, R
<1>6. \A j, k : /\ On1(a, j, k).proc = t.proc /\ On1(a, j, k).at = a /\ On1(a, j, k).dev = t.dev
                /\ On1(a, j, k).port = j /\ On1(a, j, k).n = k
  BY DEF On1, t
<1>7. u = On1(a, t.port, t.n) /\ v = On1(a, t.port, m) /\ w = On1(a, i, t.n)
  BY <1>2, <1>3, <1>4, <1>5, <1>6
<1> QED  BY <1>7 DEF t, u, v, w

LEMMA OnMoves ==
  ASSUME Types, frames # << >>, NEW a \in Places[Top.proc], NEW i \in Nat, NEW m \in Nat,
         i = Top.port \/ Top.proc \in {"HubAttach", "CheckForChange"}
  PROVE  /\ On1(a, i, m) \in FrameType /\ On1(a, i, m).proc = Top.proc /\ On1(a, i, m).at = a
         /\ On1(a, i, m).dev = Top.dev /\ On1(a, i, m).port = i /\ On1(a, i, m).n = m
         /\ frames' = Append(Front(frames), On1(a, i, m)) => Goes(On1(a, i, m))
         /\ \A g \in FrameType : frames' = Append(Append(Front(frames), On1(a, i, m)), g) => Makes(On1(a, i, m), g)
<1>1. frames \in Seq(FrameType) /\ Top.proc \in Procs /\ Top.dev \in DevIds  BY TopIs DEF Types
<1>2. On1(a, i, m) \in FrameType  BY <1>1, FrameIs DEF On1
<1>3. /\ On1(a, i, m).proc = Top.proc /\ On1(a, i, m).at = a
      /\ On1(a, i, m).dev = Top.dev /\ On1(a, i, m).port = i /\ On1(a, i, m).n = m
  BY DEF On1
<1>4. Kin(On1(a, i, m))  BY <1>3 DEF Kin
<1> DEFINE f == On1(a, i, m)
<1> HIDE DEF f
<1>5. f \in FrameType /\ Kin(f)  BY <1>2, <1>4 DEF f
<1>6. frames' = Append(Front(frames), f) => Goes(f)
  BY <1>1, <1>5, GotoIs DEF Goes, Lower
<1>7. \A g \in FrameType : frames' = Append(Append(Front(frames), f), g) => Makes(f, g)
  BY <1>1, <1>5, CallIs DEF Makes, Lower
<1> QED  BY <1>2, <1>3, <1>6, <1>7 DEF f

LEMMA ReturnIs ==
  ASSUME Types, frames # << >>, frames' = Front(frames)
  PROVE  Returns
  BY FrontIs DEF Returns, Lower, Types

LEMMA KnowsIs ==
  ASSUME NEW k
  PROVE  /\ frames'[k].proc = "Verify" => Knows(k)'
         /\ frames'[k].proc = "CheckConnection" /\ KnowsCheck(k)' => Knows(k)'
         /\ frames'[k].proc = "ConnectionChanged" /\ KnowsChanged(k)' => Knows(k)'
         /\ frames'[k].proc = "PortReset" /\ KnowsReset(k)' => Knows(k)'
         /\ frames'[k].proc = "Attach" /\ KnowsAttach(k)' => Knows(k)'
         /\ frames'[k].proc = "HubAttach" /\ KnowsHub(k)' => Knows(k)'
         /\ frames'[k].proc = "CheckForChange" /\ KnowsWalk(k)' => Knows(k)'
<1>1. frames'[k].proc # "CheckConnection" => KnowsCheck(k)'  BY DEF KnowsCheck
<1>2. frames'[k].proc # "ConnectionChanged" => KnowsChanged(k)'  BY DEF KnowsChanged
<1>3. frames'[k].proc # "PortReset" => KnowsReset(k)'  BY DEF KnowsReset
<1>4. frames'[k].proc # "Attach" => KnowsAttach(k)'  BY DEF KnowsAttach
<1>5. frames'[k].proc # "HubAttach" => KnowsHub(k)'  BY DEF KnowsHub
<1>6. frames'[k].proc # "CheckForChange" => KnowsWalk(k)'  BY DEF KnowsWalk
<1> QED  BY <1>1, <1>2, <1>3, <1>4, <1>5, <1>6 DEF Knows

-----------------------------------------------------------------------------
(* In a calm world a step keeps the invariant when the innermost calls do. *)
NotCleared == ~(Top.proc = "CheckConnection" /\ Top.at = "interference")

OffKept ==
  \/ enableChange' = enableChange /\ NotCleared
  \/ \A d \in Live : LET p == dev[d].pos IN
       p \notin enabled /\ (p \in enableChange \/ Cleared(p)) => p \in enableChange' \/ Cleared(p)' \/ InHand(p)'

LEMMA OffKeptIs ==
  ASSUME Types, frames # << >>, OffKept
  PROVE  \A d \in Live : LET p == dev[d].pos IN
           p \notin enabled /\ (p \in enableChange \/ Cleared(p)) => p \in enableChange' \/ Cleared(p)' \/ InHand(p)'
<1>1. Top = frames[Len(frames)]  BY TopIs
<1>2. NotCleared => \A p : ~Cleared(p)  BY <1>1 DEF NotCleared, Cleared
<1> QED  BY <1>2 DEF OffKept

LEMMA CalmTypes ==
  ASSUME TypeOK, Calm, result' \in {"ok", "error", "disconnected"}, enableChange' \subseteq enableChange
  PROVE  TypeOK'
<1>1. /\ status' \in [Ports -> [conn : BOOLEAN, connCh : BOOLEAN, en : BOOLEAN, enCh : BOOLEAN]]
      /\ UNCHANGED <<dev, devices, plugged, enabled, connChange>>
  BY CalmIs DEF Calm
<1> QED  BY <1>1 DEF TypeOK

LEMMA CalmTree ==
  ASSUME TypeOK, Tree, Table, Calm
  PROVE  Tree' /\ Table' /\ Live' = Live /\ PosStay
<1>1. dev' = dev /\ devices' = devices /\ (gaveUp => gaveUp')  BY DEF Calm
<1>2. Live' = Live /\ PosStay  BY <1>1 DEF Live, PosStay
<1>3. Tree'  BY <1>1, <1>2 DEF Tree, Rooted, FreeIsNew, Children, OnePlace, Hooked, Parents, Parented
<1>4. Table'  BY <1>1, <1>2 DEF Table, Numbered, OneSlot
<1> QED  BY <1>2, <1>3, <1>4

LEMMA CalmOpen ==
  ASSUME Calm, NEW k, frames'[k] = frames[k], Open(k)
  PROVE  Open(k)'
  BY DEF Calm, Open, Rereset, Settled, PosOf, Way

LEMMA CalmFrameOK ==
  ASSUME TypeOK, Calm, NEW k, frames'[k] = frames[k], FrameOK(k)
  PROVE  FrameOK(k)'
  BY DEF Calm, FrameOK, Live

LEMMA GoesKeeps ==
  ASSUME TreeInv, Calm, result' \in {"ok", "error", "disconnected"}, enableChange' \subseteq enableChange,
         NEW f, Goes(f), NEW n, n = Len(frames),
         f.at \in Places[f.proc],
         f.proc = "CheckForChange" /\ f.at = "checked" => f.port \in 1 .. dev[f.dev].maxChildren,
         f.proc \in {"HubAttach", "CheckForChange"} => f.port >= 1,
         f.proc = "Attach" /\ (f.at = "rereset" \/ Top.at = "rereset") => Open(n)',
         f.proc = "Attach" /\ Top.at \in Early => f.at \in Early,
         Knows(n)',
         OffKept
  PROVE  TreeInv'
<1>1. /\ Types /\ Tree /\ Table /\ Stack /\ Paths /\ Knowledge /\ Elsewhere /\ TypeOK /\ frames \in Seq(FrameType)
      /\ frames # << >> /\ frames' \in Seq(FrameType) /\ Len(frames') = n /\ Lower /\ frames'[n] = f /\ Kin(f)
  BY DEF TreeInv, Types, Goes
<1>2. n \in Nat \ {0} /\ Top = frames[n] /\ n \in 1 .. n /\ Top.proc \in Procs  BY <1>1, TopIs
<1>3. \A k \in 1 .. n - 1 : frames'[k] = frames[k]  BY <1>1 DEF Lower
<1>4. \A k \in 1 .. n : k = n \/ k \in 1 .. n - 1  BY <1>2
<1>5. f.proc = Top.proc /\ f.dev = Top.dev /\ (f.port = Top.port \/ f.proc \in {"HubAttach", "CheckForChange"})
  BY <1>1 DEF Kin
<1>6. dev' = dev /\ devices' = devices /\ plugged' = plugged /\ enabled' = enabled /\ connChange' = connChange /\ (gaveUp => gaveUp')
  BY DEF Calm
<1>7. Tree' /\ Table' /\ Live' = Live /\ PosStay  BY <1>1, CalmTree
<1>8. Types'
  <2>1. TypeOK'  BY <1>1, CalmTypes
  <2>2. ASSUME NEW k \in 1 .. n  PROVE FrameOK(k)'
    <3>0. FrameOK(k)  BY <1>1 DEF Types
    <3>1. CASE k \in 1 .. n - 1  BY <1>1, <1>3, <3>0, <3>1, CalmFrameOK
    <3>2. CASE k = n
      <4>1. frames[n].proc \in OnPort => f.port = frames[n].port /\ frames[n].port \in 1 .. dev[f.dev].maxChildren
        BY <1>2, <1>5, <3>0, <3>2 DEF FrameOK, OnPort
      <4>2. f.dev \in Live  BY <1>2, <1>5, <3>0, <3>2 DEF FrameOK
      <4> QED  BY <1>1, <1>2, <1>5, <1>6, <1>7, <3>2, <4>1, <4>2 DEF FrameOK
    <3> QED  BY <1>4, <3>1, <3>2
  <2> QED  BY <1>1, <2>1, <2>2 DEF Types
<1>9. Stack'  BY <1>1, <1>2, <1>7, StackGoes, FramesAre
<1>10. Paths'
  <2> SUFFICES ASSUME NEW k \in 1 .. n  PROVE Open(k)'
    BY <1>1 DEF Paths
  <2>0. Open(k)  BY <1>1 DEF Paths
  <2>1. CASE k \in 1 .. n - 1  BY <1>3, <2>0, <2>1, CalmOpen
  <2>2. CASE k = n
    <3>1. CASE f.proc = "Attach" /\ (f.at = "rereset" \/ Top.at = "rereset")  BY <2>2, <3>1
    <3>2. CASE ~(f.proc = "Attach" /\ (f.at = "rereset" \/ Top.at = "rereset"))
      <4>1. ~Rereset(n) /\ ~Rereset(n)'  BY <1>1, <1>2, <1>5, <3>2 DEF Rereset
      <4>2. PosOf(n)' = PosOf(n)  BY <1>1, <1>2, <1>5, <1>6 DEF PosOf
      <4> QED  BY <1>6, <2>0, <2>2, <4>1, <4>2 DEF Open, Settled, Way
    <3> QED  BY <3>1, <3>2
  <2> QED  BY <1>4, <2>1, <2>2
<1>11. Knowledge'
  <2> SUFFICES ASSUME NEW k \in 1 .. n  PROVE Knows(k)'
    BY <1>1 DEF Knowledge
  <2>1. CASE k \in 1 .. n - 1
    <3>1. k + 1 \in 1 .. n /\ k # n  BY <1>2, <2>1
    <3>2. frames'[k + 1].proc = frames[k + 1].proc  BY <1>1, <1>2, <1>3, <1>4, <1>5, <3>1
    <3>3. k # Len(frames)'  BY <1>1, <3>1
    <3> QED  BY <1>1, <1>3, <2>1, <3>2, <3>3, CalmKnows
  <2>2. CASE k = n  BY <2>2
  <2> QED  BY <1>4, <2>1, <2>2
<1>12. Elsewhere'
  <2>1. Stays(f)  BY <1>1, BothStay
  <2>2. \A d \in Live : LET p == dev[d].pos IN
          p \notin enabled /\ (p \in enableChange \/ Cleared(p)) => p \in enableChange' \/ Cleared(p)' \/ InHand(p)'
    BY <1>1, OffKeptIs
  <2>3. \A d \in Live : d = Top.dev => (Top.proc # "Attach" \/ Top.at \notin Early \/ f.at \in Early)
    BY <1>5
  <2> QED  BY <1>1, <1>6, <1>7, <2>1, <2>2, <2>3, ElsewhereStays
<1> QED  BY <1>7, <1>8, <1>9, <1>10, <1>11, <1>12 DEF TreeInv

LEMMA CallKeeps ==
  ASSUME TreeInv, Calm, result' \in {"ok", "error", "disconnected"}, enableChange' \subseteq enableChange,
         NEW f, NEW g, Makes(f, g), NEW n, n = Len(frames),
         f.at \in Places[f.proc],
         f.proc = "CheckForChange" /\ f.at = "checked" => f.port \in 1 .. dev[f.dev].maxChildren,
         f.proc \in {"HubAttach", "CheckForChange"} => f.port >= 1,
         f.proc = "Attach" => f.at # "rereset" /\ Top.at # "rereset",
         f.proc = "Attach" /\ Top.at \in Early => f.at \in Early,
         g.at \in Places[g.proc], g.dev \in Live,
         g.proc \in OnPort => g.port \in 1 .. dev[g.dev].maxChildren,
         g.proc \in {"HubAttach", "CheckForChange"} => g.port >= 1 /\ g.at # "checked",
         Calls(n)',
         g.proc \in {"Verify", "CheckConnection"} \/ Down(n),
         g.proc \in {"Verify", "PortReset"} \/ ~Down(n) \/ Way(PosOf(n)) \subseteq Way(dev[g.dev].pos),
         Open(n + 1)', Knows(n)', Knows(n + 1)',
         OffKept
  PROVE  TreeInv'
<1>1. /\ Types /\ Tree /\ Table /\ Stack /\ Paths /\ Knowledge /\ Elsewhere /\ TypeOK /\ frames \in Seq(FrameType)
      /\ frames # << >> /\ frames' \in Seq(FrameType) /\ Len(frames') = n + 1 /\ Lower /\ frames'[n] = f /\ Kin(f)
      /\ frames'[n + 1] = g
  BY DEF TreeInv, Types, Makes
<1>2. n \in Nat \ {0} /\ Top = frames[n] /\ n \in 1 .. n /\ Top.proc \in Procs  BY <1>1, TopIs
<1>3. \A k \in 1 .. n - 1 : frames'[k] = frames[k]  BY <1>1 DEF Lower
<1>4. \A k \in 1 .. n + 1 : k = n + 1 \/ k = n \/ k \in 1 .. n - 1  BY <1>2
<1>40. \A k \in 1 .. n - 1 : k \in 1 .. n  BY <1>2
<1>5. f.proc = Top.proc /\ f.dev = Top.dev /\ (f.port = Top.port \/ f.proc \in {"HubAttach", "CheckForChange"})
  BY <1>1 DEF Kin
<1>6. dev' = dev /\ devices' = devices /\ plugged' = plugged /\ enabled' = enabled /\ connChange' = connChange /\ (gaveUp => gaveUp')
  BY DEF Calm
<1>7. Tree' /\ Table' /\ Live' = Live /\ PosStay  BY <1>1, CalmTree
<1>8. Types'
  <2>1. TypeOK'  BY <1>1, CalmTypes
  <2>2. ASSUME NEW k \in 1 .. n + 1  PROVE FrameOK(k)'
    <3>1. CASE k \in 1 .. n - 1
      <4>1. FrameOK(k)  BY <1>1, <1>40, <3>1 DEF Types
      <4> QED  BY <1>1, <1>3, <3>1, <4>1, CalmFrameOK
    <3>2. CASE k = n
      <4>0. FrameOK(n)  BY <1>1, <1>2 DEF Types
      <4>1. frames[n].proc \in OnPort => f.port = frames[n].port /\ frames[n].port \in 1 .. dev[f.dev].maxChildren
        BY <1>2, <1>5, <4>0 DEF FrameOK, OnPort
      <4>2. f.dev \in Live  BY <1>2, <1>5, <4>0 DEF FrameOK
      <4> QED  BY <1>1, <1>2, <1>5, <1>6, <1>7, <3>2, <4>1, <4>2 DEF FrameOK
    <3>3. CASE k = n + 1
      <4>1. g.proc = "CheckForChange" => g.at # "checked"  OBVIOUS
      <4> QED  BY <1>1, <1>6, <1>7, <3>3, <4>1 DEF FrameOK
    <3> QED  BY <1>4, <3>1, <3>2, <3>3
  <2> QED  BY <1>1, <2>1, <2>2 DEF Types
<1>9. Stack'
  <2>1. f \in FrameType /\ g \in FrameType
    <3>1. n \in 1 .. Len(frames') /\ n + 1 \in 1 .. Len(frames')  BY <1>1, <1>2
    <3> QED  BY <1>1, <3>1
  <2> QED  BY <1>1, <1>6, <1>7, <2>1, StackMakes
<1>10. Paths'
  <2> SUFFICES ASSUME NEW k \in 1 .. n + 1  PROVE Open(k)'
    BY <1>1 DEF Paths
  <2>1. CASE k \in 1 .. n - 1
    <3>1. Open(k)  BY <1>1, <1>40, <2>1 DEF Paths
    <3> QED  BY <1>3, <2>1, <3>1, CalmOpen
  <2>2. CASE k = n
    <3>0. Open(n)  BY <1>1, <1>2 DEF Paths
    <3>1. ~Rereset(n) /\ ~Rereset(n)'  BY <1>1, <1>2, <1>5 DEF Rereset
    <3>2. PosOf(n)' = PosOf(n)  BY <1>1, <1>2, <1>5, <1>6 DEF PosOf
    <3> QED  BY <1>6, <2>2, <3>0, <3>1, <3>2 DEF Open, Settled, Way
  <2>3. CASE k = n + 1  BY <2>3
  <2> QED  BY <1>4, <2>1, <2>2, <2>3
<1>11. Knowledge'
  <2> SUFFICES ASSUME NEW k \in 1 .. n + 1  PROVE Knows(k)'
    BY <1>1 DEF Knowledge
  <2>1. CASE k \in 1 .. n - 1
    <3>1. k + 1 \in 1 .. n /\ k # n + 1  BY <1>2, <2>1
    <3>2. frames'[k + 1].proc = frames[k + 1].proc
      <4>1. k + 1 = n \/ k + 1 \in 1 .. n - 1  BY <1>2, <3>1
      <4> QED  BY <1>1, <1>2, <1>3, <1>5, <4>1
    <3>3. k # Len(frames)'  BY <1>1, <3>1
    <3> QED  BY <1>1, <1>3, <2>1, <3>2, <3>3, CalmKnows
  <2>2. CASE k = n  BY <2>2
  <2>3. CASE k = n + 1  BY <2>3
  <2> QED  BY <1>4, <2>1, <2>2, <2>3
<1>12. Elsewhere'
  <2>1. Stays(f)  BY <1>1, BothStay
  <2>2. \A d \in Live : LET p == dev[d].pos IN
          p \notin enabled /\ (p \in enableChange \/ Cleared(p)) => p \in enableChange' \/ Cleared(p)' \/ InHand(p)'
    BY <1>1, OffKeptIs
  <2>3. \A d \in Live : d = Top.dev => (Top.proc # "Attach" \/ Top.at \notin Early \/ f.at \in Early)
    BY <1>5
  <2> QED  BY <1>1, <1>6, <1>7, <2>1, <2>2, <2>3, ElsewhereStays
<1> QED  BY <1>7, <1>8, <1>9, <1>10, <1>11, <1>12 DEF TreeInv

(* A call that returns has nothing in hand any more.                       *)
LeavesWell ==
  /\ Top.proc = "ConnectionChanged" =>
       LET p == PortOf(Len(frames)) c == On(Len(frames)) IN
       /\ p \notin connChange => (c # Null => p \in plugged) /\ (p \in plugged /\ ~gaveUp' => c # Null)
       /\ \A d \in Live : dev[d].pos = p => (p \in enabled \cup connChange \cup enableChange) /\ AddressedIs(d)'
  /\ Top.proc = "Attach" => \A d \in Live : d = Top.dev => AddressedIs(d)'

LEMMA HandsLeave ==
  ASSUME frames \in Seq(FrameType), PosStay, Returns
  PROVE  /\ \A p : InHand(p) => InHand(p)' \/ (Top.proc = "ConnectionChanged" /\ p = PortOf(Len(frames)))
         /\ \A d : EarlyNow(d) => EarlyNow(d)' \/ (d = Top.dev /\ Top.proc = "Attach")
         /\ frames' # << >> => frames'[1] = frames[1]
         /\ frames' = << >> => Top = frames[1]
<1> DEFINE n == Len(frames)
<1>1. n \in Nat \ {0} /\ Top = frames[n] /\ Len(frames') = n - 1 /\ \A k \in 1 .. n - 1 : frames'[k] = frames[k] /\ k \in 1 .. n
      /\ frames' \in Seq(FrameType)
  BY FramesAre DEF Returns, Lower
<1>2. \A k \in 1 .. n : k = n \/ k \in 1 .. n - 1  BY <1>1
<1>3. ASSUME NEW p, InHand(p)  PROVE InHand(p)' \/ (Top.proc = "ConnectionChanged" /\ p = PortOf(Len(frames)))
  <2>1. PICK k \in 1 .. n : frames[k].proc = "ConnectionChanged" /\ PortOf(k) = p  BY <1>3 DEF InHand
  <2>2. CASE k = n  BY <1>1, <2>1, <2>2
  <2>3. CASE k \in 1 .. n - 1
    <3>1. PortOf(k)' = PortOf(k)  BY <1>1, <2>3 DEF PortOf, PosOf, PosStay
    <3> QED  BY <1>1, <2>1, <2>3, <3>1 DEF InHand
  <2> QED  BY <1>2, <2>2, <2>3
<1>4. ASSUME NEW d, EarlyNow(d)  PROVE EarlyNow(d)' \/ (d = Top.dev /\ Top.proc = "Attach")
  <2>1. PICK k \in 1 .. n : frames[k].proc = "Attach" /\ frames[k].at \in Early /\ frames[k].dev = d  BY <1>4 DEF EarlyNow
  <2>2. CASE k = n  BY <1>1, <2>1, <2>2
  <2>3. CASE k \in 1 .. n - 1  BY <1>1, <2>1, <2>3 DEF EarlyNow
  <2> QED  BY <1>2, <2>2, <2>3
<1>5. frames' # << >> => 1 \in 1 .. n - 1
  <2>1. frames' # << >> => Len(frames') # 0  BY <1>1, EmptySeq
  <2> QED  BY <1>1, <2>1
<1>6. frames' = << >> => n = 1
  <2>1. frames' = << >> => Len(frames') = 0  BY <1>1, EmptySeq
  <2> QED  BY <1>1, <2>1
<1> QED  BY <1>1, <1>3, <1>4, <1>5, <1>6

LEMMA ElsewhereLeaves ==
  ASSUME Types, Tree, Stack, Elsewhere, PosStay, Returns, NotCleared, LeavesWell,
         UNCHANGED <<plugged, enabled, connChange, enableChange>>, gaveUp => gaveUp', Live' = Live,
         \A d \in Live : /\ dev'[d].pos = dev[d].pos /\ dev'[d].children = dev[d].children /\ dev'[d].parent = dev[d].parent
                         /\ d # Top.dev \/ Top.proc # "Attach" => dev'[d].number = dev[d].number /\ dev'[d].status = dev[d].status
                         /\ dev'[d].hub => (dev[d].hub /\ dev'[d].maxChildren = dev[d].maxChildren) \/ SeenOf(d)'
  PROVE  Elsewhere'
<1>1. frames \in Seq(FrameType) /\ frames # << >> /\ TypeOK  BY DEF Types, Returns
<1>2. /\ \A p : InHand(p) => InHand(p)' \/ (Top.proc = "ConnectionChanged" /\ p = PortOf(Len(frames)))
      /\ \A d : EarlyNow(d) => EarlyNow(d)' \/ (d = Top.dev /\ Top.proc = "Attach")
      /\ frames' # << >> => frames'[1] = frames[1]
      /\ frames' = << >> => Top = frames[1]
  BY <1>1, HandsLeave
<1>3. Top = frames[Len(frames)] /\ Top.dev \in Live  BY <1>1, TopIs
<1>4. \A p : ~Cleared(p)  BY <1>3 DEF NotCleared, Cleared
<1>5. Off'
  <2> SUFFICES ASSUME NEW d \in Live, Way(dev[d].pos) \ {dev[d].pos} \subseteq enabled, dev[d].pos \notin enabled, dev[d].pos # <<>>
               PROVE  dev[d].pos \in connChange \cup enableChange \/ InHand(dev[d].pos)' \/ Cleared(dev[d].pos)'
    BY DEF Off, Way
  <2>1. dev[d].pos \in connChange \cup enableChange \/ InHand(dev[d].pos)
    BY <1>4 DEF Elsewhere, Off
  <2> QED  BY <1>2, <2>1 DEF LeavesWell
<1>6. Seen'
  <2> SUFFICES ASSUME NEW d \in Live  PROVE SeenOf(d)'
    BY DEF Seen
  <2>1. SeenOf(d)  BY DEF Elsewhere, Seen
  <2>2. CASE dev[d].hub /\ dev'[d].maxChildren = dev[d].maxChildren
    <3> SUFFICES ASSUME Way(dev[d].pos) \subseteq enabled, NEW i \in 1 .. dev[d].maxChildren,
                        Append(dev[d].pos, i) \notin connChange, ~InHand(Append(dev[d].pos, i))'
                 PROVE  LET p == Append(dev[d].pos, i) IN
                        /\ dev[d].children[i] # Null => p \in plugged
                        /\ p \in plugged /\ ~gaveUp' => dev[d].children[i] # Null
      BY <2>2 DEF SeenOf, Way
    <3>1. CASE ~InHand(Append(dev[d].pos, i))  BY <2>1, <2>2, <3>1 DEF SeenOf
    <3>2. CASE Top.proc = "ConnectionChanged" /\ Append(dev[d].pos, i) = PortOf(Len(frames))
      <4>1. Len(frames) \in 1 .. Len(frames)  BY <1>1, TopIs
      <4>20. frames[Len(frames)].proc \in OnPort  BY <1>3, <3>2 DEF OnPort
      <4>21. PosOf(Len(frames)) \in Positions /\ frames[Len(frames)].port \in Nat  BY <4>1, <4>20, PlaceIs, PortOfIs
      <4>22. dev[d].pos \in Positions /\ dev[d].maxChildren \in Nat
        <5>1. d \in DevIds  BY LiveIs
        <5> QED  BY <1>1, <5>1, DeviceIs
      <4>2. /\ PosOf(Len(frames)) \in Positions /\ frames[Len(frames)].port \in Nat /\ dev[d].pos \in Positions
            /\ dev[d].maxChildren \in Nat
        BY <4>21, <4>22
      <4>3. i \in Nat  BY <4>2
      <4>40. Append(dev[d].pos, i) = Append(PosOf(Len(frames)), frames[Len(frames)].port)  BY <3>2 DEF PortOf
      <4>4. dev[d].pos = PosOf(Len(frames)) /\ i = frames[Len(frames)].port
        <5> DEFINE p == dev[d].pos
                   q == PosOf(Len(frames))
                   j == frames[Len(frames)].port
        <5>1. p \in Positions /\ q \in Positions /\ j \in Nat /\ Append(p, i) = Append(q, j)  BY <4>2, <4>40
        <5> HIDE DEF p, q, j
        <5>2. p = q /\ i = j  BY <4>3, <5>1, SamePort
        <5> QED  BY <5>2 DEF p, q, j
      <4>5. d = Top.dev /\ i = Top.port  BY <1>3, <4>4 DEF Tree, OnePlace, PosOf
      <4>6. dev[d].children[i] = On(Len(frames))  BY <1>3, <4>5 DEF On
      <4> QED  BY <3>2, <4>6 DEF LeavesWell
    <3> QED  BY <1>2, <3>1, <3>2
  <2>3. CASE ~dev'[d].hub  BY <2>3 DEF SeenOf
  <2> QED  BY <2>2, <2>3
<1>7. Addressed'
  <2> SUFFICES ASSUME NEW d \in Live  PROVE AddressedIs(d)'
    BY DEF Addressed
  <2>1. AddressedIs(d)  BY DEF Elsewhere, Addressed
  <2>2. CASE Top.proc = "Attach" /\ d = Top.dev  BY <2>2 DEF LeavesWell
  <2>3. CASE Top.proc = "ConnectionChanged" /\ dev[d].pos = PortOf(Len(frames))  BY <2>3 DEF LeavesWell
  <2>4. CASE /\ ~(Top.proc = "Attach" /\ d = Top.dev)
             /\ ~(Top.proc = "ConnectionChanged" /\ dev[d].pos = PortOf(Len(frames)))
    <3>1. (EarlyNow(d) => EarlyNow(d)') /\ (InHand(dev[d].pos) => InHand(dev[d].pos)')  BY <1>2, <2>4
    <3>2. /\ dev'[d].pos = dev[d].pos /\ dev'[d].parent = dev[d].parent
          /\ dev'[d].number = dev[d].number /\ dev'[d].status = dev[d].status
      BY <2>4
    <3>3. d = 1 /\ frames[1].proc = "Attach" => frames' # << >> /\ frames'[1].proc = "Attach"
      <4>1. frames[1].dev = 1  BY <1>1 DEF Stack, First
      <4> QED  BY <1>2, <2>4, <4>1
    <3> QED  BY <2>1, <3>1, <3>2, <3>3 DEF AddressedIs
  <2> QED  BY <2>2, <2>3, <2>4
<1> QED  BY <1>5, <1>6, <1>7 DEF Elsewhere

LEMMA ReturnKeeps ==
  ASSUME TreeInv, Calm, result' \in {"ok", "error", "disconnected"}, enableChange' = enableChange,
         Returns, NEW n, n = Len(frames),
         n # 1 => Knows(n - 1)',
         NotCleared, LeavesWell
  PROVE  TreeInv'
<1>1. /\ Types /\ Tree /\ Table /\ Stack /\ Paths /\ Knowledge /\ Elsewhere /\ TypeOK /\ frames \in Seq(FrameType)
      /\ frames # << >> /\ frames' \in Seq(FrameType) /\ Len(frames') = n - 1 /\ Lower
  BY DEF TreeInv, Types, Returns
<1>2. n \in Nat \ {0}  BY <1>1, TopIs
<1>3. \A k \in 1 .. n - 1 : frames'[k] = frames[k] /\ k \in 1 .. n  BY <1>1, <1>2 DEF Lower
<1>6. dev' = dev /\ devices' = devices /\ plugged' = plugged /\ enabled' = enabled /\ connChange' = connChange /\ (gaveUp => gaveUp')
  BY DEF Calm
<1>7. Tree' /\ Table' /\ Live' = Live /\ PosStay  BY <1>1, CalmTree
<1>8. Types'
  <2>1. TypeOK'  BY <1>1, CalmTypes
  <2>2. ASSUME NEW k \in 1 .. n - 1  PROVE FrameOK(k)'
    <3>1. FrameOK(k)  BY <1>1, <1>3 DEF Types
    <3> QED  BY <1>1, <1>3, <3>1, CalmFrameOK
  <2> QED  BY <1>1, <2>1, <2>2 DEF Types
<1>9. Stack'  BY <1>1, <1>7, StackReturns
<1>10. Paths'
  <2> SUFFICES ASSUME NEW k \in 1 .. n - 1  PROVE Open(k)'
    BY <1>1 DEF Paths
  <2>1. Open(k)  BY <1>1, <1>3 DEF Paths
  <2> QED  BY <1>3, <2>1, CalmOpen
<1>11. Knowledge'
  <2> SUFFICES ASSUME NEW k \in 1 .. n - 1  PROVE Knows(k)'
    BY <1>1 DEF Knowledge
  <2>1. CASE k # n - 1
    <3>1. k + 1 \in 1 .. n - 1 /\ k # n - 1  BY <1>2, <2>1
    <3>2. frames'[k + 1].proc = frames[k + 1].proc  BY <1>3, <3>1
    <3>3. k # Len(frames)'  BY <1>1, <3>1
    <3> QED  BY <1>1, <1>3, <3>2, <3>3, CalmKnows
  <2>2. CASE k = n - 1
    <3>1. n # 1  BY <1>2, <2>2
    <3> QED  BY <2>2, <3>1
  <2> QED  BY <2>1, <2>2
<1>12. Elsewhere'  BY <1>1, <1>6, <1>7, ElsewhereLeaves
<1> QED  BY <1>7, <1>8, <1>9, <1>10, <1>11, <1>12 DEF TreeInv

-----------------------------------------------------------------------------
(* What the actions start from.                                            *)
LEMMA InvIs ==
  ASSUME TreeInv, frames # << >>, NEW n, n = Len(frames)
  PROVE  /\ Types /\ Tree /\ Table /\ Stack /\ Paths /\ Knowledge /\ Elsewhere /\ TypeOK /\ frames \in Seq(FrameType)
         /\ n \in Nat \ {0} /\ n \in 1 .. Len(frames) /\ Top = frames[n] /\ Top.proc \in Procs /\ Top.at \in Places[Top.proc]
         /\ Top.dev \in Live /\ Top.dev \in DevIds /\ Top.port \in Nat /\ Top.n \in Nat
         /\ Knows(n) /\ Open(n) /\ FrameOK(n) /\ IsTop(n)
         /\ Here = dev[frames[n].dev] /\ Here.pos = PosOf(n) /\ Child = On(n) /\ PortPos = PortOf(n)
         /\ \A k \in 1 .. n - 1 : k \in 1 .. Len(frames) /\ Calls(k) /\ Knows(k)
<1>1. /\ Types /\ Tree /\ Table /\ Stack /\ Paths /\ Knowledge /\ Elsewhere /\ TypeOK /\ frames \in Seq(FrameType)
  BY DEF TreeInv, Types
<1>2. n \in Nat \ {0} /\ n \in 1 .. Len(frames) /\ Top = frames[n] /\ Top.proc \in Procs /\ Top.at \in Places[Top.proc]
      /\ Top.dev \in Live /\ Top.dev \in DevIds /\ Top.port \in Nat /\ Top.n \in Nat /\ IsTop(n)
      /\ Here = dev[frames[n].dev] /\ Here.pos = PosOf(n) /\ Child = On(n) /\ PortPos = PortOf(n)
  BY <1>1, TopIs
<1>3. Knows(n) /\ Open(n) /\ FrameOK(n)  BY <1>1, <1>2 DEF Knowledge, Paths, Types
<1>4. \A k \in 1 .. n - 1 : k \in 1 .. Len(frames)  BY <1>2
<1>5. \A k \in 1 .. n - 1 : Calls(k) /\ Knows(k)  BY <1>1, <1>4 DEF Stack, Links, Knowledge
<1> QED  BY <1>1, <1>2, <1>3, <1>4, <1>5

LEMMA StillIsCalm ==
  ASSUME UNCHANGED <<dev, devices, status, hardware>>, gaveUp => gaveUp'
  PROVE  Calm /\ enableChange' = enableChange /\ enableChange' \subseteq enableChange
  BY DEF hardware, Calm

(* A device at a port is what hangs on it.                                 *)
LEMMA ChildIs ==
  ASSUME TypeOK, Tree, NEW h \in Live, NEW i \in PortNums, NEW d \in Live, dev[d].pos = Append(dev[h].pos, i)
  PROVE  dev[h].children[i] = d
<1>1. /\ dev[h].pos \in Positions /\ dev[h].pos \in Seq(Nat) /\ i \in Nat /\ d # Null
  BY LiveIs, DeviceIs, PortNumIs
<1>2. dev[d].pos # << >>  BY <1>1, AppendProperties
<1>3. PICK e \in Live, j \in PortNums : dev[e].children[j] = d  BY <1>2 DEF Tree, Hooked
<1>4. dev[d].pos = Append(dev[e].pos, j)  BY <1>1, <1>3 DEF Tree, Children
<1>5. dev[e].pos \in Positions /\ j \in Nat  BY LiveIs, DeviceIs, PortNumIs
<1>6. Append(dev[h].pos, i) = Append(dev[e].pos, j)  BY <1>4
<1> DEFINE p == dev[h].pos
           q == dev[e].pos
<1>7. p \in Positions /\ q \in Positions /\ Append(p, i) = Append(q, j)  BY <1>1, <1>5, <1>6
<1> HIDE DEF p, q
<1>8. p = q /\ i = j  BY <1>1, <1>5, <1>7, SamePort
<1>9. h = e  BY <1>8 DEF Tree, OnePlace, p, q
<1> QED  BY <1>3, <1>8, <1>9

LEMMA OnIsThere ==
  ASSUME Types, Tree, NEW k \in 1 .. Len(frames), frames[k].proc \in OnPort
  PROVE  /\ \A d \in Live : dev[d].pos = PortOf(k) => On(k) = d /\ On(k) # Null
         /\ On(k) # Null => On(k) \in Live /\ dev[On(k)].pos = PortOf(k) /\ PortOf(k) # << >>
<1>1. frames[k].port \in PortNums /\ frames[k].dev \in Live /\ TypeOK /\ PortOf(k) # << >>
  BY PortOfIs, PlaceIs DEF Types
<1>2. \A d \in Live : d # Null  BY <1>1, LiveIs, DeviceIs
<1>3. \A d \in Live : dev[d].pos = PortOf(k) => On(k) = d /\ On(k) # Null
  BY <1>1, <1>2, ChildIs, Zenon DEF PortOf, PosOf, On
<1>4. On(k) # Null => On(k) \in Live /\ dev[On(k)].pos = PortOf(k)
  BY <1>1, Zenon DEF Tree, Children, On, PortOf, PosOf
<1> QED  BY <1>1, <1>3, <1>4

(* The check of a request that failed finds its port on and unchanged.     *)
LEMMA UnderVerify ==
  ASSUME TreeInv, frames # << >>, NEW n, n = Len(frames), Top.proc = "CheckConnection", ~Down(n)
  PROVE  PortOf(n) \in enabled \ connChange
<1>1. /\ Types /\ Tree /\ Stack /\ Paths /\ n \in Nat \ {0} /\ n \in 1 .. Len(frames) /\ Top = frames[n]
      /\ \A k \in 1 .. n - 1 : k \in 1 .. Len(frames) /\ Calls(k)
  BY InvIs
<1>2. PICK j \in 1 .. n : Climbing(j)  BY DEF Down
<1>3. j # n /\ j \in 1 .. n - 1 /\ n - 1 \in 1 .. n - 1 /\ (n - 1) + 1 = n /\ j \in 1 .. Len(frames)
  <2>1. j # n  BY <1>1, <1>2 DEF Climbing
  <2>2. j \in 1 .. n - 1 /\ n - 1 \in 1 .. n - 1 /\ (n - 1) + 1 = n  BY <1>1, <2>1
  <2> QED  BY <1>1, <2>1, <2>2
<1>4. n - 1 \in 1 .. Len(frames) /\ Calls(n - 1)  BY <1>1, <1>3
<1>5. frames[n - 1].proc = "Verify" /\ frames[n].dev = frames[n - 1].dev /\ frames[n].port = frames[n - 1].port
  <2>1. frames[n - 1].proc \in {"Verify", "CheckConnection", "PortReset"}
    <3>1. CASE j = n - 1  BY <1>2, <3>1 DEF Climbing
    <3>2. CASE j # n - 1
      <4>1. j < n - 1  BY <1>1, <1>3, <3>2
      <4> QED  BY <1>1, <1>2, <1>3, <1>4, <4>1 DEF Stack, Climbs
    <3> QED  BY <3>1, <3>2
  <2> QED  BY <1>1, <1>3, <1>4, <2>1 DEF Calls
<1>6. n - 2 \in 1 .. n - 1 /\ (n - 2) + 1 = n - 1
  <2>1. n - 1 # 1  BY <1>1, <1>5 DEF Stack, First
  <2> QED  BY <1>1, <1>3, <2>1
<1>7. n - 2 \in 1 .. Len(frames) /\ Calls(n - 2)  BY <1>1, <1>6
<1>8. Asked(n - 2) /\ PortOf(n - 1) = PosOf(n - 2)  BY <1>5, <1>6, <1>7 DEF Calls
<1>9. ~Rereset(n - 2)  BY <1>8 DEF Asked, Requests, Rereset
<1>10. Settled(PosOf(n - 2))  BY <1>1, <1>7, <1>9 DEF Paths, Open
<1>11. PortOf(n) = PosOf(n - 2)  BY <1>5, <1>8 DEF PortOf, PosOf
<1>12. PortOf(n) # << >> /\ PortOf(n) \in Seq(Nat)  BY <1>1, PortOfIs, PositionIs DEF OnPort
<1>13. PortOf(n) \in Way(PortOf(n))  BY <1>12, WayEnds
<1> QED  BY <1>10, <1>11, <1>13 DEF Settled

(* What hangs on a port that is to be looked at is not in hand elsewhere,  *)
(* and is settled.                                                         *)
LEMMA ChildSettled ==
  ASSUME TreeInv, frames # << >>, NEW n, n = Len(frames), Top.proc = "CheckConnection", Down(n)
  PROVE  /\ ~InHand(PortOf(n))
         /\ On(n) # Null => dev[On(n)].number # 0 /\ (dev[On(n)].status \in Done \/ gaveUp)
<1>1. /\ Types /\ Tree /\ Stack /\ Elsewhere /\ n \in Nat \ {0} /\ n \in 1 .. Len(frames) /\ Top = frames[n]
  BY InvIs
<1>2. \A k \in 1 .. n : frames[k].dev \notin Behind(PortOf(n))  BY <1>1, NoneBehind DEF OnPort
<1>3. ~InHand(PortOf(n))
  <2> SUFFICES ASSUME NEW k \in 1 .. n, frames[k].proc = "ConnectionChanged", PortOf(k) = PortOf(n)  PROVE FALSE
    BY DEF InHand
  <2>1. k \in 1 .. n - 1
    <3>1. k # n  BY <1>1
    <3> QED  BY <1>1, <3>1
  <2>2. PortOf(k) \in Way(PosOf(n))  BY <1>1, <2>1, HandsAbove
  <2>3. PortOf(n) \notin Way(PosOf(n))  BY <1>1, PortOfIs DEF OnPort
  <2> QED  BY <2>2, <2>3
<1>4. ASSUME On(n) # Null  PROVE dev[On(n)].number # 0 /\ (dev[On(n)].status \in Done \/ gaveUp)
  <2>1. On(n) \in Live /\ dev[On(n)].pos = PortOf(n) /\ PortOf(n) # << >>  BY <1>1, <1>4, OnIsThere DEF OnPort
  <2>2. PortOf(n) \in Seq(Nat)  BY <1>1, PortOfIs, PositionIs DEF OnPort
  <2>3. On(n) \in Behind(PortOf(n))  BY <2>1, <2>2, WayEnds DEF Behind
  <2>4. ~EarlyNow(On(n))  BY <1>2, <2>3 DEF EarlyNow
  <2>5. AddressedIs(On(n))  BY <1>1, <2>1 DEF Elsewhere, Addressed
  <2>6. On(n) # 1  BY <1>1, <2>1 DEF Tree, Rooted
  <2> QED  BY <1>3, <2>1, <2>4, <2>5, <2>6 DEF AddressedIs
<1> QED  BY <1>3, <1>4

LEMMA ErrorKnown ==
  ASSUME TreeInv, Calm, Returns, Top.proc = "Verify", result' # "ok", NEW n, n = Len(frames)
  PROVE  n # 1 /\ Knows(n - 1)'
<1>0. frames # << >>  BY DEF Returns
<1>1. /\ Types /\ Stack /\ n \in Nat \ {0} /\ n \in 1 .. Len(frames) /\ Top = frames[n] /\ TypeOK
      /\ \A k \in 1 .. n - 1 : k \in 1 .. Len(frames) /\ Calls(k) /\ Knows(k)
  BY <1>0, InvIs
<1>2. n # 1  BY <1>0, <1>1 DEF Stack, First
<1> DEFINE k == n - 1
<1>3. k \in 1 .. n - 1 /\ k + 1 = n /\ k # n /\ k < n  BY <1>1, <1>2
<1>4. Calls(k) /\ Knows(k) /\ k \in 1 .. Len(frames)  BY <1>1, <1>3
<1>5. frames'[k] = frames[k] /\ Len(frames') = k  BY <1>3 DEF Returns, Lower
<1> HIDE DEF k
<1>6. /\ IsTop(k)' /\ ~GotOK(k)' /\ GotError(k)'
      /\ ~IsTop(k) /\ Asking(k) /\ ~GotOK(k) /\ GotError(k)
  BY <1>1, <1>3, <1>5 DEF IsTop, GotOK, GotError, Asking
<1>7. /\ \A p \in Ports : \/ status'[p] = status[p]
                          \/ status'[p].conn = (p \in plugged) /\ status'[p].en = (p \in enabled)
      /\ \A p \in Ports : Up(p) => Up(p)'
      /\ \A p : Reports(p)' = Reports(p)
      /\ UNCHANGED <<dev, devices, plugged, enabled, connChange>> /\ (gaveUp => gaveUp')
  BY <1>1, CalmIs DEF Calm
<1>8. PosOf(k)' = PosOf(k) /\ PortOf(k)' = PortOf(k) /\ On(k)' = On(k) /\ \A d : Bare(d)' = Bare(d)
  BY <1>5, <1>7 DEF PosOf, PortOf, On, Bare
<1>9. Asked(k)  BY <1>1, <1>3, <1>4 DEF Calls
<1>10. frames[k].proc \in OnPort => PortOf(k) \in Ports  BY <1>1, <1>4, PortOfIs
<1>11. PosOf(k) # <<>> => PosOf(k) \in Ports  BY <1>1, <1>4, PlaceIs DEF Ports
<1>12. KnowsCheck(k)'
  <2> SUFFICES ASSUME frames[k].proc = "CheckConnection"  PROVE KnowsCheck(k)'
    BY <1>5 DEF KnowsCheck
  <2>1. frames[k].at \in {"got", "interference", "done"}  BY <1>9 DEF Asked, Requests
  <2> QED  BY <1>4, <1>5, <1>6, <1>7, <1>8, <1>10, <2>1 DEF Knows, KnowsCheck, OnPort
<1>13. KnowsChanged(k)'
  <2> SUFFICES ASSUME frames[k].proc = "ConnectionChanged"  PROVE KnowsChanged(k)'
    BY <1>5 DEF KnowsChanged
  <2>1. PortOf(k) \in Ports  BY <1>10 DEF OnPort
  <2>2. KnowsChanged(k)  BY <1>4 DEF Knows
  <2>3. frames[k].at \notin {"status", "got", "clear", "decide", "reset", "allocate"}  BY <1>6, <2>2 DEF KnowsChanged
  <2> QED  BY <1>5, <1>6, <1>7, <1>8, <2>1, <2>2, <2>3 DEF KnowsChanged
<1>14. KnowsReset(k)'
  <2> SUFFICES ASSUME frames[k].proc = "PortReset"  PROVE KnowsReset(k)'
    BY <1>5 DEF KnowsReset
  <2>1. PortOf(k) \in Ports  BY <1>10 DEF OnPort
  <2> QED  BY <1>4, <1>5, <1>6, <1>7, <1>8, <2>1 DEF Knows, KnowsReset
<1>15. KnowsAttach(k)'
  <2> SUFFICES ASSUME frames[k].proc = "Attach"  PROVE KnowsAttach(k)'
    BY <1>5 DEF KnowsAttach
  <2>1. KnowsAttach(k)  BY <1>4 DEF Knows
  <2> QED  BY <1>5, <1>6, <1>7, <1>8, <1>11, <2>1 DEF KnowsAttach
<1>16. KnowsHub(k)'
  BY <1>4, <1>5, <1>7, <1>8 DEF Knows, KnowsHub
<1>17. KnowsWalk(k)'  BY <1>5, <1>6 DEF KnowsWalk
<1> QED  BY <1>2, <1>12, <1>13, <1>14, <1>15, <1>16, <1>17 DEF Knows, k

LEMMA GotoMoves ==
  ASSUME Types, frames # << >>, NEW a \in Places[Top.proc], NEW f, f = On1(a, Top.port, Top.n)
  PROVE  /\ Goto(a) => Goes(f)
         /\ \A g \in FrameType : Call(a, g) => Makes(f, g)
         /\ f.proc = Top.proc /\ f.at = a /\ f.dev = Top.dev /\ f.port = Top.port /\ f.n = Top.n /\ f \in FrameType
<1>1. Top.port \in Nat /\ Top.n \in Nat  BY TopIs
<1>2. [Top EXCEPT !.at = a] = f  BY <1>1, OnIs
<1>3. /\ f \in FrameType /\ f.proc = Top.proc /\ f.at = a /\ f.dev = Top.dev /\ f.port = Top.port /\ f.n = Top.n
      /\ frames' = Append(Front(frames), f) => Goes(f)
      /\ \A g \in FrameType : frames' = Append(Append(Front(frames), f), g) => Makes(f, g)
  BY <1>1, OnMoves
<1> QED  BY <1>2, <1>3 DEF Goto, Call

LEMMA GotoWithMoves ==
  ASSUME Types, frames # << >>, NEW a \in Places[Top.proc], NEW m \in Nat, NEW f, f = On1(a, Top.port, m)
  PROVE  /\ GotoWith(a, m) => Goes(f)
         /\ f.proc = Top.proc /\ f.at = a /\ f.dev = Top.dev /\ f.port = Top.port /\ f.n = m /\ f \in FrameType
<1>1. Top.port \in Nat /\ Top.n \in Nat  BY TopIs
<1>2. [Top EXCEPT !.at = a, !.n = m] = f  BY <1>1, OnIs
<1>3. /\ f \in FrameType /\ f.proc = Top.proc /\ f.at = a /\ f.dev = Top.dev /\ f.port = Top.port /\ f.n = m
      /\ frames' = Append(Front(frames), f) => Goes(f)
  BY <1>1, OnMoves
<1> QED  BY <1>2, <1>3 DEF GotoWith

LEMMA NewFrameIs ==
  ASSUME NEW proc \in Procs, NEW at \in Places[proc], NEW d \in DevIds, NEW port \in Nat
  PROVE  /\ Frame(proc, at, d, port) \in FrameType
         /\ Frame(proc, at, d, port).proc = proc /\ Frame(proc, at, d, port).at = at
         /\ Frame(proc, at, d, port).dev = d /\ Frame(proc, at, d, port).port = port
<1>1. [proc |-> proc, at |-> at, dev |-> d, port |-> port, n |-> 0] \in FrameType  BY FrameIs
<1> QED  BY <1>1 DEF Frame

LEMMA GotoPick ==
  ASSUME Types, frames # << >>, NEW a \in Places[Top.proc], Goto(a)
  PROVE  \E f \in FrameType : Goes(f) /\ f.proc = Top.proc /\ f.at = a /\ f.dev = Top.dev /\ f.port = Top.port /\ f.n = Top.n
<1> DEFINE f == On1(a, Top.port, Top.n)
<1>1. /\ Goto(a) => Goes(f)
      /\ f.proc = Top.proc /\ f.at = a /\ f.dev = Top.dev /\ f.port = Top.port /\ f.n = Top.n /\ f \in FrameType
  BY GotoMoves
<1> QED  BY <1>1

LEMMA GotoWithPick ==
  ASSUME Types, frames # << >>, NEW a \in Places[Top.proc], NEW m \in Nat, GotoWith(a, m)
  PROVE  \E f \in FrameType : Goes(f) /\ f.proc = Top.proc /\ f.at = a /\ f.dev = Top.dev /\ f.port = Top.port /\ f.n = m
<1> DEFINE f == On1(a, Top.port, m)
<1>1. /\ GotoWith(a, m) => Goes(f)
      /\ f.proc = Top.proc /\ f.at = a /\ f.dev = Top.dev /\ f.port = Top.port /\ f.n = m /\ f \in FrameType
  BY GotoWithMoves
<1> QED  BY <1>1

LEMMA CallPick ==
  ASSUME Types, frames # << >>, NEW a \in Places[Top.proc], NEW g \in FrameType, Call(a, g)
  PROVE  \E f \in FrameType : Makes(f, g) /\ f.proc = Top.proc /\ f.at = a /\ f.dev = Top.dev /\ f.port = Top.port /\ f.n = Top.n
<1> DEFINE f == On1(a, Top.port, Top.n)
<1>1. /\ \A h \in FrameType : Call(a, h) => Makes(f, h)
      /\ f.proc = Top.proc /\ f.at = a /\ f.dev = Top.dev /\ f.port = Top.port /\ f.n = Top.n /\ f \in FrameType
  BY GotoMoves
<1> QED  BY <1>1

(* A call of a function at its beginning.                                  *)
LEMMA CallNewPick ==
  ASSUME Types, frames # << >>, NEW a \in Places[Top.proc],
         NEW proc \in Procs, NEW at \in Places[proc], NEW d \in DevIds, NEW port \in Nat,
         Call(a, Frame(proc, at, d, port))
  PROVE  \E f \in FrameType, g \in FrameType :
           /\ Makes(f, g) /\ f.proc = Top.proc /\ f.at = a /\ f.dev = Top.dev /\ f.port = Top.port /\ f.n = Top.n
           /\ g.proc = proc /\ g.at = at /\ g.dev = d /\ g.port = port
<1>1. PICK g \in FrameType : g = Frame(proc, at, d, port) /\ g.proc = proc /\ g.at = at /\ g.dev = d /\ g.port = port
  BY NewFrameIs
<1>2. Call(a, g)  BY <1>1
<1> QED  BY <1>1, <1>2, CallPick

(* What the stack looks like after a move.                                 *)
LEMMA GoesTo ==
  ASSUME Types, frames # << >>, NEW n, n = Len(frames), dev' = dev, NEW f, f.dev = Top.dev, f.port = Top.port, Goes(f)
  PROVE  /\ frames'[n] = f /\ IsTop(n)' /\ ~Asking(n)' /\ Len(frames') = n
         /\ PosOf(n)' = PosOf(n) /\ PortOf(n)' = PortOf(n) /\ On(n)' = On(n)
<1>1. n \in Nat \ {0} /\ Top = frames[n]  BY TopIs
<1>2. frames'[n] = f /\ Len(frames') = n  BY DEF Goes
<1> QED  BY <1>1, <1>2 DEF IsTop, Asking, PosOf, PortOf, On

LEMMA MakesTo ==
  ASSUME Types, frames # << >>, NEW n, n = Len(frames), dev' = dev, NEW f, f.dev = Top.dev, f.port = Top.port,
         NEW g, Makes(f, g)
  PROVE  /\ frames'[n] = f /\ frames'[n + 1] = g /\ IsTop(n + 1)' /\ ~Asking(n + 1)' /\ Len(frames') = n + 1
         /\ ~IsTop(n)' /\ ~GotOK(n)' /\ (Asking(n)' <=> g.proc = "Verify")
         /\ PosOf(n)' = PosOf(n) /\ PortOf(n)' = PortOf(n) /\ On(n)' = On(n)
         /\ PosOf(n + 1)' = dev[g.dev].pos /\ PortOf(n + 1)' = Append(dev[g.dev].pos, g.port)
         /\ On(n + 1)' = dev[g.dev].children[g.port]
<1>1. n \in Nat \ {0} /\ Top = frames[n]  BY TopIs
<1>2. frames'[n] = f /\ frames'[n + 1] = g /\ Len(frames') = n + 1  BY DEF Makes
<1>3. n # n + 1 /\ n < n + 1 /\ ~(n + 1 < n + 1)  BY <1>1
<1> QED  BY <1>1, <1>2, <1>3 DEF IsTop, Asking, PosOf, PortOf, On, GotOK

(* The same for the moves that the actions make, in a calm world.          *)
Quiet == UNCHANGED <<dev, devices, status, hardware>> /\ (gaveUp => gaveUp')

LEMMA GotoTo ==
  ASSUME Types, frames # << >>, NEW n, n = Len(frames), dev' = dev, NEW a \in Places[Top.proc], Goto(a)
  PROVE  /\ frames'[n].proc = Top.proc /\ frames'[n].at = a /\ frames'[n].dev = Top.dev /\ frames'[n].port = Top.port
         /\ frames'[n].n = Top.n
         /\ IsTop(n)' /\ ~Asking(n)' /\ Len(frames') = n
         /\ PosOf(n)' = PosOf(n) /\ PortOf(n)' = PortOf(n) /\ On(n)' = On(n)
<1>1. PICK f \in FrameType : Goes(f) /\ f.proc = Top.proc /\ f.at = a /\ f.dev = Top.dev /\ f.port = Top.port /\ f.n = Top.n
  BY GotoPick
<1>2. /\ frames'[n] = f /\ IsTop(n)' /\ ~Asking(n)' /\ Len(frames') = n
      /\ PosOf(n)' = PosOf(n) /\ PortOf(n)' = PortOf(n) /\ On(n)' = On(n)
  BY <1>1, GoesTo
<1> QED  BY <1>1, <1>2

LEMMA CallTo ==
  ASSUME Types, frames # << >>, NEW n, n = Len(frames), dev' = dev, NEW a \in Places[Top.proc],
         NEW proc \in Procs, NEW at \in Places[proc], NEW d \in DevIds, NEW port \in Nat,
         Call(a, Frame(proc, at, d, port)), proc # "Verify"
  PROVE  /\ frames'[n].proc = Top.proc /\ frames'[n].at = a /\ frames'[n].dev = Top.dev /\ frames'[n].port = Top.port
         /\ frames'[n].n = Top.n
         /\ frames'[n + 1].proc = proc /\ frames'[n + 1].at = at /\ frames'[n + 1].dev = d /\ frames'[n + 1].port = port
         /\ IsTop(n + 1)' /\ ~Asking(n + 1)' /\ ~IsTop(n)' /\ ~GotOK(n)' /\ ~Asking(n)' /\ ~GotError(n)'
         /\ PosOf(n)' = PosOf(n) /\ PortOf(n)' = PortOf(n) /\ On(n)' = On(n)
         /\ PosOf(n + 1)' = dev[d].pos /\ PortOf(n + 1)' = Append(dev[d].pos, port)
         /\ On(n + 1)' = dev[d].children[port]
<1>1. PICK f \in FrameType, g \in FrameType :
           /\ Makes(f, g) /\ f.proc = Top.proc /\ f.at = a /\ f.dev = Top.dev /\ f.port = Top.port /\ f.n = Top.n
           /\ g.proc = proc /\ g.at = at /\ g.dev = d /\ g.port = port
  BY CallNewPick
<1>2. /\ frames'[n] = f /\ frames'[n + 1] = g /\ IsTop(n + 1)' /\ ~Asking(n + 1)' /\ Len(frames') = n + 1
      /\ ~IsTop(n)' /\ ~GotOK(n)' /\ (Asking(n)' <=> g.proc = "Verify")
      /\ PosOf(n)' = PosOf(n) /\ PortOf(n)' = PortOf(n) /\ On(n)' = On(n)
      /\ PosOf(n + 1)' = dev[g.dev].pos /\ PortOf(n + 1)' = Append(dev[g.dev].pos, g.port)
      /\ On(n + 1)' = dev[g.dev].children[g.port]
  <2>1. Makes(f, g) /\ f.dev = Top.dev /\ f.port = Top.port  BY <1>1
  <2>2. frames'[n] = f /\ frames'[n + 1] = g /\ IsTop(n + 1)' /\ ~Asking(n + 1)' /\ Len(frames') = n + 1
    BY <2>1, MakesTo
  <2>3. ~IsTop(n)' /\ ~GotOK(n)' /\ (Asking(n)' <=> g.proc = "Verify")  BY <2>1, MakesTo
  <2>4. PosOf(n)' = PosOf(n) /\ PortOf(n)' = PortOf(n) /\ On(n)' = On(n)  BY <2>1, MakesTo
  <2>5. PosOf(n + 1)' = dev[g.dev].pos  BY <2>1, MakesTo
  <2>6. PortOf(n + 1)' = Append(dev[g.dev].pos, g.port)  BY <2>1, MakesTo
  <2>7. On(n + 1)' = dev[g.dev].children[g.port]  BY <2>1, MakesTo
  <2> QED  BY <2>2, <2>3, <2>4, <2>5, <2>6, <2>7
<1>3. ~Asking(n)' /\ ~GotError(n)'  BY <1>1, <1>2 DEF GotError
<1> QED  BY <1>1, <1>2, <1>3

LEMMA GotoKeeps ==
  ASSUME TreeInv, frames # << >>, NEW n, n = Len(frames), Quiet, result' \in {"ok", "error", "disconnected"},
         NEW a \in Places[Top.proc], Goto(a), OffKept,
         Top.proc # "CheckForChange",
         Top.proc = "Attach" => a # "rereset" /\ Top.at # "rereset" /\ (Top.at \in Early => a \in Early),
         Knows(n)'
  PROVE  TreeInv'
<1>1. Calm /\ enableChange' \subseteq enableChange  BY StillIsCalm DEF Quiet
<1>2. Types /\ Top = frames[n] /\ FrameOK(n)  BY InvIs
<1>3. PICK f \in FrameType : Goes(f) /\ f.proc = Top.proc /\ f.at = a /\ f.dev = Top.dev /\ f.port = Top.port /\ f.n = Top.n
  BY <1>2, GotoPick
<1>4. f.proc \in {"HubAttach", "CheckForChange"} => f.port >= 1  BY <1>2, <1>3 DEF FrameOK
<1>5. /\ f.at \in Places[f.proc] /\ f.proc # "CheckForChange" /\ Goes(f)
      /\ (f.proc = "Attach" => f.at # "rereset" /\ Top.at # "rereset")
      /\ (f.proc = "Attach" /\ Top.at \in Early => f.at \in Early)
  BY <1>3
<1> QED  BY <1>1, <1>4, <1>5, GoesKeeps

LEMMA CallNewKeeps ==
  ASSUME TreeInv, frames # << >>, NEW n, n = Len(frames), Quiet, UNCHANGED result,
         NEW a \in Places[Top.proc],
         NEW proc \in Procs, NEW at \in Places[proc], NEW d \in Live, NEW port \in Nat,
         Call(a, Frame(proc, at, d, port)), OffKept,
         Top.proc # "CheckForChange",
         Top.proc = "Attach" => a # "rereset" /\ Top.at # "rereset" /\ Top.at \notin Early,
         proc \in OnPort => port \in 1 .. dev[d].maxChildren,
         proc \in {"HubAttach", "CheckForChange"} => port >= 1 /\ at # "checked",
         Calls(n)',
         proc \in {"Verify", "CheckConnection"} \/ Down(n),
         proc \in {"Verify", "PortReset"} \/ ~Down(n) \/ Way(PosOf(n)) \subseteq Way(dev[d].pos),
         Open(n + 1)', Knows(n)', Knows(n + 1)'
  PROVE  TreeInv'
<1>1. Calm /\ enableChange' \subseteq enableChange  BY StillIsCalm DEF Quiet
<1>2. Types /\ Top = frames[n] /\ FrameOK(n) /\ d \in DevIds /\ TypeOK  BY InvIs, LiveIs
<1>3. PICK f \in FrameType, g \in FrameType :
           /\ Makes(f, g) /\ f.proc = Top.proc /\ f.at = a /\ f.dev = Top.dev /\ f.port = Top.port /\ f.n = Top.n
           /\ g.proc = proc /\ g.at = at /\ g.dev = d /\ g.port = port
  BY <1>2, CallNewPick
<1>4. f.proc \in {"HubAttach", "CheckForChange"} => f.port >= 1  BY <1>2, <1>3 DEF FrameOK
<1>5. /\ f.at \in Places[f.proc] /\ f.proc # "CheckForChange" /\ Makes(f, g)
      /\ (f.proc = "Attach" => f.at # "rereset" /\ Top.at # "rereset")
      /\ (f.proc = "Attach" /\ Top.at \in Early => f.at \in Early)
  BY <1>3
<1>6. /\ g.at \in Places[g.proc] /\ g.dev \in Live
      /\ (g.proc \in OnPort => g.port \in 1 .. dev[g.dev].maxChildren)
      /\ (g.proc \in {"HubAttach", "CheckForChange"} => g.port >= 1 /\ g.at # "checked")
      /\ (g.proc \in {"Verify", "CheckConnection"} \/ Down(n))
      /\ (g.proc \in {"Verify", "PortReset"} \/ ~Down(n) \/ Way(PosOf(n)) \subseteq Way(dev[g.dev].pos))
  BY <1>3
<1>7. result' \in {"ok", "error", "disconnected"}  BY <1>2 DEF TypeOK
<1> QED  BY <1>1, <1>4, <1>5, <1>6, <1>7, CallKeeps

LEMMA ReturnQuiet ==
  ASSUME TreeInv, frames # << >>, NEW n, n = Len(frames), Quiet, NEW r \in {"ok", "error", "disconnected"}, Return(r),
         NotCleared, LeavesWell, n # 1 => Knows(n - 1)'
  PROVE  TreeInv'
<1>1. Calm /\ enableChange' = enableChange  BY StillIsCalm DEF Quiet
<1>2. Types  BY InvIs
<1>3. Returns /\ result' \in {"ok", "error", "disconnected"}  BY <1>2, ReturnIs DEF Return
<1> QED  BY <1>1, <1>3, ReturnKeeps

-----------------------------------------------------------------------------
(* The actions, first those that leave the world alone.                    *)
LEMMA VerifyCheckKeeps == ASSUME TreeInv, VerifyCheck, NEW n, n = Len(frames) PROVE TreeInv'
<1>0. frames # << >> /\ Top.proc = "Verify" /\ Top.at = "check"  BY DEF VerifyCheck, At
<1>1. /\ Types /\ Tree /\ Stack /\ TypeOK /\ n \in Nat \ {0} /\ n \in 1 .. Len(frames) /\ Top = frames[n]
      /\ Top.dev \in Live /\ Top.dev \in DevIds /\ Top.port \in Nat /\ Open(n) /\ FrameOK(n)
  BY <1>0, InvIs
<1>2. UNCHANGED <<dev, devices, status, hardware, counts>>  BY DEF VerifyCheck
<1>3. Calm /\ enableChange' = enableChange /\ dev' = dev /\ Quiet
  BY <1>2, StillIsCalm DEF counts, Quiet
<1>4. NotCleared /\ OffKept  BY <1>0, <1>3 DEF NotCleared, OffKept
<1>5. CASE Call("checked", Frame("CheckConnection", "status", Top.dev, Top.port)) /\ UNCHANGED result
  <2>1. "checked" \in Places[Top.proc] /\ "CheckConnection" \in Procs /\ "status" \in Places["CheckConnection"]
    BY <1>0 DEF Places, Procs, OnPort
  <2>2. /\ frames'[n].proc = "Verify" /\ frames'[n].at = "checked" /\ frames'[n].dev = Top.dev /\ frames'[n].port = Top.port
        /\ frames'[n + 1].proc = "CheckConnection" /\ frames'[n + 1].at = "status"
        /\ frames'[n + 1].dev = Top.dev /\ frames'[n + 1].port = Top.port
        /\ PosOf(n + 1)' = PosOf(n)
    BY <1>0, <1>1, <1>3, <1>5, <2>1, CallTo DEF PosOf
  <2>3. Calls(n)'  BY <2>2 DEF Calls
  <2>4. ~Down(n)  BY <1>0, <1>1 DEF Down, Climbing
  <2>5. Open(n + 1)'
    <3>1. ~Rereset(n) /\ ~Rereset(n + 1)'  BY <1>0, <1>1, <2>2 DEF Rereset
    <3> QED  BY <1>1, <1>3, <2>2, <3>1 DEF Open, Settled, Way, Calm
  <2>6. Knows(n)'  BY <2>2, KnowsIs
  <2>7. Knows(n + 1)'
    <3>1. KnowsCheck(n + 1)'  BY <2>2 DEF KnowsCheck
    <3> QED  BY <2>2, <3>1, KnowsIs
  <2>8. Top.port \in 1 .. dev[Top.dev].maxChildren  BY <1>0, <1>1 DEF FrameOK, OnPort
  <2> QED  BY <1>0, <1>1, <1>3, <1>4, <1>5, <2>1, <2>3, <2>4, <2>5, <2>6, <2>7, <2>8, CallNewKeeps
<1>6. CASE Return("disconnected")
  <2>1. Returns /\ result' = "disconnected"  BY <1>0, <1>1, <1>6, ReturnIs DEF Return
  <2>2. n # 1 /\ Knows(n - 1)'  BY <1>0, <1>3, <2>1, ErrorKnown
  <2>3. LeavesWell  BY <1>0 DEF LeavesWell
  <2> QED  BY <1>0, <1>3, <1>4, <1>6, <2>2, <2>3, ReturnQuiet
<1> QED  BY <1>5, <1>6 DEF VerifyCheck

LEMMA VerifyCheckedKeeps == ASSUME TreeInv, VerifyChecked, NEW n, n = Len(frames) PROVE TreeInv'
<1>0. frames # << >> /\ Top.proc = "Verify" /\ Top.at = "checked"  BY DEF VerifyChecked, At
<1>1. Types  BY <1>0, InvIs
<1>2. UNCHANGED <<dev, devices, status, hardware, counts>>  BY DEF VerifyChecked
<1>3. Calm /\ enableChange' = enableChange /\ dev' = dev
  BY <1>2, StillIsCalm DEF counts
<1>4. NotCleared /\ LeavesWell  BY <1>0 DEF NotCleared, LeavesWell
<1>5. Returns /\ result' \in {"error", "disconnected"}  BY <1>0, <1>1, ReturnIs DEF Return, VerifyChecked
<1>6. n # 1 /\ Knows(n - 1)'  BY <1>0, <1>3, <1>5, ErrorKnown
<1> QED  BY <1>3, <1>4, <1>5, <1>6, ReturnKeeps

(* The call of HubPortConnectionChanged from a check that goes down.       *)
LEMMA CallChanged ==
  ASSUME TreeInv, frames # << >>, NEW n, n = Len(frames), Quiet, UNCHANGED result, OffKept,
         Top.proc = "CheckConnection", Down(n), NEW a \in {"enable", "others"},
         Call(a, Frame("ConnectionChanged", "status", Top.dev, Top.port))
  PROVE  TreeInv'
<1>1. /\ Types /\ Tree /\ Stack /\ TypeOK /\ n \in Nat \ {0} /\ n \in 1 .. Len(frames) /\ Top = frames[n]
      /\ Top.dev \in Live /\ Top.dev \in DevIds /\ Top.port \in Nat /\ Open(n) /\ FrameOK(n)
  BY InvIs
<1>2. Calm /\ dev' = dev /\ (gaveUp => gaveUp')  BY StillIsCalm DEF Quiet
<1>3. a \in Places[Top.proc] /\ "ConnectionChanged" \in Procs /\ "status" \in Places["ConnectionChanged"]
  BY DEF Places, Procs, OnPort
<1>4. /\ frames'[n].proc = Top.proc /\ frames'[n].at = a /\ frames'[n].dev = Top.dev /\ frames'[n].port = Top.port
      /\ frames'[n + 1].proc = "ConnectionChanged" /\ frames'[n + 1].at = "status"
      /\ frames'[n + 1].dev = Top.dev /\ frames'[n + 1].port = Top.port
      /\ IsTop(n + 1)' /\ ~Asking(n + 1)' /\ ~IsTop(n)' /\ ~Asking(n)'
      /\ PosOf(n + 1)' = dev[Top.dev].pos /\ On(n + 1)' = dev[Top.dev].children[Top.port]
  BY <1>1, <1>2, <1>3, CallTo
<1>5. PosOf(n + 1)' = PosOf(n) /\ On(n + 1)' = On(n)  BY <1>1, <1>4 DEF PosOf, On
<1>6. Calls(n)'  BY <1>4 DEF Calls
<1>7. Open(n + 1)'
  <2>1. ~Rereset(n) /\ ~Rereset(n + 1)'  BY <1>1, <1>4 DEF Rereset
  <2> QED  BY <1>1, <1>2, <1>5, <2>1 DEF Open, Settled, Way, Calm
<1>8. Knows(n)'
  <2>1. KnowsCheck(n)'  BY <1>4 DEF KnowsCheck
  <2> QED  BY <1>4, <2>1, KnowsIs
<1>9. Knows(n + 1)'
  <2>1. On(n) # Null => dev[On(n)].number # 0 /\ (dev[On(n)].status \in Done \/ gaveUp)  BY ChildSettled
  <2>2. KnowsChanged(n + 1)'  BY <1>2, <1>4, <1>5, <2>1 DEF KnowsChanged
  <2> QED  BY <1>4, <2>2, KnowsIs
<1>10. Top.port \in 1 .. dev[Top.dev].maxChildren  BY <1>1 DEF FrameOK, OnPort
<1>11. Way(PosOf(n)) \subseteq Way(dev[Top.dev].pos)  BY <1>1 DEF PosOf
<1> QED  BY <1>1, <1>3, <1>6, <1>7, <1>8, <1>9, <1>10, <1>11, CallNewKeeps

(* The check goes on.                                                      *)
LEMMA CheckGoes ==
  ASSUME TreeInv, frames # << >>, NEW n, n = Len(frames), Quiet, UNCHANGED result, OffKept,
         Top.proc = "CheckConnection", NEW a \in Places["CheckConnection"] \ {"got"}, Goto(a),
         a \in {"enable", "clear_enable", "interference", "others", "clear", "done"} => PortOf(n) \notin connChange,
         a \in {"enable", "clear_enable", "interference"} /\ On(n) # Null =>
            /\ PortOf(n) \in plugged /\ status[PortOf(n)].conn
            /\ status[PortOf(n)].en <=> PortOf(n) \in enabled
            /\ a = "interference" \/ PortOf(n) \in enabled \/ status[PortOf(n)].enCh,
         a \in {"others", "clear", "done"} /\ On(n) # Null => PortOf(n) \in enabled
  PROVE  TreeInv'
<1>1. Types /\ TypeOK  BY InvIs
<1>2. UNCHANGED <<dev, status, plugged, enabled, connChange>>  BY DEF Quiet, hardware
<1>3. a \in Places[Top.proc] /\ dev' = dev  BY <1>2
<1>4. frames'[n].proc = "CheckConnection" /\ frames'[n].at = a /\ PortOf(n)' = PortOf(n) /\ On(n)' = On(n)
  BY <1>1, <1>3, GotoTo
<1>5. KnowsCheck(n)'
  <2>1. a # "got"  OBVIOUS
  <2> QED  BY <1>2, <1>4, <2>1 DEF KnowsCheck
<1>6. Knows(n)'  BY <1>4, <1>5, KnowsIs
<1>7. result' \in {"ok", "error", "disconnected"}  BY <1>1 DEF TypeOK
<1> QED  BY <1>3, <1>6, <1>7, GotoKeeps

LEMMA CheckIs ==
  ASSUME TreeInv, frames # << >>, NEW n, n = Len(frames), Top.proc = "CheckConnection",
         UNCHANGED <<dev, devices, status, hardware, counts>>
  PROVE  /\ Types /\ Tree /\ Stack /\ Elsewhere /\ TypeOK /\ n \in Nat \ {0} /\ n \in 1 .. Len(frames) /\ Top = frames[n]
         /\ KnowsCheck(n) /\ IsTop(n) /\ Child = On(n) /\ PortPos = PortOf(n)
         /\ Quiet /\ Calm /\ enableChange' = enableChange /\ dev' = dev
         /\ PortOf(n) \in Ports /\ Way(PortOf(n)) \ {PortOf(n)} \subseteq enabled \ connChange
         /\ LeavesWell
         /\ Top.at # "interference" => NotCleared /\ OffKept
<1>1. /\ Types /\ Tree /\ Stack /\ Elsewhere /\ TypeOK /\ n \in Nat \ {0} /\ n \in 1 .. Len(frames) /\ Top = frames[n]
      /\ Knows(n) /\ IsTop(n) /\ Child = On(n) /\ PortPos = PortOf(n) /\ Open(n)
  BY InvIs
<1>2. Quiet /\ Calm /\ enableChange' = enableChange /\ dev' = dev  BY StillIsCalm DEF counts, Quiet
<1>3. KnowsCheck(n)  BY <1>1 DEF Knows
<1>4. PortOf(n) \in Ports /\ Way(PortOf(n)) = Way(PosOf(n)) \cup {PortOf(n)}  BY <1>1, PortOfIs DEF OnPort
<1>5. Way(PosOf(n)) \subseteq enabled \ connChange  BY <1>1 DEF Open, Rereset, Settled
<1>6. LeavesWell  BY DEF LeavesWell
<1>7. Top.at # "interference" => NotCleared /\ OffKept  BY <1>2 DEF NotCleared, OffKept
<1> QED  BY <1>1, <1>2, <1>3, <1>4, <1>5, <1>6, <1>7

(* Who a check returns to.                                                 *)
LEMMA CheckReturns ==
  ASSUME TreeInv, frames # << >>, NEW n, n = Len(frames), Top.proc = "CheckConnection", NotCleared,
         UNCHANGED <<dev, devices, status, hardware, counts>>,
         NEW r \in {"ok", "error", "disconnected"}, Return(r),
         r = "ok" /\ On(n) # Null => PortOf(n) \in enabled \ connChange
  PROVE  TreeInv'
<1>1. /\ Types /\ n \in Nat \ {0} /\ n \in 1 .. Len(frames) /\ Top = frames[n] /\ Quiet /\ LeavesWell /\ dev' = dev
      /\ UNCHANGED <<enabled, connChange>>
  BY CheckIs DEF hardware
<1>2. Returns /\ result' = r  BY <1>1, ReturnIs DEF Return
<1>3. n # 1 => Knows(n - 1)'
  <2> SUFFICES ASSUME n # 1, NEW k, k = n - 1  PROVE Knows(k)'
    OBVIOUS
  <2>1. k \in 1 .. n - 1 /\ k + 1 = n  BY <1>1
  <2>2. Calls(k) /\ Knows(k)  BY <2>1, InvIs
  <2>3. frames'[k] = frames[k]  BY <1>2, <2>1 DEF Returns, Lower
  <2>4. /\ frames[k].proc \in {"Verify", "HubAttach", "CheckForChange"}
        /\ frames[k].proc = "HubAttach" => frames[k].at = "port"
        /\ frames[k].proc = "CheckForChange" => frames[k].dev = frames[n].dev /\ frames[k].port = frames[n].port
    BY <1>1, <2>1, <2>2 DEF Calls
  <2>5. CASE frames[k].proc = "Verify"  BY <2>3, <2>5, KnowsIs
  <2>6. CASE frames[k].proc = "HubAttach"
    <3>1. KnowsHub(k)'  BY <1>1, <2>2, <2>3, <2>4, <2>6 DEF Knows, KnowsHub
    <3> QED  BY <2>3, <2>6, <3>1, KnowsIs
  <2>7. CASE frames[k].proc = "CheckForChange"
    <3>1. PortOf(k)' = PortOf(n) /\ On(k)' = On(n)  BY <1>1, <2>3, <2>4, <2>7 DEF PortOf, PosOf, On
    <3>2. KnowsWalk(k)'  BY <1>1, <1>2, <3>1 DEF KnowsWalk, GotOK
    <3> QED  BY <2>3, <2>7, <3>2, KnowsIs
  <2> QED  BY <2>4, <2>5, <2>6, <2>7
<1> QED  BY <1>1, <1>3, ReturnQuiet

LEMMA CheckGot ==
  ASSUME TreeInv, frames # << >>, NEW n, n = Len(frames), Top.proc = "CheckConnection", Top.at = "got", result = "ok",
         UNCHANGED <<dev, devices, status, hardware, counts>>, UNCHANGED result,
         IF Changed THEN Call("enable", Frame("ConnectionChanged", "status", Top.dev, Top.port)) ELSE Goto("enable")
  PROVE  TreeInv'
<1>1. /\ Types /\ Tree /\ Stack /\ Elsewhere /\ TypeOK /\ n \in Nat \ {0} /\ n \in 1 .. Len(frames) /\ Top = frames[n]
      /\ KnowsCheck(n) /\ IsTop(n) /\ PortPos = PortOf(n) /\ Quiet /\ OffKept
      /\ PortOf(n) \in Ports /\ Way(PortOf(n)) \ {PortOf(n)} \subseteq enabled \ connChange
  BY CheckIs
<1>2. Fresh(PortOf(n))  BY <1>1 DEF KnowsCheck, GotOK
<1>3. PICK p \in Ports : p = PortOf(n)  BY <1>1
<1>4. /\ status[p].conn <=> p \in plugged
      /\ status[p].connCh <=> p \in connChange
      /\ status[p].en <=> p \in enabled
      /\ status[p].enCh <=> p \in enableChange
  <2>1. status[p] = PortStatus(p)  BY <1>2, <1>3 DEF Fresh
  <2>2. /\ PortStatus(p).conn = (p \in plugged) /\ PortStatus(p).connCh = (p \in connChange)
        /\ PortStatus(p).en = (p \in enabled) /\ PortStatus(p).enCh = (p \in enableChange)
    BY DEF PortStatus
  <2> QED  BY <2>1, <2>2
<1>5. Changed <=> p \in connChange  BY <1>1, <1>3, <1>4 DEF Changed
<1>6. CASE p \in connChange
  <2>1. Down(n)  BY <1>3, <1>6, UnderVerify
  <2>2. Call("enable", Frame("ConnectionChanged", "status", Top.dev, Top.port))  BY <1>5, <1>6
  <2> QED  BY <1>1, <2>1, <2>2, CallChanged
<1>7. CASE p \notin connChange
  <2>1. Goto("enable")  BY <1>5, <1>7
  <2>2. ASSUME On(n) # Null  PROVE p \in plugged /\ (p \in enabled \/ p \in enableChange)
    <3>1. CASE p \in enabled  BY <1>1, <3>1 DEF TypeOK
    <3>2. CASE p \notin enabled
      <4>1. Down(n)  BY <1>3, <3>2, UnderVerify
      <4>2. ~InHand(p)  BY <1>3, <4>1, ChildSettled
      <4>3. ~Cleared(p)  BY <1>1 DEF Cleared
      <4>4. On(n) \in Live /\ dev[On(n)].pos = p  BY <1>1, <1>3, <2>2, OnIsThere DEF OnPort
      <4>5. p # << >>  BY <1>3 DEF Ports
      <4>6. Way(p) \ {p} \subseteq enabled  BY <1>1, <1>3
      <4>7. p \in enableChange  BY <1>1, <1>7, <3>2, <4>2, <4>3, <4>4, <4>5, <4>6 DEF Elsewhere, Off
      <4> QED  BY <1>1, <3>2, <4>7 DEF TypeOK
    <3> QED  BY <3>1, <3>2
  <2>3. On(n) # Null => /\ PortOf(n) \in plugged /\ status[PortOf(n)].conn
                        /\ status[PortOf(n)].en <=> PortOf(n) \in enabled
                        /\ PortOf(n) \in enabled \/ status[PortOf(n)].enCh
    BY <1>3, <1>4, <2>2
  <2>4. "enable" \in Places["CheckConnection"] \ {"got"} /\ PortOf(n) \notin connChange  BY <1>3, <1>7 DEF Places
  <2> QED  BY <1>1, <2>1, <2>3, <2>4, CheckGoes
<1> QED  BY <1>6, <1>7

LEMMA CheckEnable ==
  ASSUME TreeInv, frames # << >>, NEW n, n = Len(frames), Top.proc = "CheckConnection", Top.at = "enable",
         UNCHANGED <<dev, devices, status, hardware, counts>>, UNCHANGED result,
         IF status[PortPos].enCh THEN Goto("clear_enable") ELSE Goto("others")
  PROVE  TreeInv'
<1>1. Top = frames[n] /\ KnowsCheck(n) /\ IsTop(n) /\ PortPos = PortOf(n) /\ Quiet /\ OffKept
  BY CheckIs
<1>2. /\ PortOf(n) \notin connChange
      /\ On(n) # Null =>
           /\ PortOf(n) \in plugged /\ status[PortOf(n)].conn
           /\ status[PortOf(n)].en <=> PortOf(n) \in enabled
           /\ PortOf(n) \in enabled \/ status[PortOf(n)].enCh
  BY <1>1 DEF KnowsCheck
<1>3. "clear_enable" \in Places["CheckConnection"] \ {"got"} /\ "others" \in Places["CheckConnection"] \ {"got"}  BY DEF Places
<1>4. CASE status[PortPos].enCh
  <2>1. Goto("clear_enable")  BY <1>4
  <2> QED  BY <1>1, <1>2, <1>3, <2>1, CheckGoes
<1>5. CASE ~status[PortPos].enCh
  <2>1. Goto("others")  BY <1>5
  <2>2. On(n) # Null => PortOf(n) \in enabled  BY <1>1, <1>2, <1>5
  <2> QED  BY <1>1, <1>2, <1>3, <2>1, <2>2, CheckGoes
<1> QED  BY <1>4, <1>5

LEMMA CheckInterference ==
  ASSUME TreeInv, frames # << >>, NEW n, n = Len(frames), Top.proc = "CheckConnection", Top.at = "interference",
         UNCHANGED <<dev, devices, status, hardware, counts>>, UNCHANGED result,
         IF Interference THEN Call("others", Frame("ConnectionChanged", "status", Top.dev, Top.port)) ELSE Goto("others")
  PROVE  TreeInv'
<1>1. /\ Types /\ Tree /\ n \in Nat \ {0} /\ n \in 1 .. Len(frames) /\ Top = frames[n]
      /\ KnowsCheck(n) /\ IsTop(n) /\ PortPos = PortOf(n) /\ Child = On(n) /\ Quiet /\ enableChange' = enableChange /\ dev' = dev
  BY CheckIs
<1>2. /\ PortOf(n) \notin connChange
      /\ On(n) # Null =>
           /\ PortOf(n) \in plugged /\ status[PortOf(n)].conn
           /\ status[PortOf(n)].en <=> PortOf(n) \in enabled
  BY <1>1 DEF KnowsCheck
<1>3. \A q : Cleared(q) <=> q = PortOf(n)  BY <1>1 DEF Cleared
<1>4. \A d \in Live : dev[d].pos = PortOf(n) => On(n) = d /\ On(n) # Null  BY <1>1, OnIsThere DEF OnPort
<1>5. CASE Interference
  <2>1. PortOf(n) \notin enabled  BY <1>1, <1>2, <1>5 DEF Interference
  <2>2. Down(n)  BY <2>1, UnderVerify
  <2>3. Call("others", Frame("ConnectionChanged", "status", Top.dev, Top.port))  BY <1>5
  <2>4. "others" \in Places[Top.proc] /\ "ConnectionChanged" \in Procs /\ "status" \in Places["ConnectionChanged"]
        /\ Top.dev \in DevIds /\ Top.port \in Nat
    BY <1>1, TopIs DEF Places, Procs, OnPort
  <2>5. /\ frames'[n + 1].proc = "ConnectionChanged" /\ PortOf(n + 1)' = Append(dev[Top.dev].pos, Top.port)
    <3>1. Types /\ frames # << >> /\ n = Len(frames) /\ dev' = dev  BY <1>1
    <3>2. Call("others", Frame("ConnectionChanged", "status", Top.dev, Top.port)) /\ "ConnectionChanged" # "Verify"  BY <2>3
    <3> QED  BY ONLY <2>4, <3>1, <3>2, CallTo
  <2>6. Len(frames') = n + 1 /\ n + 1 \in 1 .. n + 1
    <3>1. Types  BY <1>1
    <3>2. PICK f \in FrameType, g \in FrameType : Makes(f, g)  BY <2>3, <2>4, <3>1, CallNewPick
    <3> QED  BY <1>1, <3>2 DEF Makes
  <2>7. PortOf(n + 1)' = PortOf(n)  BY <1>1, <2>5, Zenon DEF PortOf, PosOf
  <2>8. ASSUME NEW p, p = PortOf(n)  PROVE InHand(p)'  BY <2>5, <2>6, <2>7, <2>8 DEF InHand
  <2>9. \A p : Cleared(p) => InHand(p)'  BY <1>3, <2>8
  <2>10. OffKept  BY <1>1, <2>9 DEF OffKept
  <2> QED  BY <1>1, <2>2, <2>3, <2>10, CallChanged
<1>6. CASE ~Interference
  <2>1. On(n) # Null => PortOf(n) \in enabled  BY <1>1, <1>2, <1>6 DEF Interference
  <2>2. OffKept  BY <1>1, <1>3, <1>4, <2>1 DEF OffKept
  <2>3. Goto("others") /\ "others" \in Places["CheckConnection"] \ {"got"}  BY <1>6 DEF Places
  <2> QED  BY <1>1, <1>2, <2>1, <2>2, <2>3, CheckGoes
<1> QED  BY <1>5, <1>6

LEMMA CheckConnectionKeeps == ASSUME TreeInv, CheckConnection, NEW n, n = Len(frames) PROVE TreeInv'
<1>1. frames # << >> /\ Top.proc = "CheckConnection" /\ UNCHANGED <<dev, devices, status, hardware, counts>>
  BY DEF CheckConnection, At
<1>2. /\ Top = frames[n] /\ KnowsCheck(n) /\ IsTop(n) /\ Quiet /\ TypeOK
      /\ Top.at # "interference" => NotCleared /\ OffKept
  BY <1>1, CheckIs
<1>3. CASE Top.at = "got" /\ result # "ok" /\ Return(result)
  <2>1. result \in {"ok", "error", "disconnected"}  BY <1>2 DEF TypeOK
  <2> QED  BY <1>1, <1>2, <1>3, <2>1, CheckReturns
<1>4. CASE /\ Top.at = "got" /\ result = "ok" /\ UNCHANGED result
           /\ IF Changed THEN Call("enable", Frame("ConnectionChanged", "status", Top.dev, Top.port)) ELSE Goto("enable")
  BY <1>1, <1>4, CheckGot
<1>5. CASE /\ Top.at = "enable" /\ UNCHANGED result
           /\ IF status[PortPos].enCh THEN Goto("clear_enable") ELSE Goto("others")
  BY <1>1, <1>5, CheckEnable
<1>6. CASE /\ Top.at = "interference" /\ UNCHANGED result
           /\ IF Interference THEN Call("others", Frame("ConnectionChanged", "status", Top.dev, Top.port)) ELSE Goto("others")
  BY <1>1, <1>6, CheckInterference
<1>7. CASE Top.at = "others" /\ UNCHANGED result /\ (Goto("clear") \/ Goto("done"))
  <2>1. PICK a \in {"clear", "done"} : Goto(a)  BY <1>7
  <2>2. PortOf(n) \notin connChange /\ (On(n) # Null => PortOf(n) \in enabled)  BY <1>1, <1>2, <1>7 DEF KnowsCheck
  <2>3. a \in Places["CheckConnection"] \ {"got"} /\ a \notin {"enable", "clear_enable", "interference"}  BY <2>1 DEF Places
  <2> QED  BY <1>1, <1>2, <1>7, <2>1, <2>2, <2>3, CheckGoes
<1>8. CASE Top.at = "done" /\ Return("ok")
  <2>1. On(n) # Null => PortOf(n) \in enabled \ connChange  BY <1>1, <1>2, <1>8 DEF KnowsCheck
  <2> QED  BY <1>1, <1>2, <1>8, <2>1, CheckReturns
<1> QED  BY <1>3, <1>4, <1>5, <1>6, <1>7, <1>8 DEF CheckConnection, At

(* The reset of a port.                                                    *)
LEMMA ResetIs ==
  ASSUME TreeInv, frames # << >>, NEW n, n = Len(frames), Top.proc = "PortReset",
         UNCHANGED <<dev, devices, status, hardware>>, gaveUp => gaveUp'
  PROVE  /\ Types /\ TypeOK /\ n \in Nat \ {0} /\ n \in 1 .. Len(frames) /\ Top = frames[n] /\ Top.n \in Nat
         /\ KnowsReset(n) /\ IsTop(n) /\ PortPos = PortOf(n) /\ PortOf(n) \in Ports /\ PortOf(n) # << >>
         /\ Quiet /\ Calm /\ enableChange' = enableChange /\ dev' = dev
         /\ UNCHANGED <<status, plugged, enabled, connChange>>
         /\ LeavesWell /\ NotCleared /\ OffKept
<1>1. /\ Types /\ TypeOK /\ n \in Nat \ {0} /\ n \in 1 .. Len(frames) /\ Top = frames[n] /\ Top.n \in Nat
      /\ Knows(n) /\ IsTop(n) /\ PortPos = PortOf(n)
  BY InvIs
<1>2. Quiet /\ Calm /\ enableChange' = enableChange /\ dev' = dev  BY StillIsCalm DEF Quiet
<1>3. KnowsReset(n)  BY <1>1 DEF Knows
<1>4. PortOf(n) \in Ports /\ PortOf(n) # << >>  BY <1>1, PortOfIs DEF OnPort, Ports
<1>5. UNCHANGED <<status, plugged, enabled, connChange>>  BY DEF hardware
<1>6. LeavesWell  BY DEF LeavesWell
<1>7. NotCleared /\ OffKept  BY <1>2 DEF NotCleared, OffKept
<1> QED  BY <1>1, <1>2, <1>3, <1>4, <1>5, <1>6, <1>7

LEMMA ResetGoes ==
  ASSUME TreeInv, frames # << >>, NEW n, n = Len(frames), Top.proc = "PortReset",
         UNCHANGED <<dev, devices, status, hardware, counts>>, UNCHANGED result,
         NEW a \in {"wait", "clear", "retry"}, Goto(a),
         Reports(PortOf(n)), a = "clear" => Up(PortOf(n))
  PROVE  TreeInv'
<1>1. /\ Types /\ TypeOK /\ Top = frames[n] /\ KnowsReset(n) /\ Quiet /\ dev' = dev /\ OffKept
      /\ UNCHANGED <<status, plugged, enabled, connChange>>
  BY ResetIs DEF counts
<1>2. a \in Places[Top.proc] /\ a \notin {"was_set", "look"}  BY DEF Places
<1>3. frames'[n].proc = "PortReset" /\ frames'[n].at = a /\ PortOf(n)' = PortOf(n)  BY <1>1, <1>2, GotoTo
<1>4. PortOf(n) \in plugged /\ PortOf(n) \notin connChange  BY <1>1 DEF KnowsReset
<1>5. Reports(PortOf(n))' /\ (Up(PortOf(n)) => Up(PortOf(n))')  BY <1>1, <1>3 DEF Reports, Up
<1>6. KnowsReset(n)'
  <2>1. a # "done"  OBVIOUS
  <2> QED  BY <1>1, <1>2, <1>3, <1>4, <1>5, <2>1 DEF KnowsReset
<1>7. Knows(n)'  BY <1>3, <1>6, KnowsIs
<1>8. result' \in {"ok", "error", "disconnected"}  BY <1>1 DEF TypeOK
<1> QED  BY <1>1, <1>2, <1>7, <1>8, GotoKeeps

LEMMA ResetReturns ==
  ASSUME TreeInv, frames # << >>, NEW n, n = Len(frames), Top.proc = "PortReset",
         UNCHANGED <<dev, devices, status, hardware>>, gaveUp => gaveUp',
         NEW r \in {"ok", "error"}, Return(r),
         r = "ok" => Up(PortOf(n)) /\ Reports(PortOf(n)), r # "ok" => gaveUp'
  PROVE  TreeInv'
<1>1. /\ Types /\ TypeOK /\ n \in Nat \ {0} /\ Top = frames[n] /\ PortOf(n) # << >>
      /\ Quiet /\ dev' = dev /\ UNCHANGED <<status, plugged, enabled, connChange>> /\ NotCleared /\ LeavesWell
  BY ResetIs
<1>2. Returns /\ result' = r  BY <1>1, ReturnIs DEF Return
<1>3. n # 1 => Knows(n - 1)'
  <2> SUFFICES ASSUME n # 1, NEW k, k = n - 1  PROVE Knows(k)'
    OBVIOUS
  <2>1. k \in 1 .. n - 1 /\ k + 1 = n /\ Len(frames') = k /\ k # Len(frames) /\ k < Len(frames)
    BY <1>1, <1>2 DEF Returns
  <2>2. Calls(k) /\ Knows(k)  BY <2>1, InvIs
  <2>3. frames'[k] = frames[k]  BY <1>2, <2>1 DEF Returns, Lower
  <2>4. \/ frames[k].proc = "ConnectionChanged" /\ frames[k].at = "was_reset" /\ PortOf(k) = PortOf(n)
        \/ frames[k].proc = "Attach" /\ frames[k].at = "rereset" /\ PosOf(k) = PortOf(n)
    BY <1>1, <2>1, <2>2, Zenon DEF Calls, PortOf, PosOf
  <2>5. PosOf(k)' = PosOf(k) /\ PortOf(k)' = PortOf(k) /\ On(k)' = On(k) /\ \A d : Bare(d)' = Bare(d)
    BY <1>1, <2>3 DEF PosOf, PortOf, On, Bare
  <2>6. \A q : Up(q)' = Up(q) /\ Reports(q)' = Reports(q)  BY <1>1 DEF Up, Reports
  <2>7. ~Asking(k)' /\ (GotOK(k)' => r = "ok") /\ (GotError(k)' => gaveUp')
    BY <1>2, <2>1 DEF Asking, GotOK, GotError, IsTop
  <2>8. devices' = devices  BY <1>1 DEF Quiet
  <2>9. CASE frames[k].proc = "ConnectionChanged" /\ frames[k].at = "was_reset" /\ PortOf(k) = PortOf(n)
    <3>1. KnowsChanged(k)  BY <2>2 DEF Knows
    <3>2. KnowsChanged(k)'  BY <1>1, <2>3, <2>5, <2>6, <2>7, <2>9, <3>1 DEF KnowsChanged
    <3> QED  BY <2>3, <2>9, <3>2, KnowsIs
  <2>10. CASE frames[k].proc = "Attach" /\ frames[k].at = "rereset" /\ PosOf(k) = PortOf(n)
    <3>1. KnowsAttach(k)  BY <2>2 DEF Knows
    <3>2. KnowsAttach(k)'  BY <1>1, <2>3, <2>5, <2>6, <2>7, <2>8, <2>10, <3>1 DEF KnowsAttach
    <3> QED  BY <2>3, <2>10, <3>2, KnowsIs
  <2> QED  BY <2>4, <2>9, <2>10
<1> QED  BY <1>1, <1>3, ReturnQuiet

LEMMA ResetAgainAgain ==
  ASSUME TreeInv, frames # << >>, NEW n, n = Len(frames), Top.proc = "PortReset",
         UNCHANGED <<dev, devices, status, hardware, counts>>, UNCHANGED result, GotoWith("set", Top.n + 1)
  PROVE  TreeInv'
<1>1. /\ Types /\ TypeOK /\ Top = frames[n] /\ KnowsReset(n) /\ Calm /\ dev' = dev /\ OffKept /\ Top.n \in Nat
      /\ enableChange' = enableChange /\ UNCHANGED <<status, plugged, enabled, connChange>>
  BY ResetIs DEF counts
<1>2. "set" \in Places[Top.proc] /\ Top.n + 1 \in Nat  BY <1>1 DEF Places
<1>3. PICK f \in FrameType : Goes(f) /\ f.proc = Top.proc /\ f.at = "set" /\ f.dev = Top.dev /\ f.port = Top.port /\ f.n = Top.n + 1
  BY <1>1, <1>2, GotoWithPick
<1>4. frames'[n] = f /\ PortOf(n)' = PortOf(n)  BY <1>1, <1>3, GoesTo
<1>5. Knows(n)'
  <2>1. PortOf(n) \in plugged /\ PortOf(n) \notin connChange  BY <1>1 DEF KnowsReset
  <2>2. KnowsReset(n)'  BY <1>1, <1>3, <1>4, <2>1 DEF KnowsReset
  <2> QED  BY <1>3, <1>4, <2>2, KnowsIs
<1>6. result' \in {"ok", "error", "disconnected"} /\ enableChange' \subseteq enableChange  BY <1>1 DEF TypeOK
<1>7. Goes(f) /\ f.at \in Places[f.proc] /\ f.proc \notin {"HubAttach", "CheckForChange", "Attach"}  BY <1>2, <1>3
<1> QED  BY <1>1, <1>5, <1>6, <1>7, GoesKeeps

LEMMA PortResetKeeps == ASSUME TreeInv, PortReset, NEW n, n = Len(frames) PROVE TreeInv'
<1>1. frames # << >> /\ Top.proc = "PortReset" /\ UNCHANGED <<dev, devices, status, hardware, changes, failures>>
  BY DEF PortReset, At
<1>2. gaveUp => gaveUp'  BY DEF PortReset
<1>3. /\ KnowsReset(n) /\ IsTop(n) /\ Top = frames[n] /\ PortPos = PortOf(n) /\ PortOf(n) \in Ports
  BY <1>1, <1>2, ResetIs
<1>4. CASE Top.at = "was_set" /\ gaveUp' = gaveUp /\ IF result = "ok" THEN Goto("wait") /\ UNCHANGED result ELSE Return("error")
  <2>1. UNCHANGED counts  BY <1>1, <1>4 DEF counts
  <2>2. CASE result = "ok"
    <3>1. Reports(PortOf(n))  BY <1>1, <1>3, <1>4, <2>2 DEF KnowsReset, GotOK
    <3> QED  BY <1>1, <1>4, <2>1, <2>2, <3>1, ResetGoes
  <2>3. CASE result # "ok"
    <3>1. gaveUp'  BY <1>1, <1>3, <1>4, <2>3 DEF KnowsReset, GotError
    <3>2. Return("error")  BY <1>4, <2>3
    <3> QED  BY <1>1, <1>2, <3>1, <3>2, ResetReturns
  <2> QED  BY <2>2, <2>3
<1>5. CASE /\ Top.at = "look" /\ gaveUp' = gaveUp
           /\ LET st == status[PortPos] IN
              IF result # "ok" \/ st.connCh \/ ~st.conn THEN Return("error")
              ELSE /\ Goto(IF st.en THEN "clear" ELSE "retry")
                   /\ UNCHANGED result
  <2>1. UNCHANGED counts  BY <1>1, <1>5 DEF counts
  <2>2. CASE result = "ok"
    <3>1. PortOf(n) \in plugged /\ PortOf(n) \notin connChange /\ Reports(PortOf(n)) /\ Fresh(PortOf(n))
      BY <1>1, <1>3, <1>5, <2>2 DEF KnowsReset, GotOK
    <3>2. PICK p \in Ports : p = PortOf(n)  BY <1>3
    <3>3. status[p].conn /\ ~status[p].connCh /\ (status[p].en <=> p \in enabled)
      <4>1. status[p] = PortStatus(p)  BY <3>1, <3>2 DEF Fresh
      <4>2. /\ PortStatus(p).conn = (p \in plugged) /\ PortStatus(p).connCh = (p \in connChange)
            /\ PortStatus(p).en = (p \in enabled)
        BY DEF PortStatus
      <4> QED  BY <3>1, <3>2, <4>1, <4>2
    <3>4. CASE status[p].en
      <4>1. Goto("clear") /\ UNCHANGED result  BY <1>3, <1>5, <2>2, <3>2, <3>3, <3>4
      <4>2. Up(PortOf(n))  BY <3>2, <3>3, <3>4 DEF Up
      <4> QED  BY <1>1, <2>1, <3>1, <4>1, <4>2, ResetGoes
    <3>5. CASE ~status[p].en
      <4>1. Goto("retry") /\ UNCHANGED result  BY <1>3, <1>5, <2>2, <3>2, <3>3, <3>5
      <4> QED  BY <1>1, <2>1, <3>1, <4>1, ResetGoes
    <3> QED  BY <3>4, <3>5
  <2>3. CASE result # "ok"
    <3>1. gaveUp'  BY <1>1, <1>3, <1>5, <2>3 DEF KnowsReset, GotError
    <3>2. Return("error")  BY <1>5, <2>3
    <3> QED  BY <1>1, <1>2, <3>1, <3>2, ResetReturns
  <2> QED  BY <2>2, <2>3
<1>6. CASE Top.at = "retry" /\ Top.n + 1 < 3 /\ GotoWith("set", Top.n + 1) /\ UNCHANGED <<result, gaveUp>>
  <2>1. UNCHANGED counts  BY <1>1, <1>6 DEF counts
  <2> QED  BY <1>1, <1>6, <2>1, ResetAgainAgain
<1>7. CASE Top.at = "retry" /\ Return("error") /\ gaveUp' = TRUE
  BY <1>1, <1>7, ResetReturns
<1>8. CASE Top.at = "done" /\ Return("ok")
  <2>1. Up(PortOf(n)) /\ Reports(PortOf(n))  BY <1>1, <1>3, <1>8 DEF KnowsReset
  <2> QED  BY <1>1, <1>2, <1>8, <2>1, ResetReturns
<1> QED  BY <1>4, <1>5, <1>6, <1>7, <1>8 DEF PortReset, At

(* HubPortConnectionChanged: who it returns to.                            *)
LEMMA ChangedCaller ==
  ASSUME TreeInv, frames # << >>, NEW n, n = Len(frames), Top.proc = "ConnectionChanged", Returns,
         UNCHANGED <<status, plugged, enabled, connChange>>, dev'[Top.dev].pos = dev[Top.dev].pos,
         PortOf(n) \notin connChange,
         dev'[Top.dev].children[Top.port] # Null => PortOf(n) \in plugged /\ Up(PortOf(n))
  PROVE  n # 1 => Knows(n - 1)'
<1>1. n \in Nat \ {0} /\ n \in 1 .. Len(frames) /\ Top = frames[n]  BY InvIs
<1> SUFFICES ASSUME n # 1, NEW k, k = n - 1  PROVE Knows(k)'
  OBVIOUS
<1>2. k \in 1 .. n - 1 /\ k + 1 = n  BY <1>1
<1>3. Calls(k)  BY <1>2, InvIs
<1>4. frames'[k] = frames[k]  BY <1>2 DEF Returns, Lower
<1>5. /\ frames[k].proc = "CheckConnection" /\ frames[k].at \in {"enable", "others"}
      /\ frames[k].dev = Top.dev /\ frames[k].port = Top.port
  BY <1>1, <1>2, <1>3 DEF Calls
<1>6. PortOf(k)' = PortOf(n)  BY <1>1, <1>4, <1>5 DEF PortOf, PosOf
<1>7. On(k)' = dev'[Top.dev].children[Top.port]  BY <1>4, <1>5 DEF On
<1>8. On(k)' # Null => PortOf(n) \in plugged /\ PortOf(n) \in enabled /\ status[PortOf(n)].en /\ status[PortOf(n)].conn
  BY <1>7 DEF Up
<1>9. KnowsCheck(k)'
  <2>1. PortOf(k)' \notin connChange'  BY <1>6
  <2>2. On(k)' # Null => /\ PortOf(k)' \in plugged' /\ PortOf(k)' \in enabled'
                         /\ status'[PortOf(k)'].en /\ status'[PortOf(k)'].conn
    BY <1>6, <1>8
  <2> QED  BY <1>4, <1>5, <2>1, <2>2 DEF KnowsCheck
<1> QED  BY <1>4, <1>5, <1>9, KnowsIs

LEMMA ChangedIs ==
  ASSUME TreeInv, frames # << >>, NEW n, n = Len(frames), Top.proc = "ConnectionChanged"
  PROVE  /\ Types /\ TypeOK /\ Tree /\ Table /\ Stack /\ n \in Nat \ {0} /\ n \in 1 .. Len(frames) /\ Top = frames[n]
         /\ Top.dev \in Live /\ Top.dev \in DevIds /\ Top.port \in Nat /\ Top.port \in 1 .. dev[Top.dev].maxChildren
         /\ KnowsChanged(n) /\ IsTop(n) /\ Child = On(n) /\ PortPos = PortOf(n)
         /\ PortOf(n) \in Ports /\ PortOf(n) # << >>
         /\ Way(PosOf(n)) \subseteq enabled \ connChange
         /\ Down(n) /\ NotCleared
<1>1. /\ Types /\ TypeOK /\ Tree /\ Table /\ Stack /\ n \in Nat \ {0} /\ n \in 1 .. Len(frames) /\ Top = frames[n]
      /\ Top.dev \in Live /\ Top.dev \in DevIds /\ Top.port \in Nat
      /\ Knows(n) /\ Open(n) /\ FrameOK(n) /\ IsTop(n) /\ Child = On(n) /\ PortPos = PortOf(n) /\ frames \in Seq(FrameType)
  BY InvIs
<1>2. KnowsChanged(n)  BY <1>1 DEF Knows
<1>3. Top.port \in 1 .. dev[Top.dev].maxChildren  BY <1>1 DEF FrameOK, OnPort
<1>4. PortOf(n) \in Ports /\ PortOf(n) # << >>  BY <1>1, PortOfIs DEF OnPort, Ports
<1>5. Way(PosOf(n)) \subseteq enabled \ connChange  BY <1>1 DEF Open, Rereset, Settled
<1>6. Climbs  BY <1>1 DEF Stack
<1>7. Down(n)  BY <1>1, <1>6, IsDown
<1>8. NotCleared  BY DEF NotCleared
<1> QED  BY <1>1, <1>2, <1>3, <1>4, <1>5, <1>7, <1>8

LEMMA StatusReadKeeps == ASSUME TreeInv, StatusRead, NEW n, n = Len(frames) PROVE TreeInv'
<1>1. frames # << >> /\ Top.proc = "ConnectionChanged" /\ Top.at = "got" /\ UNCHANGED <<dev, devices, status, hardware, counts>>
  BY DEF StatusRead, At
<1>2. Types /\ TypeOK /\ Top = frames[n] /\ KnowsChanged(n) /\ IsTop(n) /\ NotCleared  BY <1>1, ChangedIs
<1>3. Quiet /\ dev' = dev /\ UNCHANGED <<status, plugged, enabled, connChange, enableChange, gaveUp>>
  BY <1>1 DEF Quiet, counts, hardware
<1>4. result = "ok"  BY <1>1, <1>2 DEF KnowsChanged
<1>5. Goto("clear") /\ UNCHANGED result  BY <1>4 DEF StatusRead
<1>6. "clear" \in Places[Top.proc]  BY <1>1 DEF Places
<1>7. /\ frames'[n].proc = "ConnectionChanged" /\ frames'[n].at = "clear" /\ IsTop(n)'
      /\ PortOf(n)' = PortOf(n) /\ On(n)' = On(n)
  BY <1>1, <1>2, <1>3, <1>5, <1>6, GotoTo
<1>8. KnowsChanged(n)'
  <2>1. Fresh(PortOf(n))  BY <1>1, <1>2 DEF KnowsChanged
  <2>2. Fresh(PortOf(n))'  BY <1>3, <1>7, <2>1 DEF Fresh, PortStatus
  <2> QED  BY <1>1, <1>2, <1>3, <1>7, <2>2 DEF KnowsChanged
<1>9. Knows(n)'  BY <1>7, <1>8, KnowsIs
<1>10. OffKept /\ result' \in {"ok", "error", "disconnected"}  BY <1>2, <1>3, <1>5 DEF OffKept, TypeOK
<1> QED  BY <1>1, <1>3, <1>5, <1>6, <1>9, <1>10, GotoKeeps

LEMMA ResetNewKeeps == ASSUME TreeInv, ResetNew, NEW n, n = Len(frames) PROVE TreeInv'
<1>1. frames # << >> /\ Top.proc = "ConnectionChanged" /\ UNCHANGED <<dev, devices, status, hardware, counts>>
  BY DEF ResetNew, At
<1>2. /\ Types /\ TypeOK /\ Tree /\ n \in Nat \ {0} /\ n \in 1 .. Len(frames) /\ Top = frames[n]
      /\ Top.dev \in Live /\ Top.dev \in DevIds /\ Top.port \in Nat /\ Top.port \in 1 .. dev[Top.dev].maxChildren
      /\ KnowsChanged(n) /\ IsTop(n) /\ PortOf(n) \in Ports
      /\ Way(PosOf(n)) \subseteq enabled \ connChange
      /\ Down(n) /\ NotCleared
  BY <1>1, ChangedIs
<1>3. Quiet /\ dev' = dev /\ UNCHANGED <<status, plugged, enabled, connChange, enableChange, gaveUp>>
  BY <1>1 DEF Quiet, counts, hardware
<1>4. OffKept  BY <1>2, <1>3 DEF OffKept
<1>5. \A q : Up(q)' = Up(q) /\ Reports(q)' = Reports(q)  BY <1>3 DEF Up, Reports
<1>6. CASE Top.at = "reset" /\ Call("was_reset", Frame("PortReset", "set", Top.dev, Top.port)) /\ UNCHANGED result
  <2>1. PortOf(n) \notin connChange /\ PortOf(n) \in plugged /\ On(n) = Null  BY <1>1, <1>2, <1>6 DEF KnowsChanged
  <2>2. "was_reset" \in Places[Top.proc] /\ "PortReset" \in Procs /\ "set" \in Places["PortReset"] /\ "PortReset" # "Verify"
    BY <1>1 DEF Places, Procs, OnPort
  <2>3. /\ frames'[n].proc = "ConnectionChanged" /\ frames'[n].at = "was_reset" /\ frames'[n].dev = Top.dev /\ frames'[n].port = Top.port
        /\ frames'[n + 1].proc = "PortReset" /\ frames'[n + 1].at = "set"
        /\ frames'[n + 1].dev = Top.dev /\ frames'[n + 1].port = Top.port
        /\ ~GotOK(n)' /\ ~GotError(n)'
        /\ PortOf(n)' = PortOf(n) /\ On(n)' = On(n)
        /\ PosOf(n + 1)' = dev[Top.dev].pos /\ PortOf(n + 1)' = Append(dev[Top.dev].pos, Top.port)
    <3>1. Types /\ dev' = dev /\ Top.dev \in DevIds /\ Top.port \in Nat  BY <1>2, <1>3
    <3>2. Call("was_reset", Frame("PortReset", "set", Top.dev, Top.port))  BY <1>6
    <3> QED  BY <1>1, <2>2, <3>1, <3>2, CallTo
  <2>4. PosOf(n + 1)' = PosOf(n) /\ PortOf(n + 1)' = PortOf(n)  BY <1>2, <2>3 DEF PosOf, PortOf
  <2>5. Calls(n)'  BY <2>3 DEF Calls
  <2>6. Open(n + 1)'
    <3>1. ~Rereset(n + 1)'  BY <2>3 DEF Rereset
    <3> QED  BY <1>2, <1>3, <2>4, <3>1 DEF Open, Settled
  <2>7. Knows(n)'
    <3>1. KnowsChanged(n)'  BY <1>3, <2>1, <2>3 DEF KnowsChanged
    <3> QED  BY <2>3, <3>1, KnowsIs
  <2>8. Knows(n + 1)'
    <3>1. KnowsReset(n + 1)'  BY <1>3, <2>1, <2>3, <2>4 DEF KnowsReset
    <3> QED  BY <2>3, <3>1, KnowsIs
  <2>9. "PortReset" \in {"Verify", "PortReset"} /\ "PortReset" \notin {"HubAttach", "CheckForChange"}
        /\ Top.proc # "CheckForChange" /\ Top.proc # "Attach"
    BY <1>1
  <2>10. Call("was_reset", Frame("PortReset", "set", Top.dev, Top.port)) /\ UNCHANGED result  BY <1>6
  <2>11. Down(n) /\ Top.dev \in Live /\ Top.port \in Nat /\ Top.port \in 1 .. dev[Top.dev].maxChildren /\ Quiet
    BY <1>2, <1>3
  <2> QED  BY <1>1, <1>4, <2>2, <2>5, <2>6, <2>7, <2>8, <2>9, <2>10, <2>11, CallNewKeeps
<1>7. CASE Top.at = "was_reset" /\ result = "ok" /\ Goto("allocate") /\ UNCHANGED result
  <2>1. "allocate" \in Places[Top.proc]  BY <1>1 DEF Places
  <2>2. /\ frames'[n].proc = "ConnectionChanged" /\ frames'[n].at = "allocate" /\ IsTop(n)'
        /\ PortOf(n)' = PortOf(n) /\ On(n)' = On(n)
    BY <1>1, <1>2, <1>3, <1>7, <2>1, GotoTo
  <2>3. /\ Up(PortOf(n)) /\ Reports(PortOf(n)) /\ On(n) = Null
        /\ PortOf(n) \notin connChange /\ PortOf(n) \in plugged
    BY <1>1, <1>2, <1>7 DEF KnowsChanged, GotOK
  <2>4. Up(PortOf(n))' /\ Reports(PortOf(n))'  BY <1>3, <2>2, <2>3 DEF Up, Reports
  <2>5. KnowsChanged(n)'  BY <1>3, <2>2, <2>3, <2>4 DEF KnowsChanged
  <2>6. Knows(n)'  BY <2>2, <2>5, KnowsIs
  <2>7. result' \in {"ok", "error", "disconnected"}  BY <1>2, <1>7 DEF TypeOK
  <2> QED  BY <1>1, <1>3, <1>4, <1>7, <2>1, <2>6, <2>7, GotoKeeps
<1>8. CASE Top.at = "was_reset" /\ result # "ok" /\ Return("error")
  <2>1. gaveUp /\ PortOf(n) \notin connChange /\ On(n) = Null  BY <1>1, <1>2, <1>8 DEF KnowsChanged, GotError
  <2>2. Returns  BY <1>1, <1>2, <1>8, ReturnIs DEF Return
  <2>3. n # 1 => Knows(n - 1)'
    <3>1. dev'[Top.dev].children[Top.port] = Null  BY <1>2, <1>3, <2>1 DEF On
    <3> QED  BY <1>1, <1>3, <2>1, <2>2, <3>1, ChangedCaller
  <2>4. \A d \in Live : dev[d].pos # PortOf(n)  BY <1>1, <1>2, <2>1, OnIsThere DEF OnPort
  <2>5. LeavesWell  BY <1>1, <1>3, <2>1, <2>4 DEF LeavesWell
  <2> QED  BY <1>1, <1>2, <1>3, <1>8, <2>3, <2>5, ReturnQuiet
<1> QED  BY <1>6, <1>7, <1>8 DEF ResetNew, At

(* UsbAttachDevice: who it returns to, with its device as it is then.      *)
LEMMA AttachCaller ==
  ASSUME TreeInv, frames # << >>, NEW n, n = Len(frames), Top.proc = "Attach", Returns,
         UNCHANGED <<status, plugged, enabled, connChange>>,
         \A d \in DevIds : /\ dev'[d].pos = dev[d].pos /\ dev'[d].children = dev[d].children
                           /\ dev'[d].parent = dev[d].parent,
         result' = "ok" => (PosOf(n) # << >> => Up(PosOf(n))) /\ dev'[Top.dev].status \in Done,
         result' # "ok" => gaveUp'
  PROVE  n # 1 => Knows(n - 1)'
<1>1. /\ n \in Nat \ {0} /\ n \in 1 .. Len(frames) /\ Top = frames[n] /\ Types /\ Tree /\ Stack /\ TypeOK /\ Top.dev \in Live
      /\ frames \in Seq(FrameType)
  BY InvIs
<1> SUFFICES ASSUME n # 1, NEW k, k = n - 1  PROVE Knows(k)'
  OBVIOUS
<1>2. k \in 1 .. n - 1 /\ k + 1 = n /\ Len(frames') = k /\ k \in 1 .. Len(frames) /\ k # Len(frames)
  BY <1>1 DEF Returns
<1>3. Calls(k) /\ Knows(k)  BY <1>2, InvIs
<1>4. frames'[k] = frames[k]  BY <1>2 DEF Returns, Lower
<1>5. frames[k].proc = "ConnectionChanged" /\ frames[k].at = "attached" /\ PosOf(n) = PortOf(k)
  BY <1>1, <1>2, <1>3 DEF Calls
<1>6. On(k) = Top.dev /\ PosOf(n) # << >>
  <2>1. dev[Top.dev].pos = PortOf(k)  BY <1>1, <1>5 DEF PosOf
  <2>2. frames[k].proc \in OnPort  BY <1>5 DEF OnPort
  <2> QED  BY <1>1, <1>2, <1>5, <2>1, <2>2, OnIsThere
<1>7. frames[k].dev \in DevIds /\ Top.dev \in DevIds  BY <1>1, <1>2, LiveIs, PlaceIs
<1>8. PortOf(k)' = PortOf(k) /\ On(k)' = Top.dev  BY <1>4, <1>6, <1>7 DEF PortOf, PosOf, On
<1>9. /\ PortOf(k) \notin connChange /\ PortOf(k) \in plugged /\ Top.dev # Null /\ dev[Top.dev].parent # Null
  BY <1>3, <1>5, <1>6 DEF Knows, KnowsChanged
<1>10. KnowsChanged(k)'
  <2>1. ~Asking(k)' /\ (GotOK(k)' => result' = "ok") /\ (GotError(k)' => gaveUp')
    BY <1>2 DEF Asking, GotOK, GotError
  <2>2. result' = "ok" => Up(PortOf(k))' /\ dev'[Top.dev].status \in Done  BY <1>5, <1>6, <1>8 DEF Up
  <2>3. dev'[Top.dev].parent # Null  BY <1>7, <1>9
  <2> QED  BY <1>4, <1>5, <1>8, <1>9, <2>1, <2>2, <2>3 DEF KnowsChanged
<1> QED  BY <1>4, <1>5, <1>10, KnowsIs

LEMMA AttachIs ==
  ASSUME TreeInv, frames # << >>, NEW n, n = Len(frames), Top.proc = "Attach"
  PROVE  /\ Types /\ TypeOK /\ Tree /\ Table /\ Stack /\ n \in Nat \ {0} /\ n \in 1 .. Len(frames) /\ Top = frames[n]
         /\ Top.dev \in Live /\ Top.dev \in DevIds /\ Top.port \in Nat /\ Top.n \in Nat /\ Top.at \in Places["Attach"]
         /\ KnowsAttach(n) /\ IsTop(n) /\ Here = dev[Top.dev] /\ Here.pos = PosOf(n)
         /\ Open(n) /\ Down(n) /\ NotCleared
<1>1. /\ Types /\ TypeOK /\ Tree /\ Table /\ Stack /\ n \in Nat \ {0} /\ n \in 1 .. Len(frames) /\ Top = frames[n]
      /\ Top.dev \in Live /\ Top.dev \in DevIds /\ Top.port \in Nat /\ Top.n \in Nat /\ Top.at \in Places[Top.proc]
      /\ Knows(n) /\ Open(n) /\ IsTop(n) /\ Here = dev[frames[n].dev] /\ Here.pos = PosOf(n) /\ frames \in Seq(FrameType)
  BY InvIs
<1>2. KnowsAttach(n)  BY <1>1 DEF Knows
<1>3. Climbs  BY <1>1 DEF Stack
<1>4. Down(n)  BY <1>1, <1>3, IsDown
<1>5. NotCleared  BY DEF NotCleared
<1> QED  BY <1>1, <1>2, <1>4, <1>5

LEMMA AttachReturnsQuiet ==
  ASSUME TreeInv, frames # << >>, NEW n, n = Len(frames), Top.proc = "Attach", Quiet,
         NEW r \in {"ok", "error"}, Return(r),
         Top.at \in Late, r # "ok" => gaveUp'
  PROVE  TreeInv'
<1>1. /\ Types /\ Top = frames[n] /\ KnowsAttach(n) /\ NotCleared /\ Top.dev \in DevIds  BY AttachIs
<1>2. dev[Top.dev].number # 0 /\ dev[Top.dev].status \in Done /\ (PosOf(n) # << >> => Up(PosOf(n)))
  <2>1. Top.at # "rereset"  BY DEF Late
  <2> QED  BY <1>1, <2>1 DEF KnowsAttach
<1>3. UNCHANGED <<dev, status, plugged, enabled, connChange>>  BY DEF Quiet, hardware
<1>4. Returns /\ result' = r  BY <1>1, ReturnIs DEF Return
<1>5. n # 1 => Knows(n - 1)'  BY <1>2, <1>3, <1>4, AttachCaller
<1>6. \A d \in Live : d = Top.dev => AddressedIs(d)'  BY <1>2, <1>3 DEF AddressedIs
<1>7. LeavesWell  BY <1>6 DEF LeavesWell
<1> QED  BY <1>1, <1>5, <1>7, ReturnQuiet

LEMMA DescribedAgainKeeps == ASSUME TreeInv, DescribedAgain, NEW n, n = Len(frames) PROVE TreeInv'
<1>1. frames # << >> /\ Top.proc = "Attach" /\ Top.at = "described2" /\ UNCHANGED <<dev, devices, status, hardware, counts>>
  BY DEF DescribedAgain, At
<1>2. /\ Types /\ TypeOK /\ Top = frames[n] /\ KnowsAttach(n) /\ NotCleared /\ IsTop(n)  BY <1>1, AttachIs
<1>3. Quiet /\ dev' = dev /\ UNCHANGED <<devices, status, plugged, enabled, connChange, enableChange, gaveUp>>
  BY <1>1 DEF Quiet, counts, hardware
<1>4. CASE result = "ok" /\ Goto("strings") /\ UNCHANGED result
  <2>1. "strings" \in Places[Top.proc]  BY <1>1 DEF Places, Late
  <2>2. /\ frames'[n].proc = "Attach" /\ frames'[n].at = "strings" /\ frames'[n].dev = Top.dev
        /\ PosOf(n)' = PosOf(n)
    BY <1>1, <1>2, <1>3, <1>4, <2>1, GotoTo
  <2>3. "described2" \in Late /\ "strings" \in Late /\ "strings" \notin Early /\ Top.at \notin Early  BY <1>1 DEF Late, Early
  <2>4. /\ PosOf(n) # <<>> => dev[Top.dev].parent # Null /\ PosOf(n) \in plugged /\ Up(PosOf(n))
        /\ Bare(Top.dev) /\ Reports(PosOf(n))
        /\ dev[Top.dev].number # 0 /\ dev[Top.dev].status \in Done
    BY <1>1, <1>2, <2>3 DEF KnowsAttach
  <2>5. KnowsAttach(n)'
    <3>1. \A q, d : Up(q)' = Up(q) /\ Bare(d)' = Bare(d) /\ Reports(q)' = Reports(q)
      BY <1>3 DEF Up, Reports, Bare
    <3> QED  BY <1>3, <2>2, <2>3, <2>4, <3>1 DEF KnowsAttach
  <2>6. Knows(n)'  BY <2>2, <2>5, KnowsIs
  <2>7. OffKept /\ result' \in {"ok", "error", "disconnected"}  BY <1>2, <1>3, <1>4 DEF OffKept, TypeOK
  <2> QED  BY <1>1, <1>3, <1>4, <2>1, <2>3, <2>6, <2>7, GotoKeeps
<1>5. CASE result # "ok" /\ Return("error")
  <2>1. gaveUp'  BY <1>1, <1>2, <1>3, <1>5 DEF KnowsAttach, GotError
  <2>2. Top.at \in Late  BY <1>1 DEF Late
  <2> QED  BY <1>1, <1>3, <1>5, <2>1, <2>2, AttachReturnsQuiet
<1> QED  BY <1>4, <1>5 DEF DescribedAgain

LEMMA EndAttachKeeps == ASSUME TreeInv, EndAttach, NEW n, n = Len(frames) PROVE TreeInv'
<1>1. frames # << >> /\ Top.proc = "Attach" /\ Top.at \in Late /\ UNCHANGED <<dev, devices, status, hardware, counts>>
  BY DEF EndAttach, At, Late
<1>2. Quiet  BY <1>1 DEF Quiet, counts
<1> QED  BY <1>1, <1>2, AttachReturnsQuiet DEF EndAttach

LEMMA StartDriverKeeps == ASSUME TreeInv, StartDriver, NEW n, n = Len(frames) PROVE TreeInv'
<1>1. frames # << >> /\ Top.proc = "Attach" /\ Top.at = "driver"
      /\ UNCHANGED <<dev, devices, status, hardware, counts>> /\ UNCHANGED result
  BY DEF StartDriver, At
<1>2. /\ Types /\ TypeOK /\ Tree /\ Top = frames[n] /\ KnowsAttach(n) /\ NotCleared /\ n \in Nat \ {0} /\ n \in 1 .. Len(frames)
      /\ Top.dev \in Live /\ Top.dev \in DevIds /\ Open(n) /\ Down(n) /\ Here.pos = PosOf(n)
  BY <1>1, AttachIs
<1>3. Quiet /\ dev' = dev /\ UNCHANGED <<devices, status, plugged, enabled, connChange, enableChange, gaveUp>>
  BY <1>1 DEF Quiet, counts, hardware
<1>4. /\ PosOf(n) # <<>> => dev[Top.dev].parent # Null /\ PosOf(n) \in plugged /\ Up(PosOf(n))
      /\ Bare(Top.dev) /\ Reports(PosOf(n))
      /\ dev[Top.dev].number # 0 /\ dev[Top.dev].status \in Done
  <2>1. "driver" \in Late  BY DEF Late
  <2> QED  BY <1>1, <1>2, <2>1 DEF KnowsAttach
<1>5. "end" \in Places[Top.proc] /\ "end" \in Late /\ "end" \notin Early /\ Top.at \notin Early  BY <1>1 DEF Places, Late, Early
<1>6. \A q, d : Up(q)' = Up(q) /\ Bare(d)' = Bare(d) /\ Reports(q)' = Reports(q)
  BY <1>3 DEF Up, Reports, Bare
<1>7. frames'[n].proc = "Attach" /\ frames'[n].at = "end" /\ frames'[n].dev = Top.dev /\ PosOf(n)' = PosOf(n) => Knows(n)'
  <2> SUFFICES ASSUME frames'[n].proc = "Attach", frames'[n].at = "end", frames'[n].dev = Top.dev, PosOf(n)' = PosOf(n)
               PROVE  KnowsAttach(n)'
    BY KnowsIs
  <2> QED  BY <1>3, <1>4, <1>5, <1>6 DEF KnowsAttach
<1>8. OffKept /\ result' \in {"ok", "error", "disconnected"}  BY <1>1, <1>2, <1>3 DEF OffKept, TypeOK
<1>9. CASE Call("end", Frame("HubAttach", "begin", Top.dev, 1))
  <2>1. "HubAttach" \in Procs /\ "begin" \in Places["HubAttach"] /\ "HubAttach" # "Verify" /\ 1 \in Nat
    BY DEF Places, Procs
  <2>2. /\ frames'[n].proc = "Attach" /\ frames'[n].at = "end" /\ frames'[n].dev = Top.dev
        /\ frames'[n + 1].proc = "HubAttach" /\ frames'[n + 1].at = "begin" /\ frames'[n + 1].dev = Top.dev
        /\ PosOf(n)' = PosOf(n) /\ PosOf(n + 1)' = dev[Top.dev].pos
    BY <1>1, <1>2, <1>3, <1>5, <1>9, <2>1, CallTo
  <2>3. PosOf(n + 1)' = PosOf(n) /\ PosOf(n) = dev[Top.dev].pos  BY <1>2, <2>2 DEF PosOf
  <2>4. Knows(n)'  BY <1>7, <2>2
  <2>5. Calls(n)'  BY <2>2 DEF Calls
  <2>6. Open(n + 1)'
    <3>1. ~Rereset(n) /\ ~Rereset(n + 1)'  BY <1>1, <1>2, <2>2 DEF Rereset
    <3> QED  BY <1>2, <1>3, <2>3, <3>1 DEF Open, Settled, Way
  <2>7. Knows(n + 1)'
    <3>1. \A i \in PortNums : dev[Top.dev].children[i] = Null
      <4> SUFFICES ASSUME NEW i \in PortNums, dev[Top.dev].children[i] # Null  PROVE FALSE
        OBVIOUS
      <4>1. i \in Nat \ {0} /\ i <= dev[Top.dev].maxChildren  BY <1>2, PortNumIs DEF Tree, Children
      <4> QED  BY <1>4, <4>1 DEF Bare
    <3>2. PosOf(n + 1)' = PosOf(n)  BY <2>3
    <3>3. KnowsHub(n + 1)'  BY <1>3, <1>4, <1>6, <2>2, <3>1, <3>2 DEF KnowsHub, Bare
    <3> QED  BY <2>2, <3>3, KnowsIs
  <2>8. /\ "HubAttach" \notin OnPort /\ 1 >= 1 /\ "begin" # "checked" /\ Top.proc # "CheckForChange"
        /\ "end" # "rereset" /\ Top.at # "rereset" /\ Way(PosOf(n)) \subseteq Way(dev[Top.dev].pos)
    BY <1>1, <2>3 DEF OnPort
  <2>9. Down(n) /\ Top.dev \in Live /\ Quiet /\ OffKept /\ UNCHANGED result  BY <1>1, <1>2, <1>3, <1>8
  <2> QED  BY <1>1, <1>5, <1>9, <2>1, <2>4, <2>5, <2>6, <2>7, <2>8, <2>9, CallNewKeeps
<1>10. CASE Goto("end")
  <2>1. /\ frames'[n].proc = "Attach" /\ frames'[n].at = "end" /\ frames'[n].dev = Top.dev /\ PosOf(n)' = PosOf(n)
    BY <1>1, <1>2, <1>3, <1>5, <1>10, GotoTo
  <2>2. Knows(n)'  BY <1>7, <2>1
  <2> QED  BY <1>1, <1>3, <1>5, <1>8, <1>10, <2>2, GotoKeeps
<1> QED  BY <1>9, <1>10 DEF StartDriver

(* HubAttach: who it returns to, with its device as it is then.            *)
LEMMA HubCaller ==
  ASSUME TreeInv, frames # << >>, NEW n, n = Len(frames), Top.proc = "HubAttach", Returns,
         UNCHANGED <<status, plugged, enabled, connChange>>,
         \A d \in DevIds : /\ dev'[d].pos = dev[d].pos /\ dev'[d].parent = dev[d].parent
                           /\ dev'[d].number = dev[d].number /\ dev'[d].status = dev[d].status
  PROVE  n # 1 => Knows(n - 1)'
<1>1. /\ n \in Nat \ {0} /\ n \in 1 .. Len(frames) /\ Top = frames[n] /\ Types  BY InvIs
<1> SUFFICES ASSUME n # 1, NEW k, k = n - 1  PROVE Knows(k)'
  OBVIOUS
<1>2. k \in 1 .. n - 1 /\ k + 1 = n /\ k \in 1 .. Len(frames)  BY <1>1
<1>3. Calls(k) /\ Knows(k)  BY <1>2, InvIs
<1>4. frames'[k] = frames[k]  BY <1>2 DEF Returns, Lower
<1>5. frames[k].proc = "Attach" /\ frames[k].at = "end"  BY <1>1, <1>2, <1>3 DEF Calls
<1>6. frames[k].dev \in DevIds  BY <1>1, <1>2, PlaceIs
<1>7. PosOf(k)' = PosOf(k)  BY <1>4, <1>6 DEF PosOf
<1>8. /\ PosOf(k) # <<>> => dev[frames[k].dev].parent # Null /\ PosOf(k) \in plugged /\ Up(PosOf(k))
      /\ dev[frames[k].dev].number # 0 /\ dev[frames[k].dev].status \in Done
  BY <1>3, <1>5 DEF Knows, KnowsAttach, Late
<1>9. \A q : Up(q)' = Up(q)  BY DEF Up
<1>10. KnowsAttach(k)'
  BY <1>4, <1>5, <1>6, <1>7, <1>8, <1>9 DEF KnowsAttach, Early, Late
<1> QED  BY <1>4, <1>5, <1>10, KnowsIs

(* The loops over the ports: the call of HubCheckConnection.               *)
LEMMA WalkCalls ==
  ASSUME TreeInv, frames # << >>, NEW n, n = Len(frames), Quiet, UNCHANGED result,
         Top.at = "port", NEW a, NEW m,
         \/ Top.proc = "HubAttach" /\ a = "port" /\ m = 1
         \/ Top.proc = "CheckForChange" /\ a = "checked" /\ m = 0,
         Top.port <= Here.maxChildren,
         frames' = Append(Append(Front(frames), [Top EXCEPT !.at = a, !.port = @ + m]),
                          Frame("CheckConnection", "status", Top.dev, Top.port))
  PROVE  TreeInv'
<1>1. /\ Types /\ TypeOK /\ n \in Nat \ {0} /\ n \in 1 .. Len(frames) /\ Top = frames[n]
      /\ Top.dev \in Live /\ Top.dev \in DevIds /\ Top.port \in Nat /\ Top.n \in Nat
      /\ Knows(n) /\ Open(n) /\ FrameOK(n) /\ Here = dev[Top.dev]
  BY InvIs
<1>2. Calm /\ enableChange' \subseteq enableChange /\ enableChange' = enableChange /\ dev' = dev /\ UNCHANGED <<enabled, connChange>>
  BY StillIsCalm DEF Quiet, hardware
<1>3. a \in Places[Top.proc] /\ "CheckConnection" \in Procs /\ "status" \in Places["CheckConnection"] /\ m \in {0, 1}
  BY DEF Places, Procs, OnPort
<1>4. PICK i \in Nat : i = Top.port + m  BY <1>1, <1>3
<1>5. Top.port >= 1 /\ i >= 1 /\ Top.port \in 1 .. dev[Top.dev].maxChildren /\ (m = 0 => i = Top.port)
  <2>1. Top.port >= 1  BY <1>1 DEF FrameOK
  <2>2. dev[Top.dev].maxChildren \in Nat  BY <1>1, DeviceIs
  <2> QED  BY <1>1, <1>3, <1>4, <2>1, <2>2
<1>6. PICK g \in FrameType : /\ g = Frame("CheckConnection", "status", Top.dev, Top.port)
                             /\ g.proc = "CheckConnection" /\ g.at = "status" /\ g.dev = Top.dev /\ g.port = Top.port
  BY <1>1, <1>3, NewFrameIs
<1>7. [Top EXCEPT !.at = a, !.port = @ + m] = On1(a, i, Top.n)
  <2>1. Types /\ frames # << >> /\ a \in Places[Top.proc] /\ Top.n \in Nat /\ i \in Nat  BY <1>1, <1>3, <1>4
  <2>2. [Top EXCEPT !.at = a, !.port = i] = On1(a, i, Top.n)  BY ONLY <2>1, OnIs
  <2> QED  BY <1>4, <2>2
<1>8. PICK f \in FrameType : Makes(f, g) /\ f.proc = Top.proc /\ f.at = a /\ f.dev = Top.dev /\ f.port = i
  <2>1. frames' = Append(Append(Front(frames), On1(a, i, Top.n)), g)  BY <1>6, <1>7
  <2>2. Top.proc \in {"HubAttach", "CheckForChange"}  OBVIOUS
  <2>3. /\ On1(a, i, Top.n) \in FrameType /\ Makes(On1(a, i, Top.n), g) /\ On1(a, i, Top.n).proc = Top.proc
        /\ On1(a, i, Top.n).at = a /\ On1(a, i, Top.n).dev = Top.dev /\ On1(a, i, Top.n).port = i
    BY <1>1, <1>3, <2>1, <2>2, OnMoves
  <2> QED  BY <2>3
<1>9. frames'[n] = f /\ frames'[n + 1] = g /\ Len(frames') = n + 1  BY <1>8 DEF Makes
<1>10. ~IsTop(n)'  BY <1>1, <1>9 DEF IsTop
<1>11. Calls(n)'
  <2>1. m = 0 => f.port = g.port  BY <1>5, <1>6, <1>8
  <2> QED  BY <1>6, <1>8, <1>9, <2>1 DEF Calls
<1>12. Open(n + 1)'
  <2>1. PosOf(n + 1)' = PosOf(n)  BY <1>1, <1>2, <1>6, <1>9 DEF PosOf
  <2>2. ~Rereset(n) /\ ~Rereset(n + 1)'  BY <1>1, <1>6, <1>9 DEF Rereset
  <2> QED  BY <1>1, <1>2, <2>1, <2>2 DEF Open, Settled, Way
<1>13. Knows(n)'
  <2>1. CASE Top.proc = "HubAttach"
    <3>1. KnowsHub(n)'  BY <1>1, <1>2, <1>8, <1>9, <2>1 DEF Knows, KnowsHub
    <3> QED  BY <1>8, <1>9, <2>1, <3>1, KnowsIs
  <2>2. CASE Top.proc = "CheckForChange"
    <3>1. KnowsWalk(n)'  BY <1>10 DEF KnowsWalk, GotOK
    <3> QED  BY <1>8, <1>9, <2>2, <3>1, KnowsIs
  <2> QED  BY <2>1, <2>2
<1>14. Knows(n + 1)'
  <2>1. KnowsCheck(n + 1)'  BY <1>6, <1>9 DEF KnowsCheck
  <2> QED  BY <1>6, <1>9, <2>1, KnowsIs
<1>15. OffKept /\ result' \in {"ok", "error", "disconnected"}  BY <1>1, <1>2 DEF OffKept, NotCleared, TypeOK
<1>16. /\ f.at \in Places[f.proc] /\ f.proc # "Attach"
       /\ (f.proc = "CheckForChange" /\ f.at = "checked" => f.port \in 1 .. dev[f.dev].maxChildren)
       /\ (f.proc \in {"HubAttach", "CheckForChange"} => f.port >= 1)
  BY <1>3, <1>5, <1>8
<1>17. /\ g.at \in Places[g.proc] /\ g.dev \in Live
       /\ (g.proc \in OnPort => g.port \in 1 .. dev[g.dev].maxChildren)
       /\ g.proc \notin {"HubAttach", "CheckForChange"} /\ g.proc \in {"Verify", "CheckConnection"}
       /\ (g.proc \in {"Verify", "PortReset"} \/ ~Down(n) \/ Way(PosOf(n)) \subseteq Way(dev[g.dev].pos))
  BY <1>1, <1>3, <1>5, <1>6 DEF PosOf
<1>18. Makes(f, g)  BY <1>8
<1> QED  BY <1>2, <1>11, <1>12, <1>13, <1>14, <1>15, <1>16, <1>17, <1>18, CallKeeps

LEMMA HubAttachPortKeeps == ASSUME TreeInv, HubAttachPort, NEW n, n = Len(frames) PROVE TreeInv'
<1>1. frames # << >> /\ Top.proc = "HubAttach" /\ Top.at = "port" /\ UNCHANGED <<dev, devices, status, hardware, counts>>
  BY DEF HubAttachPort, NextPort, At
<1>2. Quiet /\ UNCHANGED <<dev, status, plugged, enabled, connChange>>  BY <1>1 DEF Quiet, counts, hardware
<1>3. CASE Top.port <= Here.maxChildren
  <2>1. /\ frames' = Append(Append(Front(frames), [Top EXCEPT !.at = "port", !.port = @ + 1]),
                            Frame("CheckConnection", "status", Top.dev, Top.port))
        /\ UNCHANGED result
    BY <1>3 DEF HubAttachPort, NextPort
  <2> QED  BY <1>1, <1>2, <1>3, <2>1, WalkCalls
<1>4. CASE ~(Top.port <= Here.maxChildren)
  <2>1. Return("ok")  BY <1>4 DEF HubAttachPort, NextPort
  <2>2. Types  BY <1>1, InvIs
  <2>3. Returns  BY <1>1, <2>1, <2>2, ReturnIs DEF Return
  <2>4. n # 1 => Knows(n - 1)'  BY <1>1, <1>2, <2>3, HubCaller
  <2>5. NotCleared /\ LeavesWell  BY <1>1 DEF NotCleared, LeavesWell
  <2> QED  BY <1>1, <1>2, <2>1, <2>4, <2>5, ReturnQuiet
<1> QED  BY <1>3, <1>4

LEMMA CheckForChangePortKeeps == ASSUME TreeInv, CheckForChangePort, NEW n, n = Len(frames) PROVE TreeInv'
<1>1. frames # << >> /\ Top.proc = "CheckForChange" /\ Top.at = "port" /\ UNCHANGED <<dev, devices, status, hardware, counts>>
  BY DEF CheckForChangePort, NextPort, At
<1>2. Quiet  BY <1>1 DEF Quiet, counts
<1>3. CASE Top.port <= Here.maxChildren
  <2>1. /\ frames' = Append(Append(Front(frames), [Top EXCEPT !.at = "checked", !.port = @ + 0]),
                            Frame("CheckConnection", "status", Top.dev, Top.port))
        /\ UNCHANGED result
    BY <1>3 DEF CheckForChangePort, NextPort
  <2> QED  BY <1>1, <1>2, <1>3, <2>1, WalkCalls
<1>4. CASE ~(Top.port <= Here.maxChildren)
  <2>1. Return("ok")  BY <1>4 DEF CheckForChangePort, NextPort
  <2>2. Types /\ n \in Nat \ {0} /\ Top = frames[n]  BY <1>1, InvIs
  <2>3. Returns  BY <1>1, <2>1, <2>2, ReturnIs DEF Return
  <2>4. n # 1 => Knows(n - 1)'
    <3> SUFFICES ASSUME n # 1, NEW k, k = n - 1  PROVE Knows(k)'
      OBVIOUS
    <3>1. k \in 1 .. n - 1 /\ k + 1 = n  BY <2>2
    <3>2. Calls(k)  BY <1>1, <3>1, InvIs
    <3>3. frames'[k] = frames[k]  BY <2>3, <3>1 DEF Returns, Lower
    <3>4. frames[k].proc = "CheckForChange" /\ frames[k].at = "port"  BY <1>1, <2>2, <3>1, <3>2 DEF Calls
    <3>5. KnowsWalk(k)'  BY <3>3, <3>4 DEF KnowsWalk
    <3> QED  BY <3>3, <3>4, <3>5, KnowsIs
  <2>5. NotCleared /\ LeavesWell  BY <1>1 DEF NotCleared, LeavesWell
  <2> QED  BY <1>1, <1>2, <2>1, <2>4, <2>5, ReturnQuiet
<1> QED  BY <1>3, <1>4

LEMMA CheckForChangeBelowKeeps == ASSUME TreeInv, CheckForChangeBelow, NEW n, n = Len(frames) PROVE TreeInv'
<1>1. frames # << >> /\ Top.proc = "CheckForChange" /\ Top.at = "checked"
      /\ UNCHANGED <<dev, devices, status, hardware, counts>> /\ UNCHANGED result
  BY DEF CheckForChangeBelow, At
<1>2. /\ Types /\ TypeOK /\ Tree /\ Stack /\ n \in Nat \ {0} /\ n \in 1 .. Len(frames) /\ Top = frames[n]
      /\ Top.dev \in Live /\ Top.dev \in DevIds /\ Top.port \in Nat /\ Top.n \in Nat
      /\ Knows(n) /\ Open(n) /\ IsTop(n) /\ Child = On(n) /\ frames \in Seq(FrameType)
  BY <1>1, InvIs
<1>3. Calm /\ enableChange' \subseteq enableChange /\ enableChange' = enableChange /\ dev' = dev /\ UNCHANGED <<enabled, connChange>>
  BY <1>1, StillIsCalm DEF counts, hardware
<1>4. "port" \in Places[Top.proc] /\ "CheckForChange" \in Procs  BY <1>1 DEF Places, Procs
<1>5. PICK i \in Nat : i = Top.port + 1 /\ i >= 1  BY <1>2
<1>6. [Top EXCEPT !.at = "port", !.port = @ + 1] = On1("port", i, Top.n)
  <2>1. Types /\ frames # << >> /\ "port" \in Places[Top.proc] /\ Top.n \in Nat /\ i \in Nat  BY <1>1, <1>2, <1>4, <1>5
  <2>2. [Top EXCEPT !.at = "port", !.port = i] = On1("port", i, Top.n)  BY ONLY <2>1, OnIs
  <2> QED  BY <1>5, <2>2
<1>7. OffKept /\ result' \in {"ok", "error", "disconnected"}  BY <1>1, <1>2, <1>3 DEF OffKept, NotCleared, TypeOK
<1>8. CASE frames' = Append(Front(frames), On1("port", i, Top.n))
  <2>1. PICK f \in FrameType : Goes(f) /\ f.proc = "CheckForChange" /\ f.at = "port" /\ f.port = i
    <3>1. /\ On1("port", i, Top.n) \in FrameType /\ Goes(On1("port", i, Top.n)) /\ On1("port", i, Top.n).proc = Top.proc
          /\ On1("port", i, Top.n).at = "port" /\ On1("port", i, Top.n).port = i
      BY <1>1, <1>2, <1>4, <1>8, OnMoves
    <3> QED  BY <1>1, <3>1
  <2>2. frames'[n] = f  BY <2>1 DEF Goes
  <2>3. KnowsWalk(n)'  BY <2>1, <2>2 DEF KnowsWalk
  <2>4. Knows(n)'  BY <2>1, <2>2, <2>3, KnowsIs
  <2>5. f.at \in Places[f.proc] /\ f.port >= 1 /\ f.at # "checked" /\ f.proc # "Attach" /\ Goes(f)  BY <1>1, <1>4, <1>5, <2>1
  <2> QED  BY <1>3, <1>7, <2>4, <2>5, GoesKeeps
<1>9. CASE /\ result = "ok" /\ Child # Null
           /\ frames' = Append(Append(Front(frames), On1("port", i, Top.n)), Frame("CheckForChange", "port", Child, 1))
  <2>1. KnowsWalk(n)  BY <1>2 DEF Knows
  <2>2. PortOf(n) \in enabled \ connChange  BY <1>1, <1>2, <1>9, <2>1 DEF KnowsWalk, GotOK
  <2>3. /\ PortOf(n) \in Ports /\ Top.port \in PortNums /\ Way(PortOf(n)) = Way(PosOf(n)) \cup {PortOf(n)}
    BY <1>1, <1>2, PortOfIs
  <2>4. Child \in Live /\ Child \in DevIds /\ dev[Child].pos = PortOf(n) /\ dev[Child].pos = Append(dev[Top.dev].pos, Top.port)
    <3>1. Child = dev[Top.dev].children[Top.port]  BY <1>2 DEF On
    <3>2. Child \in Live /\ dev[Child].pos = Append(dev[Top.dev].pos, Top.port)
      BY <1>2, <1>9, <2>3, <3>1, Zenon DEF Tree, Children
    <3> QED  BY <1>2, <3>2, LiveIs DEF PortOf, PosOf
  <2>5. PICK g \in FrameType : /\ g = Frame("CheckForChange", "port", Child, 1)
                               /\ g.proc = "CheckForChange" /\ g.at = "port" /\ g.dev = Child /\ g.port = 1
    BY <1>1, <1>4, <2>4, NewFrameIs
  <2>6. PICK f \in FrameType : Makes(f, g) /\ f.proc = "CheckForChange" /\ f.at = "port" /\ f.dev = Top.dev /\ f.port = i
    <3>1. frames' = Append(Append(Front(frames), On1("port", i, Top.n)), g)  BY <1>9, <2>5
    <3>2. /\ On1("port", i, Top.n) \in FrameType /\ Makes(On1("port", i, Top.n), g) /\ On1("port", i, Top.n).proc = Top.proc
          /\ On1("port", i, Top.n).at = "port" /\ On1("port", i, Top.n).dev = Top.dev /\ On1("port", i, Top.n).port = i
      BY <1>1, <1>2, <1>4, <3>1, OnMoves
    <3> QED  BY <1>1, <3>2
  <2>7. frames'[n] = f /\ frames'[n + 1] = g  BY <2>6 DEF Makes
  <2>8. PosOf(n)' = dev[Top.dev].pos /\ PosOf(n + 1)' = dev[Child].pos  BY <1>3, <2>5, <2>6, <2>7 DEF PosOf
  <2>9. Calls(n)'  BY <2>3, <2>4, <2>5, <2>6, <2>7, <2>8 DEF Calls
  <2>10. Open(n + 1)'
    <3>1. ~Rereset(n) /\ ~Rereset(n + 1)'  BY <1>1, <1>2, <2>5, <2>7 DEF Rereset
    <3>2. Way(PosOf(n)) \subseteq enabled \ connChange  BY <1>2, <3>1 DEF Open, Settled
    <3>3. Way(PortOf(n)) \subseteq enabled \ connChange  BY <2>2, <2>3, <3>2
    <3>4. PosOf(n + 1)' = PortOf(n)  BY <2>4, <2>8
    <3> QED  BY <1>3, <3>1, <3>3, <3>4 DEF Open, Settled
  <2>11. Knows(n)'
    <3>1. KnowsWalk(n)'  BY <2>6, <2>7 DEF KnowsWalk
    <3> QED  BY <2>6, <2>7, <3>1, KnowsIs
  <2>12. Knows(n + 1)'
    <3>1. KnowsWalk(n + 1)'  BY <2>5, <2>7 DEF KnowsWalk
    <3> QED  BY <2>5, <2>7, <3>1, KnowsIs
  <2>13. Down(n)
    <3>1. Climbs  BY <1>2 DEF Stack
    <3> QED  BY <1>1, <1>2, <3>1, IsDown
  <2>14. f.at \in Places[f.proc] /\ f.port >= 1 /\ f.at # "checked" /\ f.proc # "Attach" /\ Makes(f, g)
    BY <1>1, <1>4, <1>5, <2>6
  <2>15. /\ g.at \in Places[g.proc] /\ g.dev \in Live /\ g.proc \notin OnPort /\ g.port >= 1 /\ g.at # "checked"
         /\ Way(PosOf(n)) \subseteq Way(dev[g.dev].pos)
    <3>1. g.dev \in Live /\ g.port >= 1 /\ g.at # "checked" /\ g.proc = "CheckForChange"  BY <2>4, <2>5
    <3>2. g.at \in Places[g.proc] /\ g.proc \notin OnPort  BY <2>5 DEF Places, OnPort
    <3>3. Way(PosOf(n)) \subseteq Way(PortOf(n)) /\ dev[g.dev].pos = PortOf(n)  BY <2>3, <2>4, <2>5
    <3> QED  BY <3>1, <3>2, <3>3
  <2> QED  BY <1>3, <1>7, <2>9, <2>10, <2>11, <2>12, <2>13, <2>14, <2>15, CallKeeps
<1> QED  BY <1>6, <1>8, <1>9 DEF CheckForChangeBelow

LEMMA StartPassKeeps == ASSUME TreeInv, StartPass PROVE TreeInv'
<1>1. /\ frames = << >> /\ frames' = <<Frame("CheckForChange", "port", devices[1], 1)>>
      /\ UNCHANGED <<dev, devices, status, hardware, result, counts>>
  BY DEF StartPass
<1>2. Types /\ TypeOK /\ Tree /\ Table /\ Elsewhere  BY DEF TreeInv, Types
<1>3. devices[1] = 1 /\ 1 \in Live /\ 1 \in DevIds /\ dev[1].pos = << >>  BY <1>2, LiveIs DEF Tree, Rooted
<1>4. "CheckForChange" \in Procs /\ "port" \in Places["CheckForChange"]  BY DEF Places, Procs
<1>5. PICK g \in FrameType : /\ g = Frame("CheckForChange", "port", 1, 1)
                             /\ g.proc = "CheckForChange" /\ g.at = "port" /\ g.dev = 1 /\ g.port = 1
  BY <1>3, <1>4, NewFrameIs
<1>6. frames' = <<g>> /\ frames' \in Seq(FrameType) /\ Len(frames') = 1 /\ frames'[1] = g /\ Len(frames) = 0
  BY <1>1, <1>3, <1>5
<1>7. Calm /\ result' \in {"ok", "error", "disconnected"} /\ enableChange' \subseteq enableChange
      /\ UNCHANGED <<dev, plugged, enabled, connChange, enableChange, gaveUp>>
  BY <1>1, <1>2, StillIsCalm DEF counts, TypeOK, hardware
<1>8. Tree' /\ Table' /\ Live' = Live  BY <1>2, <1>7, CalmTree
<1>9. Types'
  <2>1. TypeOK'  BY <1>2, <1>7, CalmTypes
  <2>2. FrameOK(1)'  BY <1>3, <1>4, <1>5, <1>6, <1>8 DEF FrameOK, OnPort
  <2> QED  BY <1>6, <2>1, <2>2 DEF Types
<1>10. \A k \in 1 .. Len(frames') : k = 1  BY <1>6
<1>11. Stack'
  <2>1. First'  BY <1>5, <1>6 DEF First
  <2>2. \A j, k \in 1 .. Len(frames') : j = k /\ ~(j < k)  BY <1>10
  <2>3. 1 .. Len(frames') - 1 = {}  BY <1>6
  <2>4. Links'  BY <2>3 DEF Links
  <2>5. Climbs'  BY <2>2 DEF Climbs
  <2>6. Chain'  BY <2>2 DEF Chain
  <2> QED  BY <2>1, <2>4, <2>5, <2>6 DEF Stack
<1>12. Paths'
  <2>1. PosOf(1)' = << >>  BY <1>3, <1>5, <1>6, <1>7 DEF PosOf
  <2>2. Open(1)'  BY <1>5, <1>6, <2>1, WayOfNothing DEF Open, Rereset, Settled
  <2> QED  BY <1>10, <2>2 DEF Paths
<1>13. Knowledge'
  <2>1. KnowsWalk(1)'  BY <1>5, <1>6 DEF KnowsWalk
  <2>2. Knows(1)'  BY <1>5, <1>6, <2>1, KnowsIs
  <2> QED  BY <1>10, <2>2 DEF Knowledge
<1>14. Elsewhere'
  <2>1. \A p : ~InHand(p) /\ ~Cleared(p) /\ ~EarlyNow(p)  BY <1>6 DEF InHand, Cleared, EarlyNow
  <2>2. \A p : ~InHand(p)' /\ ~Cleared(p)' /\ ~EarlyNow(p)'  BY <1>5, <1>6, <1>10 DEF InHand, Cleared, EarlyNow
  <2>3. Off'  BY <1>2, <1>7, <1>8, <2>1, <2>2 DEF Elsewhere, Off, Way
  <2>4. Seen'
    <3> SUFFICES ASSUME NEW d \in Live  PROVE SeenOf(d)'
      BY <1>8 DEF Seen
    <3>1. SeenOf(d)  BY <1>2 DEF Elsewhere, Seen
    <3> QED  BY <1>7, <2>1, <2>2, <3>1 DEF SeenOf, Way
  <2>5. Addressed'
    <3> SUFFICES ASSUME NEW d \in Live  PROVE AddressedIs(d)'
      BY <1>8 DEF Addressed
    <3>1. AddressedIs(d)  BY <1>2 DEF Elsewhere, Addressed
    <3> QED  BY <1>1, <1>7, <2>1, <3>1 DEF AddressedIs
  <2> QED  BY <2>3, <2>4, <2>5 DEF Elsewhere
<1> QED  BY <1>8, <1>9, <1>11, <1>12, <1>13, <1>14 DEF TreeInv

-----------------------------------------------------------------------------
(* The requests.                                                           *)
LEMMA RequestIs ==
  ASSUME Sending
  PROVE  /\ frames # << >> /\ Request \in Requests /\ Request[1] = Top.proc /\ Request[2] = Top.at
         /\ \A q \in Requests : q[1] = Top.proc /\ q[2] = Top.at => q = Request
<1>1. frames # << >> /\ \E q \in Requests : q[1] = Top.proc /\ q[2] = Top.at  BY DEF Sending
<1>2. Request \in Requests /\ Request[1] = Top.proc /\ Request[2] = Top.at
  <2> HIDE DEF Requests
  <2> QED  BY <1>1 DEF Request
<1>3. \A q, r \in Requests : q[1] = r[1] /\ q[2] = r[2] => q = r  BY DEF Requests
<1> HIDE DEF Requests
<1> QED  BY <1>1, <1>2, <1>3

LEMMA RequestOf ==
  ASSUME Sending, NEW proc, NEW at, NEW kind, NEW next, <<proc, at, kind, next>> \in Requests, Top.proc = proc, Top.at = at
  PROVE  Request[3] = kind /\ Request[4] = next
<1> DEFINE q == <<proc, at, kind, next>>
<1>1. q[1] = proc /\ q[2] = at /\ q[3] = kind /\ q[4] = next /\ q \in Requests  OBVIOUS
<1> HIDE DEF q
<1>2. q = Request  BY <1>1, RequestIs
<1> QED  BY <1>1, <1>2

(* Where the requests are sent from, and which ones change the ports.      *)
LEMMA SendersAre ==
  ASSUME Sending
  PROVE  \/ Top.proc = "CheckConnection" /\ Top.at = "status" /\ Request[3] = "port_status" /\ Request[4] = "got"
         \/ Top.proc = "CheckConnection" /\ Top.at = "clear_enable" /\ Request[3] = "clear_enable" /\ Request[4] = "interference"
         \/ Top.proc = "CheckConnection" /\ Top.at = "clear" /\ Request[3] = "clear_change" /\ Request[4] = "done"
         \/ Top.proc = "ConnectionChanged" /\ Top.at = "status" /\ Request[3] = "port_status_changed" /\ Request[4] = "got"
         \/ Top.proc = "ConnectionChanged" /\ Top.at = "clear" /\ Request[3] = "clear_connection" /\ Request[4] = "decide"
         \/ Top.proc = "ConnectionChanged" /\ Top.at = "status_new" /\ Request[3] = "port_status_new" /\ Request[4] = "got_new"
         \/ Top.proc = "ConnectionChanged" /\ Top.at = "disable" /\ Request[3] = "port_disable" /\ Request[4] = "failed"
         \/ Top.proc = "PortReset" /\ Top.at = "set" /\ Request[3] = "port_reset" /\ Request[4] = "was_set"
         \/ Top.proc = "PortReset" /\ Top.at = "wait" /\ Request[3] = "port_status_reset" /\ Request[4] = "look"
         \/ Top.proc = "PortReset" /\ Top.at = "clear" /\ Request[3] = "clear_change" /\ Request[4] = "done"
         \/ Top.proc = "Attach" /\ Top.at = "describe" /\ Request[3] = "device_descriptor" /\ Request[4] = "described"
         \/ Top.proc = "Attach" /\ Top.at = "address" /\ Request[3] = "set_address" /\ Request[4] = "addressed"
         \/ Top.proc = "Attach" /\ Top.at = "describe2" /\ Request[3] = "device_descriptor2" /\ Request[4] = "described2"
         \/ /\ Top.proc = "Attach" /\ <<Top.at, Request[4]>> \in {<<"strings", "configure">>, <<"configure", "configured">>, <<"strings2", "driver">>}
            /\ Request[3] \in {"string", "configuration"}
         \/ /\ Top.proc = "HubAttach" /\ <<Top.at, Request[4]>> \in {<<"describe", "described">>, <<"status", "got">>,
                                                                    <<"power", "status_again">>, <<"status_again", "got_again">>}
            /\ Request[3] \in {"hub_descriptor", "hub_status", "port_power"}
<1> DEFINE r == Request
<1>1. r \in Requests /\ r[1] = Top.proc /\ r[2] = Top.at  BY RequestIs
<1> HIDE DEF r
<1> QED
  <2>1. \/ r = <<"CheckConnection",   "status",       "port_status",       "got">>
        \/ r = <<"CheckConnection",   "clear_enable", "clear_enable",      "interference">>
        \/ r = <<"CheckConnection",   "clear",        "clear_change",      "done">>
        \/ r = <<"ConnectionChanged", "status",       "port_status_changed", "got">>
        \/ r = <<"ConnectionChanged", "clear",        "clear_connection",  "decide">>
        \/ r = <<"ConnectionChanged", "status_new",   "port_status_new",   "got_new">>
        \/ r = <<"ConnectionChanged", "disable",      "port_disable",      "failed">>
        \/ r = <<"PortReset",         "set",          "port_reset",        "was_set">>
        \/ r = <<"PortReset",         "wait",         "port_status_reset", "look">>
        \/ r = <<"PortReset",         "clear",        "clear_change",      "done">>
        \/ r = <<"Attach",            "describe",     "device_descriptor", "described">>
        \/ r = <<"Attach",            "address",      "set_address",       "addressed">>
        \/ r = <<"Attach",            "describe2",    "device_descriptor2", "described2">>
        \/ r = <<"Attach",            "strings",      "string",            "configure">>
        \/ r = <<"Attach",            "configure",    "configuration",     "configured">>
        \/ r = <<"Attach",            "strings2",     "string",            "driver">>
        \/ r = <<"HubAttach",         "describe",     "hub_descriptor",    "described">>
        \/ r = <<"HubAttach",         "status",       "hub_status",        "got">>
        \/ r = <<"HubAttach",         "power",        "port_power",        "status_again">>
        \/ r = <<"HubAttach",         "status_again", "hub_status",        "got_again">>
    BY <1>1 DEF Requests
  <2> QED  BY <1>1, <2>1 DEF r

(* The answer to a request that changes no more than what is read.         *)
LEMMA AnswerGoes ==
  ASSUME TreeInv, frames # << >>, NEW n, n = Len(frames), Calm, enableChange' \subseteq enableChange, OffKept, result' = "ok",
         NEW a \in Places[Top.proc], Goto(a),
         Top.proc # "CheckForChange",
         Top.proc = "Attach" => a # "rereset" /\ Top.at # "rereset" /\ (Top.at \in Early => a \in Early),
         Knows(n)'
  PROVE  TreeInv'
<1>1. Types /\ Top = frames[n] /\ FrameOK(n)  BY InvIs
<1>2. PICK f \in FrameType : Goes(f) /\ f.proc = Top.proc /\ f.at = a /\ f.dev = Top.dev /\ f.port = Top.port /\ f.n = Top.n
  BY <1>1, GotoPick
<1>3. f.proc \in {"HubAttach", "CheckForChange"} => f.port >= 1  BY <1>1, <1>2 DEF FrameOK
<1>4. /\ f.at \in Places[f.proc] /\ f.proc # "CheckForChange" /\ Goes(f)
      /\ (f.proc = "Attach" => f.at # "rereset" /\ Top.at # "rereset")
      /\ (f.proc = "Attach" /\ Top.at \in Early => f.at \in Early)
  BY <1>2
<1>5. result' \in {"ok", "error", "disconnected"}  OBVIOUS
<1> QED  BY <1>3, <1>4, <1>5, GoesKeeps

LEMMA AnswerIs ==
  ASSUME TreeInv, Answer, NEW n, n = Len(frames)
  PROVE  /\ Sending /\ frames # << >> /\ Types /\ TypeOK /\ n \in Nat \ {0} /\ n \in 1 .. Len(frames) /\ Top = frames[n]
         /\ Top.dev \in Live /\ Knows(n) /\ IsTop(n) /\ PortPos = PortOf(n) /\ Here.pos = PosOf(n) /\ Reachable(PosOf(n))
         /\ Goto(Request[4]) /\ result' = "ok" /\ UNCHANGED <<dev, devices, plugged, gaveUp>>
         /\ Top.proc \in OnPort => PortOf(n) \in Ports
<1>1. /\ Sending /\ Reachable(Here.pos) /\ Goto(Request[4]) /\ result' = "ok" /\ UNCHANGED <<dev, devices, plugged, gaveUp>>
  BY DEF Answer
<1>2. frames # << >>  BY <1>1, RequestIs
<1>3. /\ Types /\ TypeOK /\ n \in Nat \ {0} /\ n \in 1 .. Len(frames) /\ Top = frames[n]
      /\ Top.dev \in Live /\ Knows(n) /\ IsTop(n) /\ PortPos = PortOf(n) /\ Here.pos = PosOf(n)
  BY <1>2, InvIs
<1>4. Top.proc \in OnPort => PortOf(n) \in Ports  BY <1>3, PortOfIs
<1> QED  BY <1>1, <1>2, <1>3, <1>4

LEMMA AnswerIsCalm ==
  ASSUME TreeInv, Answer, NEW n, n = Len(frames), Request[3] \notin {"port_reset", "clear_connection", "port_disable"}
  PROVE  /\ Calm /\ enableChange' \subseteq enableChange /\ UNCHANGED <<enabled, connChange>>
         /\ enableChange' = IF Request[3] = "clear_enable" THEN enableChange \ {PortOf(n)} ELSE enableChange
         /\ Request[3] \in {"port_status", "port_status_changed", "port_status_reset", "port_status_new"} => Fresh(PortOf(n))'
         /\ Request[3] \notin {"port_status", "port_status_changed", "port_status_reset", "port_status_new"} => status' = status
         /\ PosOf(n)' = PosOf(n) /\ PortOf(n)' = PortOf(n) /\ On(n)' = On(n)
         /\ \A q, d : (q \in Ports /\ Up(q) => Up(q)') /\ Bare(d)' = Bare(d) /\ Reports(q)' = Reports(q)
         /\ frames'[n].proc = Top.proc /\ frames'[n].at = Request[4] /\ frames'[n].dev = Top.dev /\ frames'[n].n = Top.n
         /\ IsTop(n)' /\ ~Asking(n)' /\ GotOK(n)' /\ ~GotError(n)' /\ Request[4] \in Places[Top.proc]
<1>1. /\ Sending /\ frames # << >> /\ Types /\ TypeOK /\ Top = frames[n] /\ PortPos = PortOf(n)
      /\ Goto(Request[4]) /\ result' = "ok" /\ UNCHANGED <<dev, devices, plugged, gaveUp>>
      /\ Top.proc \in OnPort => PortOf(n) \in Ports
  BY AnswerIs
<1> DEFINE kind == Request[3]
           reads == {"port_status", "port_status_changed", "port_status_reset", "port_status_new"}
<1>2. /\ status' = IF kind \in reads THEN [status EXCEPT ![PortPos] = PortStatus(PortPos)] ELSE status
      /\ connChange' = connChange \ (IF kind = "clear_connection" THEN {PortPos} ELSE {})
      /\ enableChange' = enableChange \ (IF kind = "clear_enable" THEN {PortPos} ELSE {})
      /\ enabled' = enabled \ (IF kind = "port_disable" THEN {PortPos} ELSE {})
  BY DEF Answer
<1>3. /\ UNCHANGED <<enabled, connChange>> /\ enableChange' \subseteq enableChange
      /\ enableChange' = IF kind = "clear_enable" THEN enableChange \ {PortOf(n)} ELSE enableChange
  BY <1>1, <1>2
<1>4. Request[4] \in Places[Top.proc] /\ (kind \in reads => Top.proc \in OnPort)
  BY <1>1, SendersAre DEF Places, OnPort, Early, Late
<1>5. Calm
  <2>1. CASE kind \in reads
    <3>1. PortOf(n) \in Ports  BY <1>1, <1>4, <2>1
    <3> QED  BY <1>1, <1>2, <1>3, <2>1, <3>1 DEF Calm
  <2>2. CASE kind \notin reads  BY <1>1, <1>2, <1>3, <2>2 DEF Calm
  <2> QED  BY <2>1, <2>2
<1>6. /\ frames'[n].proc = Top.proc /\ frames'[n].at = Request[4] /\ frames'[n].dev = Top.dev /\ frames'[n].n = Top.n
      /\ IsTop(n)' /\ ~Asking(n)'
      /\ PosOf(n)' = PosOf(n) /\ PortOf(n)' = PortOf(n) /\ On(n)' = On(n)
  BY <1>1, <1>4, GotoTo
<1>7. GotOK(n)' /\ ~GotError(n)'  BY <1>1, <1>6 DEF GotOK, GotError
<1>8. \A q, d : (q \in Ports /\ Up(q) => Up(q)') /\ Bare(d)' = Bare(d) /\ Reports(q)' = Reports(q)
  BY <1>1, <1>5, CalmIs DEF Bare
<1>9. kind \in reads => Fresh(PortOf(n))'
  <2> SUFFICES ASSUME kind \in reads, NEW p \in Ports, p = PortOf(n)  PROVE Fresh(PortOf(n))'
    BY <1>1, <1>4
  <2>1. status'[p] = PortStatus(p) /\ kind # "clear_enable"  BY <1>1, <1>2 DEF TypeOK
  <2>2. PortStatus(p)' = PortStatus(p)  BY <1>1, <1>3, <2>1 DEF PortStatus
  <2> QED  BY <1>6, <2>1, <2>2 DEF Fresh
<1>10. kind \notin reads => status' = status  BY <1>2
<1> QED  BY <1>3, <1>4, <1>5, <1>6, <1>7, <1>8, <1>9, <1>10

LEMMA AnswerCheck ==
  ASSUME TreeInv, Answer, NEW n, n = Len(frames), Top.proc = "CheckConnection"
  PROVE  TreeInv'
<1>1. /\ Sending /\ frames # << >> /\ Types /\ n \in Nat \ {0} /\ n \in 1 .. Len(frames) /\ Top = frames[n] /\ Knows(n) /\ IsTop(n)
      /\ Goto(Request[4]) /\ result' = "ok" /\ UNCHANGED <<dev, devices, plugged, gaveUp>>
  BY AnswerIs
<1>2. \/ Top.at = "status" /\ Request[3] = "port_status" /\ Request[4] = "got"
      \/ Top.at = "clear_enable" /\ Request[3] = "clear_enable" /\ Request[4] = "interference"
      \/ Top.at = "clear" /\ Request[3] = "clear_change" /\ Request[4] = "done"
  BY <1>1, SendersAre
<1>3. Request[3] \notin {"port_reset", "clear_connection", "port_disable"}  BY <1>2
<1>4. /\ Calm /\ enableChange' \subseteq enableChange /\ UNCHANGED <<enabled, connChange>>
      /\ enableChange' = IF Request[3] = "clear_enable" THEN enableChange \ {PortOf(n)} ELSE enableChange
      /\ Request[3] = "port_status" => Fresh(PortOf(n))'
      /\ Request[3] \notin {"port_status", "port_status_changed", "port_status_reset", "port_status_new"} => status' = status
      /\ PosOf(n)' = PosOf(n) /\ PortOf(n)' = PortOf(n) /\ On(n)' = On(n)
      /\ frames'[n].proc = Top.proc /\ frames'[n].at = Request[4] /\ frames'[n].dev = Top.dev
      /\ IsTop(n)' /\ ~Asking(n)' /\ Request[4] \in Places[Top.proc]
  BY <1>3, AnswerIsCalm
<1>5. KnowsCheck(n)  BY <1>1 DEF Knows
<1>6. KnowsCheck(n)'
  <2>1. CASE Top.at = "status" /\ Request[3] = "port_status" /\ Request[4] = "got"
    <3>1. Fresh(PortOf(n))' /\ frames'[n].at = "got"  BY <1>4, <2>1
    <3> QED  BY <3>1 DEF KnowsCheck
  <2>2. CASE Top.at = "clear_enable" /\ Request[3] = "clear_enable" /\ Request[4] = "interference"
    <3>1. status' = status /\ frames'[n].at = "interference"  BY <1>4, <2>2
    <3> QED  BY <1>1, <1>4, <1>5, <2>2, <3>1 DEF KnowsCheck
  <2>3. CASE Top.at = "clear" /\ Request[3] = "clear_change" /\ Request[4] = "done"
    <3>1. status' = status /\ frames'[n].at = "done"  BY <1>4, <2>3
    <3> QED  BY <1>1, <1>4, <1>5, <2>3, <3>1 DEF KnowsCheck
  <2> QED  BY <1>2, <2>1, <2>2, <2>3
<1>7. Knows(n)'  BY <1>4, <1>6, KnowsIs
<1>8. OffKept
  <2>1. NotCleared  BY <1>2 DEF NotCleared
  <2>2. CASE Request[3] # "clear_enable"  BY <1>4, <2>1, <2>2 DEF OffKept
  <2>3. CASE Request[3] = "clear_enable"
    <3>1. frames'[n].proc = "CheckConnection" /\ frames'[n].at = "interference"  BY <1>2, <1>4, <2>3
    <3>2. Len(frames') = n  BY <1>4 DEF IsTop
    <3>3. \A p : p = PortOf(n) => Cleared(p)'  BY <1>1, <1>4, <3>1, <3>2 DEF Cleared
    <3>4. \A p : ~Cleared(p)  BY <1>1, <2>1 DEF Cleared, NotCleared
    <3>5. enableChange' = enableChange \ {PortOf(n)}  BY <1>4, <2>3
    <3>6. ASSUME NEW d \in Live, NEW p, p = dev[d].pos, p \in enableChange \/ Cleared(p)
          PROVE  p \in enableChange' \/ Cleared(p)'
      <4>1. p \in enableChange  BY <3>4, <3>6
      <4>2. CASE p = PortOf(n)  BY <3>3, <4>2
      <4>3. CASE p # PortOf(n)  BY <3>5, <4>1, <4>3
      <4> QED  BY <4>2, <4>3
    <3>7. dev' = dev  BY <1>1
    <3>8. ASSUME NEW d \in Live, dev[d].pos \in enableChange \/ Cleared(dev[d].pos)
          PROVE  dev[d].pos \in enableChange' \/ Cleared(dev[d].pos)'
      <4>1. PICK p : p = dev[d].pos  OBVIOUS
      <4>2. p \in enableChange' \/ Cleared(p)'  BY <3>6, <3>8, <4>1
      <4>3. Cleared(p)' <=> Cleared(dev[d].pos)'  BY <3>7, <4>1 DEF Cleared
      <4> QED  BY <4>1, <4>2, <4>3
    <3> QED  BY <3>8 DEF OffKept
  <2> QED  BY <2>2, <2>3
<1>9. Top.proc # "CheckForChange" /\ Top.proc # "Attach"  OBVIOUS
<1> QED  BY <1>1, <1>4, <1>7, <1>8, <1>9, AnswerGoes

LEMMA AnswerChangedRead ==
  ASSUME TreeInv, Answer, NEW n, n = Len(frames), Top.proc = "ConnectionChanged", Top.at \in {"status", "status_new"}
  PROVE  TreeInv'
<1>1. /\ Sending /\ frames # << >> /\ Types /\ n \in Nat \ {0} /\ n \in 1 .. Len(frames) /\ Top = frames[n] /\ Knows(n) /\ IsTop(n)
      /\ Goto(Request[4]) /\ result' = "ok" /\ UNCHANGED <<dev, devices, plugged, gaveUp>> /\ (Top.proc \in OnPort => PortOf(n) \in Ports)
  BY AnswerIs
<1>2. \/ Top.at = "status" /\ Request[3] = "port_status_changed" /\ Request[4] = "got"
      \/ Top.at = "status_new" /\ Request[3] = "port_status_new" /\ Request[4] = "got_new"
  BY <1>1, SendersAre
<1>3. Request[3] \notin {"port_reset", "clear_connection", "port_disable"}  BY <1>2
<1>4. /\ Calm /\ enableChange' \subseteq enableChange /\ UNCHANGED <<enabled, connChange>> /\ enableChange' = enableChange
      /\ Fresh(PortOf(n))'
      /\ PosOf(n)' = PosOf(n) /\ PortOf(n)' = PortOf(n) /\ On(n)' = On(n)
      /\ \A q, d : (q \in Ports /\ Up(q) => Up(q)') /\ Bare(d)' = Bare(d) /\ Reports(q)' = Reports(q)
      /\ frames'[n].proc = Top.proc /\ frames'[n].at = Request[4] /\ frames'[n].dev = Top.dev
      /\ IsTop(n)' /\ ~GotError(n)' /\ Request[4] \in Places[Top.proc]
  BY <1>2, <1>3, AnswerIsCalm
<1>5. KnowsChanged(n) /\ PortOf(n) \in Ports  BY <1>1 DEF Knows, OnPort
<1>6. KnowsChanged(n)'
  <2>1. CASE Top.at = "status" /\ Request[3] = "port_status_changed" /\ Request[4] = "got"
    <3>1. frames'[n].proc = "ConnectionChanged" /\ frames'[n].at = "got"  BY <1>4, <2>1
    <3> QED  BY <1>1, <1>4, <1>5, <2>1, <3>1 DEF KnowsChanged
  <2>2. CASE Top.at = "status_new" /\ Request[3] = "port_status_new" /\ Request[4] = "got_new"
    <3>1. frames'[n].proc = "ConnectionChanged" /\ frames'[n].at = "got_new" /\ ~GotError(n)'  BY <1>4, <2>2
    <3>2. /\ On(n) # Null /\ Bare(On(n)) /\ dev[On(n)].status = "Attached" /\ dev[On(n)].parent = Null /\ dev[On(n)].number # 0
          /\ PortOf(n) \notin connChange /\ PortOf(n) \in plugged /\ Up(PortOf(n)) /\ Reports(PortOf(n))
      BY <1>1, <1>5, <2>2 DEF KnowsChanged
    <3>3. \A q : q = PortOf(n) => Up(q)' /\ Reports(q)'  BY <1>4, <1>5, <3>2
    <3>4. \A d : d = On(n) => Bare(d)'  BY <1>4, <3>2
    <3> QED  BY <1>1, <1>4, <3>1, <3>2, <3>3, <3>4 DEF KnowsChanged
  <2> QED  BY <1>2, <2>1, <2>2
<1>7. Knows(n)'  BY <1>4, <1>6, KnowsIs
<1>8. OffKept  BY <1>4 DEF OffKept, NotCleared
<1>9. Top.proc # "CheckForChange" /\ Top.proc # "Attach"  OBVIOUS
<1> QED  BY <1>1, <1>4, <1>7, <1>8, <1>9, AnswerGoes

LEMMA AnswerResetRead ==
  ASSUME TreeInv, Answer, NEW n, n = Len(frames), Top.proc = "PortReset", Top.at \in {"wait", "clear"}
  PROVE  TreeInv'
<1>1. /\ Sending /\ frames # << >> /\ Types /\ n \in Nat \ {0} /\ n \in 1 .. Len(frames) /\ Top = frames[n] /\ Knows(n) /\ IsTop(n)
      /\ Goto(Request[4]) /\ result' = "ok" /\ UNCHANGED <<dev, devices, plugged, gaveUp>> /\ (Top.proc \in OnPort => PortOf(n) \in Ports)
  BY AnswerIs
<1>2. \/ Top.at = "wait" /\ Request[3] = "port_status_reset" /\ Request[4] = "look"
      \/ Top.at = "clear" /\ Request[3] = "clear_change" /\ Request[4] = "done"
  BY <1>1, SendersAre
<1>3. Request[3] \notin {"port_reset", "clear_connection", "port_disable"}  BY <1>2
<1>4. /\ Calm /\ enableChange' \subseteq enableChange /\ UNCHANGED <<enabled, connChange>> /\ enableChange' = enableChange
      /\ Request[3] = "port_status_reset" => Fresh(PortOf(n))'
      /\ PosOf(n)' = PosOf(n) /\ PortOf(n)' = PortOf(n)
      /\ \A q, d : (q \in Ports /\ Up(q) => Up(q)') /\ Bare(d)' = Bare(d) /\ Reports(q)' = Reports(q)
      /\ frames'[n].proc = Top.proc /\ frames'[n].at = Request[4] /\ frames'[n].dev = Top.dev
      /\ IsTop(n)' /\ ~GotError(n)' /\ Request[4] \in Places[Top.proc]
  BY <1>2, <1>3, AnswerIsCalm
<1>5. KnowsReset(n) /\ PortOf(n) \in Ports  BY <1>1 DEF Knows, OnPort
<1>6. KnowsReset(n)'
  <2>1. CASE Top.at = "wait" /\ Request[3] = "port_status_reset" /\ Request[4] = "look"
    <3>1. frames'[n].proc = "PortReset" /\ frames'[n].at = "look"  BY <1>4, <2>1
    <3> QED  BY <1>1, <1>4, <1>5, <2>1, <3>1 DEF KnowsReset
  <2>2. CASE Top.at = "clear" /\ Request[3] = "clear_change" /\ Request[4] = "done"
    <3>1. frames'[n].proc = "PortReset" /\ frames'[n].at = "done"  BY <1>4, <2>2
    <3> QED  BY <1>1, <1>4, <1>5, <2>2, <3>1 DEF KnowsReset
  <2> QED  BY <1>2, <2>1, <2>2
<1>7. Knows(n)'  BY <1>4, <1>6, KnowsIs
<1>8. OffKept  BY <1>4 DEF OffKept, NotCleared
<1>9. Top.proc # "CheckForChange" /\ Top.proc # "Attach"  OBVIOUS
<1> QED  BY <1>1, <1>4, <1>7, <1>8, <1>9, AnswerGoes

LEMMA AnswerAttach ==
  ASSUME TreeInv, Answer, NEW n, n = Len(frames), Top.proc = "Attach"
  PROVE  TreeInv'
<1>1. /\ Sending /\ frames # << >> /\ Types /\ n \in Nat \ {0} /\ n \in 1 .. Len(frames) /\ Top = frames[n] /\ Knows(n) /\ IsTop(n)
      /\ Goto(Request[4]) /\ result' = "ok" /\ UNCHANGED <<dev, devices, plugged, gaveUp>>
  BY AnswerIs
<1>2. /\ Request[3] \notin {"port_reset", "clear_connection", "port_disable", "clear_enable"}
      /\ \/ Top.at \in Early /\ Request[4] \in Early \ {"rereset"} /\ Top.at # "rereset" /\ Request[4] \notin Late
         \/ Top.at \in Late \ {"end"} /\ Request[4] \in Late \ {"end"} /\ Top.at \notin Early /\ Request[4] \notin Early
      /\ Top.at # "begin" /\ Request[4] # "begin" /\ Top.at # "rereset" /\ Request[4] # "rereset"
      /\ Top.at # "end" /\ Request[4] # "end"
  <2>1. \/ /\ <<Top.at, Request[4]>> \in {<<"describe", "described">>, <<"address", "addressed">>, <<"describe2", "described2">>,
                                       <<"strings", "configure">>, <<"configure", "configured">>, <<"strings2", "driver">>}
           /\ Request[3] \in {"device_descriptor", "set_address", "device_descriptor2", "string", "configuration"}
    BY <1>1, SendersAre
  <2> QED  BY <2>1 DEF Early, Late
<1>3. Request[3] \notin {"port_reset", "clear_connection", "port_disable"}  BY <1>2
<1>4. /\ Calm /\ enableChange' \subseteq enableChange /\ UNCHANGED <<enabled, connChange>> /\ enableChange' = enableChange
      /\ PosOf(n)' = PosOf(n)
      /\ \A q, d : (q \in Ports /\ Up(q) => Up(q)') /\ Bare(d)' = Bare(d) /\ Reports(q)' = Reports(q)
      /\ frames'[n].proc = Top.proc /\ frames'[n].at = Request[4] /\ frames'[n].dev = Top.dev /\ frames'[n].n = Top.n
      /\ IsTop(n)' /\ ~GotError(n)' /\ Request[4] \in Places[Top.proc]
  BY <1>2, <1>3, AnswerIsCalm
<1>5. KnowsAttach(n) /\ (PosOf(n) # << >> => PosOf(n) \in Ports)  BY <1>1, PlaceIs DEF Knows, Ports
<1>6. /\ PosOf(n) # <<>> => dev[Top.dev].parent # Null /\ PosOf(n) \in plugged /\ Up(PosOf(n))
      /\ Bare(Top.dev) /\ Reports(PosOf(n))
      /\ Top.at \in Early => /\ dev[Top.dev].number = 0 /\ Top.n \in Slots /\ devices[Top.n] = Top.dev
                             /\ dev[Top.dev].status \in {"Attached", "Powered", "Default"}
      /\ Top.at \in Late => dev[Top.dev].number # 0 /\ dev[Top.dev].status \in Done
  BY <1>1, <1>2, <1>5 DEF KnowsAttach
<1>7. KnowsAttach(n)'
  <2>1. PosOf(n) # << >> => (Up(PosOf(n)) => \A q : q = PosOf(n) => Up(q)')  BY <1>4, <1>5
  <2> QED  BY <1>1, <1>2, <1>4, <1>6, <2>1 DEF KnowsAttach
<1>8. Knows(n)'  BY <1>4, <1>7, KnowsIs
<1>9. OffKept  BY <1>4 DEF OffKept, NotCleared
<1>10. Top.proc # "CheckForChange" /\ (Top.at \in Early => Request[4] \in Early)  BY <1>2
<1> QED  BY <1>1, <1>2, <1>4, <1>8, <1>9, <1>10, AnswerGoes

LEMMA AnswerHub ==
  ASSUME TreeInv, Answer, NEW n, n = Len(frames), Top.proc = "HubAttach"
  PROVE  TreeInv'
<1>1. /\ Sending /\ frames # << >> /\ Types /\ n \in Nat \ {0} /\ n \in 1 .. Len(frames) /\ Top = frames[n] /\ Knows(n) /\ IsTop(n)
      /\ Goto(Request[4]) /\ result' = "ok" /\ UNCHANGED <<dev, devices, plugged, gaveUp>>
  BY AnswerIs
<1>2. /\ <<Top.at, Request[4]>> \in {<<"describe", "described">>, <<"status", "got">>,
                                     <<"power", "status_again">>, <<"status_again", "got_again">>}
      /\ Request[3] \notin {"port_reset", "clear_connection", "port_disable", "clear_enable"}
  BY <1>1, SendersAre
<1>3. Request[3] \notin {"port_reset", "clear_connection", "port_disable"}  BY <1>2
<1>4. /\ Calm /\ enableChange' \subseteq enableChange /\ UNCHANGED <<enabled, connChange>> /\ enableChange' = enableChange
      /\ PosOf(n)' = PosOf(n)
      /\ \A q, d : (q \in Ports /\ Up(q) => Up(q)') /\ Bare(d)' = Bare(d) /\ Reports(q)' = Reports(q)
      /\ frames'[n].proc = Top.proc /\ frames'[n].at = Request[4] /\ frames'[n].dev = Top.dev
      /\ Request[4] \in Places[Top.proc]
  BY <1>2, <1>3, AnswerIsCalm
<1>5. KnowsHub(n)  BY <1>1 DEF Knows
<1>6. KnowsHub(n)'  BY <1>1, <1>2, <1>4, <1>5 DEF KnowsHub
<1>7. Knows(n)'  BY <1>4, <1>6, KnowsIs
<1>8. OffKept  BY <1>4 DEF OffKept, NotCleared
<1>9. Top.proc # "CheckForChange" /\ Top.proc # "Attach"  OBVIOUS
<1> QED  BY <1>1, <1>4, <1>7, <1>8, <1>9, AnswerGoes
=============================================================================
