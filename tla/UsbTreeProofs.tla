--------------------------- MODULE UsbTreeProofs ---------------------------
(***************************************************************************)
(* Theorems about the USB device tree, for every tree of hubs, number of   *)
(* devices, size of the table and number of changes and failures.          *)
(*                                                                         *)
(* Module UsbTreeInv has the invariant, TreeInv.  Here are the steps that  *)
(* change devices or ports: what each has to show of the calls that wait   *)
(* (Holds, Elsewhere), and that it does: what is dropped is behind a port  *)
(* that is on no call's way, memory for a new device was free, so that no  *)
(* call has it, and a port is reset only where nothing below is in use.    *)
(***************************************************************************)
EXTENDS UsbTreeInv

(* A step that changes more: what is to be shown of the calls that wait.   *)
Holds ==
  /\ TypeOK' /\ Tree' /\ Table' /\ PosStay
  /\ \A k \in 1 .. Len(frames) :
       frames[k].dev \in Live' /\ dev'[frames[k].dev].maxChildren >= dev[frames[k].dev].maxChildren
  /\ \A k \in 1 .. Len(frames) - 1 : Open(k)' /\ Waits(k)'

LEMMA LowerHolds ==
  ASSUME TreeInv, frames # << >>, NEW n, n = Len(frames), Holds, Lower, frames' \in Seq(FrameType),
         Top.proc \notin {"Verify", "CheckConnection"},
         Len(frames') >= n - 1, Len(frames') >= n => frames'[n].proc = Top.proc
  PROVE  \A k \in 1 .. n - 1 : FrameOK(k)' /\ Open(k)' /\ (k # Len(frames') => Knows(k)')
<1>1. /\ Types /\ Stack /\ Knowledge /\ n \in Nat \ {0} /\ Top = frames[n] /\ TypeOK /\ frames \in Seq(FrameType)
  BY InvIs
<1> SUFFICES ASSUME NEW k \in 1 .. n - 1  PROVE FrameOK(k)' /\ Open(k)' /\ (k # Len(frames') => Knows(k)')
  OBVIOUS
<1>2. frames'[k] = frames[k] /\ k \in 1 .. Len(frames) /\ k + 1 \in 1 .. n /\ Len(frames') \in Nat  BY <1>1 DEF Lower
<1>3. FrameOK(k)'
  <2>1. FrameOK(k)  BY <1>1, <1>2 DEF Types
  <2>2. frames[k].dev \in Live' /\ frames[k].dev \in DevIds  BY <1>1, <1>2, PlaceIs DEF Holds
  <2> DEFINE h == dev[frames[k].dev].maxChildren
             m == dev'[frames[k].dev].maxChildren
             i == frames[k].port
  <2>3. h \in Nat /\ m \in Nat /\ m >= h /\ i \in Nat
    <3>1. h \in Nat  BY <1>1, <2>2, DeviceIs
    <3>2. m \in Nat  BY <2>2 DEF Holds, TypeOK, DeviceType
    <3>3. m >= h  BY <1>2 DEF Holds
    <3>4. i \in Nat  BY <1>1, <1>2, PlaceIs DEF FrameType
    <3> QED  BY <3>1, <3>2, <3>3, <3>4
  <2>4. i \in 1 .. h => i \in 1 .. m
    <3> HIDE DEF h, m, i
    <3> QED  BY <2>3
  <2> QED  BY <1>2, <2>1, <2>2, <2>4 DEF FrameOK
<1>4. Open(k)' /\ Waits(k)'  BY DEF Holds
<1>5. ASSUME k # Len(frames')  PROVE Knows(k)'
  <2>2. \A j \in 1 .. n - 1 : ~Climbing(j)  BY <1>1, NoneClimbs DEF Stack
  <2>3. frames[k].proc # "PortReset"  BY <2>2 DEF Climbing
  <2>4. frames'[k + 1].proc # "Verify"
    <3>1. CASE k + 1 = n
      <4>1. Len(frames') >= n  BY <1>1, <1>2, <1>5, <3>1
      <4> QED  BY <3>1, <4>1
    <3>2. CASE k + 1 # n
      <4>1. k + 1 \in 1 .. n - 1  BY <1>1, <1>2, <3>2
      <4>2. frames'[k + 1] = frames[k + 1]  BY <4>1 DEF Lower
      <4> QED  BY <2>2, <4>1, <4>2 DEF Climbing
    <3> QED  BY <3>1, <3>2
  <2> QED  BY <1>2, <1>4, <1>5, <2>3, <2>4, WaitsKnows
<1> QED  BY <1>3, <1>4, <1>5

LEMMA GoesAnew ==
  ASSUME TreeInv, frames # << >>, NEW n, n = Len(frames), Holds,
         Top.proc \notin {"Verify", "CheckConnection", "CheckForChange"},
         NEW f, Goes(f), f.at \in Places[f.proc], f.proc = "HubAttach" => f.port >= 1,
         Open(n)', Knows(n)', Elsewhere'
  PROVE  TreeInv'
<1>1. /\ Types /\ Stack /\ n \in Nat \ {0} /\ n \in 1 .. n /\ Top = frames[n] /\ TypeOK /\ frames \in Seq(FrameType) /\ FrameOK(n)
  BY InvIs
<1>2. /\ frames' \in Seq(FrameType) /\ Len(frames') = n /\ Lower /\ frames'[n] = f /\ Kin(f)
  BY DEF Goes
<1>3. f.proc = Top.proc /\ f.dev = Top.dev /\ (f.port = Top.port \/ f.proc \in {"HubAttach", "CheckForChange"})
  BY <1>2 DEF Kin
<1>4. \A k \in 1 .. n - 1 : FrameOK(k)' /\ Open(k)' /\ (k # n => Knows(k)')
  <2>1. Top.proc \notin {"Verify", "CheckConnection"} /\ frames'[n].proc = Top.proc  BY <1>2, <1>3
  <2>2. Len(frames') >= n - 1  BY <1>1, <1>2
  <2> QED  BY <1>2, <2>1, <2>2, LowerHolds
<1>5. FrameOK(n)'
  <2>1. Top.dev \in Live' /\ Top.dev \in DevIds  BY <1>1, PlaceIs DEF Holds
  <2> DEFINE h == dev[Top.dev].maxChildren
             m == dev'[Top.dev].maxChildren
             i == Top.port
  <2>2. h \in Nat /\ m \in Nat /\ m >= h /\ i \in Nat
    <3>1. h \in Nat  BY <1>1, <2>1, DeviceIs
    <3>2. m \in Nat  BY <2>1 DEF Holds, TypeOK, DeviceType
    <3>3. m >= h  BY <1>1 DEF Holds
    <3>4. i \in Nat  BY <1>1, PlaceIs DEF FrameType
    <3> QED  BY <3>1, <3>2, <3>3, <3>4
  <2>3. i \in 1 .. h => i \in 1 .. m
    <3> HIDE DEF h, m, i
    <3> QED  BY <2>2
  <2>4. f.proc \in OnPort => f.port \in 1 .. m  BY <1>1, <1>3, <2>3 DEF FrameOK, OnPort
  <2> QED  BY <1>2, <1>3, <2>1, <2>4 DEF FrameOK
<1>6. \A k \in 1 .. n : k = n \/ k \in 1 .. n - 1  BY <1>1
<1>7. \A k \in 1 .. n : FrameOK(k)' /\ Open(k)' /\ Knows(k)'
  <2>1. \A k \in 1 .. n - 1 : k # n  BY <1>1
  <2> QED  BY <1>4, <1>5, <1>6, <2>1
<1>8. Types' /\ Paths' /\ Knowledge'  BY <1>2, <1>7 DEF Types, Paths, Knowledge, Holds
<1>9. Stack'
  <2>1. PosStay  BY DEF Holds
  <2>2. f \in FrameType  BY <1>1, <1>2
  <2> QED  BY <1>1, <2>1, <2>2, StackGoes
<1> QED  BY <1>8, <1>9 DEF TreeInv, Holds

LEMMA ReturnsAnew ==
  ASSUME TreeInv, NEW n, n = Len(frames), Holds, Returns,
         Top.proc \notin {"Verify", "CheckConnection"},
         n # 1 => Knows(n - 1)', Elsewhere'
  PROVE  TreeInv'
<1>1. /\ Types /\ Stack /\ n \in Nat \ {0} /\ Top = frames[n] /\ TypeOK /\ frames \in Seq(FrameType) /\ frames # << >>
  BY InvIs DEF Returns
<1>2. /\ frames' \in Seq(FrameType) /\ Len(frames') = n - 1 /\ Lower
  BY DEF Returns
<1>4. \A k \in 1 .. n - 1 : FrameOK(k)' /\ Open(k)' /\ (k # n - 1 => Knows(k)')
  <2>2. Len(frames') >= n - 1 /\ ~(Len(frames') >= n)  BY <1>1, <1>2
  <2> QED  BY <1>1, <1>2, <2>2, LowerHolds
<1>7. \A k \in 1 .. n - 1 : FrameOK(k)' /\ Open(k)' /\ Knows(k)'
  <2> SUFFICES ASSUME NEW k \in 1 .. n - 1, k = n - 1  PROVE Knows(k)'
    BY <1>4
  <2>1. n # 1  BY <1>1
  <2> QED  BY <2>1
<1>8. Types' /\ Paths' /\ Knowledge'  BY <1>2, <1>7 DEF Types, Paths, Knowledge, Holds
<1>9. Stack'
  <2>1. PosStay  BY DEF Holds
  <2> QED  BY <1>1, <2>1, StackReturns
<1> QED  BY <1>8, <1>9 DEF TreeInv, Holds

LEMMA MakesAnew ==
  ASSUME TreeInv, frames # << >>, NEW n, n = Len(frames), Holds,
         Top.proc \notin {"Verify", "CheckConnection", "CheckForChange"},
         NEW f \in FrameType, NEW g \in FrameType, Makes(f, g), f.at \in Places[f.proc], f.proc = "HubAttach" => f.port >= 1,
         FrameOK(n + 1)', Calls(n)', Open(n)', Open(n + 1)', Knows(n)', Knows(n + 1)', Elsewhere',
         g.proc \in {"Verify", "PortReset"} \/ Way(PosOf(n)) \subseteq Way(dev'[g.dev].pos)
  PROVE  TreeInv'
<1>1. /\ Types /\ Stack /\ n \in Nat \ {0} /\ n \in 1 .. n /\ Top = frames[n] /\ TypeOK /\ frames \in Seq(FrameType) /\ FrameOK(n)
  BY InvIs
<1>2. /\ frames' \in Seq(FrameType) /\ Len(frames') = n + 1 /\ Lower /\ frames'[n] = f /\ Kin(f) /\ frames'[n + 1] = g
  BY DEF Makes
<1>3. f.proc = Top.proc /\ f.dev = Top.dev /\ (f.port = Top.port \/ f.proc \in {"HubAttach", "CheckForChange"})
  BY <1>2 DEF Kin
<1>4. \A k \in 1 .. n - 1 : FrameOK(k)' /\ Open(k)' /\ (k # n + 1 => Knows(k)')
  <2>1. Top.proc \notin {"Verify", "CheckConnection"} /\ frames'[n].proc = Top.proc  BY <1>2, <1>3
  <2>2. Len(frames') >= n - 1  BY <1>1, <1>2
  <2> QED  BY <1>2, <2>1, <2>2, LowerHolds
<1>5. FrameOK(n)'
  <2>1. Top.dev \in Live' /\ Top.dev \in DevIds  BY <1>1, PlaceIs DEF Holds
  <2> DEFINE h == dev[Top.dev].maxChildren
             m == dev'[Top.dev].maxChildren
             i == Top.port
  <2>2. h \in Nat /\ m \in Nat /\ m >= h /\ i \in Nat
    <3>1. h \in Nat  BY <1>1, <2>1, DeviceIs
    <3>2. m \in Nat  BY <2>1 DEF Holds, TypeOK, DeviceType
    <3>3. m >= h  BY <1>1 DEF Holds
    <3>4. i \in Nat  BY <1>1, PlaceIs DEF FrameType
    <3> QED  BY <3>1, <3>2, <3>3, <3>4
  <2>3. i \in 1 .. h => i \in 1 .. m
    <3> HIDE DEF h, m, i
    <3> QED  BY <2>2
  <2>4. f.proc \in OnPort => f.port \in 1 .. m  BY <1>1, <1>3, <2>3 DEF FrameOK, OnPort
  <2> QED  BY <1>2, <1>3, <2>1, <2>4 DEF FrameOK
<1>6. \A k \in 1 .. n + 1 : k = n + 1 \/ k = n \/ k \in 1 .. n - 1  BY <1>1
<1>7. \A k \in 1 .. n + 1 : FrameOK(k)' /\ Open(k)' /\ Knows(k)'
  <2>1. \A k \in 1 .. n - 1 : k # n + 1  BY <1>1
  <2> QED  BY <1>4, <1>5, <1>6, <2>1
<1>8. Types' /\ Paths' /\ Knowledge'  BY <1>2, <1>7 DEF Types, Paths, Knowledge, Holds
<1>9. Stack'
  <2>1. PosStay  BY DEF Holds
  <2>2. Down(n) \/ g.proc \in {"Verify", "CheckConnection"}
    <3>1. Top.proc # "PortReset" => Down(n)  BY <1>1, IsDown DEF Stack
    <3>2. Top.proc = "PortReset" => g.proc = "Verify"
      <4>1. g.proc \in OnPort \cup {"Attach", "HubAttach", "CheckForChange"}  BY DEF FrameType
      <4> QED  BY <1>1, <1>2, <1>3, <4>1 DEF Calls, OnPort
    <3> QED  BY <3>1, <3>2
  <2>3. g.proc \in {"Verify", "PortReset"} \/ ~Down(n) \/ Way(PosOf(n)) \subseteq Way(dev'[g.dev].pos)  OBVIOUS
  <2> QED  BY <1>1, <2>1, <2>2, <2>3, StackMakes
<1> QED  BY <1>8, <1>9 DEF TreeInv, Holds

(* The requests that change ports.  What they leave alone.                 *)
LEMMA PortsChange ==
  ASSUME TreeInv, frames # << >>, NEW n, n = Len(frames),
         UNCHANGED <<dev, devices, gaveUp, status, plugged>>, result' = "ok",
         enabled' \subseteq plugged, connChange' \subseteq Ports, enableChange' \subseteq enableChange,
         NEW a \in Places[Top.proc], Goto(a), Top.proc \in {"ConnectionChanged", "PortReset"},
         \A k \in 1 .. n : Open(k)', \A k \in 1 .. n - 1 : Waits(k)', Knows(n)', Off', Seen'
  PROVE  TreeInv'
<1>1. /\ Types /\ Tree /\ Table /\ Elsewhere /\ TypeOK /\ Top = frames[n] /\ n \in Nat \ {0} /\ frames \in Seq(FrameType)
      /\ n \in 1 .. n
  BY InvIs
<1>2. PICK f \in FrameType : Goes(f) /\ f.proc = Top.proc /\ f.at = a /\ f.dev = Top.dev /\ f.port = Top.port /\ f.n = Top.n
  BY <1>1, GotoPick
<1>3. dev' = dev /\ devices' = devices /\ gaveUp' = gaveUp  OBVIOUS
<1>4. Live' = Live /\ PosStay  BY <1>3 DEF Live, PosStay
<1>5. Tree'  BY <1>1, <1>3, <1>4 DEF Tree, Rooted, FreeIsNew, Children, OnePlace, Hooked, Parents, Parented
<1>6. Table'  BY <1>1, <1>3, <1>4 DEF Table, Numbered, OneSlot
<1>7. TypeOK'  BY <1>1, <1>3 DEF TypeOK
<1>8. \A k \in 1 .. Len(frames) : /\ frames[k].dev \in Live'
                                  /\ dev'[frames[k].dev].maxChildren >= dev[frames[k].dev].maxChildren
  <2> SUFFICES ASSUME NEW k \in 1 .. Len(frames)
               PROVE  frames[k].dev \in Live' /\ dev[frames[k].dev].maxChildren >= dev[frames[k].dev].maxChildren
    BY <1>3
  <2>1. frames[k].dev \in Live /\ frames[k].dev \in DevIds  BY <1>1, PlaceIs
  <2>2. dev[frames[k].dev].maxChildren \in Nat  BY <1>1, <2>1, DeviceIs
  <2> DEFINE m == dev[frames[k].dev].maxChildren
  <2>3. m \in Nat  BY <2>2
  <2>4. m >= m
    <3> HIDE DEF m
    <3> QED  BY <2>3
  <2> QED  BY <1>4, <2>1, <2>4
<1>9. \A k \in 1 .. Len(frames) - 1 : Open(k)' /\ Waits(k)'
  <2>1. \A k \in 1 .. n - 1 : k \in 1 .. n  BY <1>1
  <2> QED  BY <2>1
<1>10. Holds  BY <1>4, <1>5, <1>6, <1>7, <1>8, <1>9 DEF Holds
<1>11. Addressed'
  <2> SUFFICES ASSUME NEW d \in Live  PROVE AddressedIs(d)'
    BY <1>4 DEF Addressed
  <2>1. AddressedIs(d)  BY <1>1 DEF Elsewhere, Addressed
  <2>2. Stays(f)  BY <1>1, <1>2, BothStay
  <2>3. /\ \A p : InHand(p) => InHand(p)'
        /\ EarlyNow(d) => EarlyNow(d)'
        /\ frames'[1].proc = frames[1].proc /\ frames' # << >>
    BY <1>1, <1>4, <2>2, HandsStay DEF Stays
  <2> QED  BY <1>3, <2>1, <2>3 DEF AddressedIs
<1>12. Elsewhere'  BY <1>11 DEF Elsewhere
<1>13. f.at \in Places[f.proc] /\ f.proc # "HubAttach" /\ Top.proc \notin {"Verify", "CheckConnection", "CheckForChange"}
  BY <1>2
<1>14. Goes(f) /\ Open(n)'  BY <1>1, <1>2
<1> QED  BY <1>10, <1>12, <1>13, <1>14, GoesAnew

(* A call that changes a port is on the way down: who waits for it.        *)
LEMMA ChangedSite ==
  ASSUME TreeInv, frames # << >>, NEW n, n = Len(frames), Top.proc = "ConnectionChanged"
  PROVE  /\ \A k \in 1 .. n : PortOf(n) \notin Way(PosOf(k)) /\ ~Rereset(k)
         /\ \A k \in 1 .. n - 1 : Waits(k)
         /\ InHand(PortOf(n)) /\ \A q : ~Cleared(q)
<1>1. /\ Types /\ Stack /\ Knowledge /\ n \in Nat \ {0} /\ n \in 1 .. Len(frames) /\ Top = frames[n] /\ frames \in Seq(FrameType)
      /\ \A k \in 1 .. n - 1 : k \in 1 .. Len(frames) /\ Calls(k)
  BY InvIs
<1>2. Down(n)  BY ChangedIs
<1>3. \A k \in 1 .. n : PortOf(n) \notin Way(PosOf(k))  BY <1>1, <1>2, NoneBehind DEF OnPort
<1>4. ASSUME NEW k \in 1 .. n - 1  PROVE Waits(k) /\ ~Rereset(k)
  <2>1. \A j \in 1 .. n - 1 : ~Climbing(j)  BY <1>1, NoneClimbs DEF Stack
  <2>2. k + 1 = n \/ k + 1 \in 1 .. n - 1  BY <1>1
  <2>3. frames[k + 1].proc \notin {"Verify", "PortReset"}  BY <1>1, <2>1, <2>2 DEF Climbing
  <2>4. Waits(k)  BY <1>1, <2>3, WaitsIs
  <2>5. ~Rereset(k)
    <3>1. frames[k + 1].proc \in OnPort \cup {"Attach", "HubAttach", "CheckForChange"}
      <4>1. k + 1 \in 1 .. Len(frames)  BY <1>1
      <4> QED  BY <1>1, <4>1, PlaceIs DEF FrameType
    <3> QED  BY <1>1, <2>3, <3>1 DEF Calls, Rereset, OnPort
  <2> QED  BY <2>4, <2>5
<1>5. ~Rereset(n)  BY <1>1 DEF Rereset
<1>6. \A k \in 1 .. n : k = n \/ k \in 1 .. n - 1  BY <1>1
<1>7. InHand(PortOf(n))  BY <1>1 DEF InHand
<1>8. \A q : ~Cleared(q)  BY <1>1 DEF Cleared
<1> QED  BY <1>3, <1>4, <1>5, <1>6, <1>7, <1>8

LEMMA AnswerClear ==
  ASSUME TreeInv, Answer, NEW n, n = Len(frames), Top.proc = "ConnectionChanged", Top.at = "clear"
  PROVE  TreeInv'
<1>1. /\ Sending /\ frames # << >> /\ Types /\ TypeOK /\ n \in Nat \ {0} /\ n \in 1 .. Len(frames) /\ Top = frames[n] /\ Knows(n)
      /\ Goto(Request[4]) /\ result' = "ok" /\ UNCHANGED <<dev, devices, plugged, gaveUp>> /\ PortPos = PortOf(n)
      /\ PortOf(n) \in Ports
  BY AnswerIs DEF OnPort
<1>2. Request[3] = "clear_connection" /\ Request[4] = "decide"  BY <1>1, SendersAre
<1>3. status' = status /\ connChange' = connChange \ {PortOf(n)} /\ enableChange' = enableChange /\ enabled' = enabled
  BY <1>1, <1>2 DEF Answer
<1>4. Goto("decide") /\ "decide" \in Places[Top.proc]  BY <1>1, <1>2 DEF Places
<1>5. /\ frames'[n].proc = "ConnectionChanged" /\ frames'[n].at = "decide" /\ frames'[n].dev = Top.dev
      /\ IsTop(n)' /\ PosOf(n)' = PosOf(n) /\ PortOf(n)' = PortOf(n) /\ On(n)' = On(n) /\ ~GotError(n)'
  <2>1. /\ frames'[n].proc = Top.proc /\ frames'[n].at = "decide" /\ frames'[n].dev = Top.dev
        /\ IsTop(n)' /\ ~Asking(n)' /\ PosOf(n)' = PosOf(n) /\ PortOf(n)' = PortOf(n) /\ On(n)' = On(n)
    BY <1>1, <1>4, GotoTo
  <2> QED  BY <1>1, <2>1 DEF GotError
<1>6. /\ Tree /\ Stack /\ Elsewhere /\ Paths /\ frames \in Seq(FrameType)  BY <1>1, InvIs
<1>7. /\ \A k \in 1 .. n : PortOf(n) \notin Way(PosOf(k)) /\ ~Rereset(k)
      /\ \A k \in 1 .. n - 1 : Waits(k)
      /\ InHand(PortOf(n)) /\ \A q : ~Cleared(q)
  BY <1>1, ChangedSite
<1>8. PICK f \in FrameType : Goes(f) /\ f.proc = Top.proc /\ f.at = "decide" /\ f.dev = Top.dev /\ f.port = Top.port /\ f.n = Top.n
  BY <1>1, <1>4, GotoPick
<1>9. PosStay /\ Live' = Live  BY <1>1 DEF PosStay, Live
<1>10. \A q : InHand(q) => InHand(q)'
  <2>1. Stays(f)  BY <1>6, <1>8, BothStay
  <2> QED  BY <1>6, <1>9, <2>1, HandsStay
<1>11. \A k \in 1 .. n - 1 : frames'[k] = frames[k] /\ k \in 1 .. n  BY <1>1, <1>8 DEF Goes, Lower
<1>12. \A k \in 1 .. n : Open(k)'
  <2> SUFFICES ASSUME NEW k \in 1 .. n  PROVE Open(k)'
    OBVIOUS
  <2>1. Settled(PosOf(k))  BY <1>1, <1>6, <1>7 DEF Paths, Open
  <2>2. PosOf(k)' = PosOf(k) /\ ~Rereset(k)'
    <3>1. CASE k = n  BY <1>5, <3>1 DEF Rereset
    <3>2. CASE k \in 1 .. n - 1  BY <1>1, <1>7, <1>11, <3>2 DEF PosOf, Rereset
    <3> QED  BY <1>1, <3>1, <3>2
  <2> QED  BY <1>3, <2>1, <2>2 DEF Open, Settled, Way
<1>13. \A k \in 1 .. n - 1 : Waits(k)'
  <2> SUFFICES ASSUME NEW k \in 1 .. n - 1  PROVE Waits(k)'
    OBVIOUS
  <2>1. Waits(k) /\ ~Rereset(k) /\ frames'[k] = frames[k]  BY <1>7, <1>11
  <2>2. PosOf(k)' = PosOf(k) /\ PortOf(k)' = PortOf(k) /\ On(k)' = On(k)  BY <1>1, <2>1 DEF PosOf, PortOf, On
  <2>3. \A q : Up(q)' = Up(q)  BY <1>3 DEF Up
  <2> QED  BY <1>1, <1>3, <2>1, <2>2, <2>3 DEF Waits, Rereset
<1>14. Knows(n)'
  <2>1. /\ On(n) # Null => dev[On(n)].number # 0 /\ (dev[On(n)].status \in Done \/ gaveUp)
        /\ Fresh(PortOf(n))
    BY <1>1 DEF Knows, KnowsChanged
  <2>2. (status[PortOf(n)].conn <=> PortOf(n) \in plugged) /\ (status[PortOf(n)].en <=> PortOf(n) \in enabled)
    <3>1. status[PortOf(n)] = PortStatus(PortOf(n))  BY <2>1 DEF Fresh
    <3>2. /\ PortStatus(PortOf(n)).conn = (PortOf(n) \in plugged)
          /\ PortStatus(PortOf(n)).en = (PortOf(n) \in enabled)
      BY DEF PortStatus
    <3> QED  BY <3>1, <3>2
  <2>3. KnowsChanged(n)'  BY <1>1, <1>3, <1>5, <2>1, <2>2 DEF KnowsChanged
  <2> QED  BY <1>5, <2>3, KnowsIs
<1>15. Off'
  <2> SUFFICES ASSUME NEW d \in Live, NEW q, q = dev[d].pos, Way(q) \ {q} \subseteq enabled, q \notin enabled, q # <<>>
               PROVE  q \in connChange' \cup enableChange \/ InHand(q)'
    BY <1>1, <1>3, <1>9 DEF Off, Way
  <2>1. q \in connChange \cup enableChange \/ InHand(q)
    BY <1>6, <1>7 DEF Elsewhere, Off
  <2> QED  BY <1>3, <1>7, <1>10, <2>1
<1>16. Seen'
  <2> SUFFICES ASSUME NEW d \in Live  PROVE SeenOf(d)'
    BY <1>1, <1>3, <1>9 DEF Seen
  <2> SUFFICES ASSUME dev[d].hub, Way(dev[d].pos) \subseteq enabled, NEW i \in 1 .. dev[d].maxChildren,
                      NEW p, p = Append(dev[d].pos, i), p \notin connChange', ~InHand(p)'
               PROVE  /\ dev[d].children[i] # Null => p \in plugged
                      /\ p \in plugged /\ ~gaveUp => dev[d].children[i] # Null
    BY <1>1, <1>3, <1>9 DEF SeenOf, Way
  <2>1. SeenOf(d)  BY <1>6 DEF Elsewhere, Seen
  <2>2. ~InHand(p) /\ p \notin connChange
    BY <1>3, <1>7, <1>10
  <2> QED  BY <2>1, <2>2 DEF SeenOf
<1>17. enabled' \subseteq plugged /\ connChange' \subseteq Ports /\ enableChange' \subseteq enableChange
       /\ UNCHANGED <<dev, devices, gaveUp, status, plugged>> /\ result' = "ok"
  BY <1>1, <1>3 DEF TypeOK
<1> QED  BY <1>1, <1>4, <1>12, <1>13, <1>14, <1>15, <1>16, <1>17, PortsChange

LEMMA AnswerDisable ==
  ASSUME TreeInv, Answer, NEW n, n = Len(frames), Top.proc = "ConnectionChanged", Top.at = "disable"
  PROVE  TreeInv'
<1>1. /\ Sending /\ frames # << >> /\ Types /\ TypeOK /\ n \in Nat \ {0} /\ n \in 1 .. Len(frames) /\ Top = frames[n] /\ Knows(n)
      /\ Goto(Request[4]) /\ result' = "ok" /\ UNCHANGED <<dev, devices, plugged, gaveUp>> /\ PortPos = PortOf(n)
      /\ PortOf(n) \in Ports
  BY AnswerIs DEF OnPort
<1>2. Request[3] = "port_disable" /\ Request[4] = "failed"  BY <1>1, SendersAre
<1>3. status' = status /\ connChange' = connChange /\ enableChange' = enableChange /\ enabled' = enabled \ {PortOf(n)}
  BY <1>1, <1>2 DEF Answer
<1>4. Goto("failed") /\ "failed" \in Places[Top.proc]  BY <1>1, <1>2 DEF Places
<1>5. /\ frames'[n].proc = "ConnectionChanged" /\ frames'[n].at = "failed" /\ frames'[n].dev = Top.dev
      /\ IsTop(n)' /\ PosOf(n)' = PosOf(n) /\ PortOf(n)' = PortOf(n) /\ On(n)' = On(n) /\ ~GotError(n)'
  <2>1. /\ frames'[n].proc = Top.proc /\ frames'[n].at = "failed" /\ frames'[n].dev = Top.dev
        /\ IsTop(n)' /\ ~Asking(n)' /\ PosOf(n)' = PosOf(n) /\ PortOf(n)' = PortOf(n) /\ On(n)' = On(n)
    BY <1>1, <1>4, GotoTo
  <2> QED  BY <1>1, <2>1 DEF GotError
<1>6. /\ Tree /\ Stack /\ Elsewhere /\ Paths /\ frames \in Seq(FrameType)  BY <1>1, InvIs
<1>7. /\ \A k \in 1 .. n : PortOf(n) \notin Way(PosOf(k)) /\ ~Rereset(k)
      /\ \A k \in 1 .. n - 1 : Waits(k)
      /\ InHand(PortOf(n)) /\ \A q : ~Cleared(q)
  BY <1>1, ChangedSite
<1>8. PICK f \in FrameType : Goes(f) /\ f.proc = Top.proc /\ f.at = "failed" /\ f.dev = Top.dev /\ f.port = Top.port /\ f.n = Top.n
  BY <1>1, <1>4, GotoPick
<1>9. PosStay /\ Live' = Live  BY <1>1 DEF PosStay, Live
<1>10. \A q : InHand(q) => InHand(q)'
  <2>1. Stays(f)  BY <1>6, <1>8, BothStay
  <2> QED  BY <1>6, <1>9, <2>1, HandsStay
<1>11. \A k \in 1 .. n - 1 : frames'[k] = frames[k] /\ k \in 1 .. n  BY <1>1, <1>8 DEF Goes, Lower
<1>12. \A k \in 1 .. n : Open(k)'
  <2> SUFFICES ASSUME NEW k \in 1 .. n  PROVE Open(k)'
    OBVIOUS
  <2>1. Settled(PosOf(k)) /\ PortOf(n) \notin Way(PosOf(k))  BY <1>1, <1>6, <1>7 DEF Paths, Open
  <2>2. PosOf(k)' = PosOf(k) /\ ~Rereset(k)'
    <3>1. CASE k = n  BY <1>5, <3>1 DEF Rereset
    <3>2. CASE k \in 1 .. n - 1  BY <1>1, <1>7, <1>11, <3>2 DEF PosOf, Rereset
    <3> QED  BY <1>1, <3>1, <3>2
  <2> QED  BY <1>3, <2>1, <2>2 DEF Open, Settled, Way
<1>13. \A k \in 1 .. n - 1 : Waits(k)'
  <2> SUFFICES ASSUME NEW k \in 1 .. n - 1  PROVE Waits(k)'
    OBVIOUS
  <2>1. Waits(k) /\ ~Rereset(k) /\ frames'[k] = frames[k]  BY <1>7, <1>11
  <2>2. PosOf(k)' = PosOf(k) /\ PortOf(k)' = PortOf(k) /\ On(k)' = On(k)  BY <1>1, <2>1 DEF PosOf, PortOf, On
  <2>3. PosOf(k) # << >> => PosOf(k) # PortOf(n)
    <3>1. PosOf(k) \in Seq(Nat) /\ PortOf(n) \notin Way(PosOf(k))  BY <1>1, <1>7, <1>11, PlaceIs
    <3> QED  BY <3>1, WayEnds
  <2>4. \A q : q # PortOf(n) => Up(q)' = Up(q)  BY <1>3 DEF Up
  <2>5. PosOf(k) # << >> => \A q : q = PosOf(k) => Up(q)' = Up(q)  BY <2>3, <2>4
  <2> QED  BY <1>1, <1>3, <2>1, <2>2, <2>5 DEF Waits, Rereset
<1>14. Knows(n)'
  <2>1. PortOf(n) \notin connChange /\ PortOf(n) \in plugged /\ On(n) = Null /\ gaveUp  BY <1>1 DEF Knows, KnowsChanged
  <2>3. KnowsChanged(n)'  BY <1>1, <1>3, <1>5, <2>1 DEF KnowsChanged
  <2> QED  BY <1>5, <2>3, KnowsIs
<1>15. Off'
  <2> SUFFICES ASSUME NEW d \in Live, NEW q, q = dev[d].pos, Way(q) \ {q} \subseteq enabled', q \notin enabled', q # <<>>
               PROVE  q \in connChange \cup enableChange \/ InHand(q)'
    BY <1>1, <1>3, <1>9 DEF Off, Way
  <2>1. CASE q = PortOf(n)  BY <1>7, <1>10, <2>1
  <2>2. CASE q # PortOf(n)
    <3>1. Way(q) \ {q} \subseteq enabled /\ q \notin enabled  BY <1>3, <2>2
    <3>2. q \in connChange \cup enableChange \/ InHand(q)
      BY <1>6, <1>7, <3>1 DEF Elsewhere, Off
    <3> QED  BY <1>10, <3>2
  <2> QED  BY <2>1, <2>2
<1>16. Seen'
  <2> SUFFICES ASSUME NEW d \in Live  PROVE SeenOf(d)'
    BY <1>1, <1>3, <1>9 DEF Seen
  <2> SUFFICES ASSUME dev[d].hub, Way(dev[d].pos) \subseteq enabled', NEW i \in 1 .. dev[d].maxChildren,
                      NEW p, p = Append(dev[d].pos, i), p \notin connChange, ~InHand(p)'
               PROVE  /\ dev[d].children[i] # Null => p \in plugged
                      /\ p \in plugged /\ ~gaveUp => dev[d].children[i] # Null
    BY <1>1, <1>3, <1>9 DEF SeenOf, Way
  <2>1. SeenOf(d)  BY <1>6 DEF Elsewhere, Seen
  <2>2. ~InHand(p) /\ Way(dev[d].pos) \subseteq enabled
    BY <1>3, <1>10
  <2> QED  BY <2>1, <2>2 DEF SeenOf
<1>17. enabled' \subseteq plugged /\ connChange' \subseteq Ports /\ enableChange' \subseteq enableChange
       /\ UNCHANGED <<dev, devices, gaveUp, status, plugged>> /\ result' = "ok"
  BY <1>1, <1>3 DEF TypeOK
<1> QED  BY <1>1, <1>4, <1>12, <1>13, <1>14, <1>15, <1>16, <1>17, PortsChange

-----------------------------------------------------------------------------
(* The reset of a port.                                                    *)
LEMMA NoneBelowBare ==
  ASSUME TypeOK, Tree, NEW e \in Live, Bare(e), dev[e].pos # << >>, NEW d \in Live, dev[e].pos \in Way(dev[d].pos)
  PROVE  d = e
<1> DEFINE p == dev[e].pos
           q == dev[d].pos
<1>1. p \in Seq(Nat) /\ q \in Seq(Nat) /\ p \in Way(q) /\ Len(p) \in Nat /\ Len(q) \in Nat
  BY LiveIs, DeviceIs
<1> SUFFICES ASSUME p # q  PROVE FALSE
  BY DEF Tree, OnePlace
<1>2. Len(p) \in 1 .. Len(q) /\ Len(p) # Len(q)  BY <1>1, WayIs
<1> DEFINE l == Len(p) + 1
           r == SubSeq(q, 1, l)
<1>3. l \in 1 .. Len(q)
  <2> HIDE DEF p, q
  <2> QED  BY <1>1, <1>2
<1>4. r \in Way(q) /\ Len(r) = l /\ r \in Seq(Nat) /\ r # << >>
  <2>1. r \in Way(q)  BY <1>3 DEF Way
  <2> HIDE DEF l, p, q
  <2>2. Len(r) = l /\ r \in Seq(Nat)  BY <1>1, <1>3, PrefixIs
  <2>3. r # << >>  BY <1>1, <2>1, WayIs
  <2> QED  BY <2>1, <2>2, <2>3
<1>5. p \in Way(r)
  <2>1. Len(p) <= Len(r)  BY <1>1, <1>4
  <2> HIDE DEF p, q, r, l
  <2> QED  BY <1>1, <1>4, <2>1, OneWay
<1>6. PICK c \in Live : dev[c].pos = r  BY <1>4, WayIsTaken
<1>7. PICK h \in Live : \E i \in PortNums :
           /\ dev[h].children[i] = c /\ dev[c].pos = Append(dev[h].pos, i) /\ i \in 1 .. dev[h].maxChildren
           /\ Way(dev[c].pos) = Way(dev[h].pos) \cup {dev[c].pos} /\ dev[c].pos \notin Way(dev[h].pos)
           /\ Len(dev[c].pos) = Len(dev[h].pos) + 1
  <2>1. dev[c].pos # << >>  BY <1>4, <1>6
  <2> QED  BY <2>1, HookIs
<1>8. p \in Way(dev[h].pos) /\ Len(r) = Len(dev[h].pos) + 1 /\ dev[h].maxChildren # 0
  <2>1. Way(r) = Way(dev[h].pos) \cup {r} /\ Len(r) = Len(dev[h].pos) + 1 /\ dev[h].maxChildren # 0
    <3>1. PICK i \in PortNums : i \in 1 .. dev[h].maxChildren  BY <1>7
    <3>2. dev[h].maxChildren \in Nat  BY LiveIs, DeviceIs
    <3>3. dev[h].maxChildren # 0  BY <3>1, <3>2
    <3> QED  BY <1>6, <1>7, <3>3
  <2>2. p # r  BY <1>1, <1>4
  <2> QED  BY <1>5, <2>1, <2>2
<1>9. dev[h].pos \in Seq(Nat) /\ Len(dev[h].pos) \in Nat  BY LiveIs, DeviceIs
<1>10. p = dev[h].pos
  <2> DEFINE s == dev[h].pos
  <2>1. s \in Seq(Nat) /\ Len(s) \in Nat /\ p \in Way(s) /\ Len(r) = Len(s) + 1  BY <1>8, <1>9
  <2> HIDE DEF p, s, r
  <2>2. Len(p) = Len(s)  BY <1>1, <1>4, <2>1
  <2> QED  BY <2>1, <2>2, WayIs DEF s
<1>11. h = e  BY <1>10 DEF Tree, OnePlace
<1> QED  BY <1>8, <1>11 DEF Bare

LEMMA ResetSite ==
  ASSUME TreeInv, frames # << >>, NEW n, n = Len(frames), Top.proc = "PortReset", NEW p, p = PortOf(n)
  PROVE  /\ \A k \in 1 .. n : p \notin Way(PosOf(k)) \/ (k \in 1 .. n - 1 /\ Rereset(k) /\ PosOf(k) = p)
         /\ \A k \in 1 .. n - 1 : /\ frames[k].proc = "ConnectionChanged" => PortOf(k) \in Way(p)
                                  /\ Waits(k)
         /\ \A d \in Live : p \in Way(dev[d].pos) => dev[d].pos = p /\ Bare(d) /\ InHand(p)
<1>1. /\ Types /\ Tree /\ Stack /\ Knowledge /\ n \in Nat \ {0} /\ n \in 1 .. Len(frames) /\ Top = frames[n] /\ TypeOK
      /\ frames \in Seq(FrameType)
      /\ \A k \in 1 .. n - 1 : k \in 1 .. Len(frames) /\ Calls(k) /\ Knows(k)
  BY InvIs
<1>2. \A j \in 1 .. n - 1 : ~Climbing(j)  BY <1>1, NoneClimbs DEF Stack
<1>3. n # 1  BY <1>1 DEF Stack, First
<1>4. n - 1 \in 1 .. n - 1 /\ (n - 1) + 1 = n /\ n - 1 \in 1 .. Len(frames)  BY <1>1, <1>3
<1> DEFINE m == n - 1
<1>5. m \in 1 .. n - 1 /\ m + 1 = n /\ m \in 1 .. Len(frames) /\ m \in Nat  BY <1>1, <1>4
<1>6. Calls(m) /\ Knows(m) /\ Down(m)
  <2>1. \A j \in 1 .. m : j \in 1 .. n - 1  OBVIOUS
  <2> QED  BY <1>1, <1>2, <1>5, <2>1 DEF Down
<1> HIDE DEF m
<1>7. p \in Ports /\ p \in Seq(Nat) /\ p # << >> /\ Way(p) = Way(PosOf(n)) \cup {p} /\ p \notin Way(PosOf(n)) /\ p \in Way(p)
  BY <1>1, PortOfIs, PositionIs, WayEnds DEF OnPort
<1>8. \/ frames[m].proc = "ConnectionChanged" /\ frames[m].at = "was_reset" /\ frames[m].dev = Top.dev /\ frames[m].port = Top.port
      \/ frames[m].proc = "Attach" /\ frames[m].at = "rereset" /\ p = PosOf(m)
  BY <1>1, <1>5, <1>6 DEF Calls
<1>9. \A k \in 1 .. n : k = n \/ k = m \/ k \in 1 .. m - 1  BY <1>1, <1>5
<1>90. \A k \in 1 .. n - 1 : k = m \/ k \in 1 .. m - 1  BY <1>1, <1>5
<1>91. \A k \in 1 .. m - 1 : k \in 1 .. m /\ k \in 1 .. n - 1 /\ k \in 1 .. Len(frames)  BY <1>1, <1>5
<1>10. \A k \in 1 .. n - 1 : Waits(k)
  <2> SUFFICES ASSUME NEW k \in 1 .. n - 1  PROVE Waits(k)
    OBVIOUS
  <2>1. k + 1 = n \/ k + 1 \in 1 .. n - 1  BY <1>1
  <2>2. frames[k + 1].proc # "Verify"  BY <1>1, <1>2, <2>1 DEF Climbing
  <2> QED  BY <1>1, <2>2, WaitsIs
<1>11. CASE frames[m].proc = "ConnectionChanged" /\ frames[m].at = "was_reset" /\ frames[m].dev = Top.dev /\ frames[m].port = Top.port
  <2>1. PosOf(m) = PosOf(n) /\ PortOf(m) = p  BY <1>1, <1>11 DEF PosOf, PortOf
  <2>2. \A k \in 1 .. m : p \notin Way(PosOf(k))  BY <1>1, <1>5, <1>6, <1>11, <2>1, NoneBehind DEF OnPort
  <2>3. \A k \in 1 .. n : p \notin Way(PosOf(k))
    <3>1. \A k \in 1 .. n : k = n \/ k \in 1 .. m  BY <1>1, <1>5
    <3> QED  BY <1>7, <2>2, <3>1
  <2>4. ASSUME NEW k \in 1 .. n - 1, frames[k].proc = "ConnectionChanged"  PROVE PortOf(k) \in Way(p)
    <3>1. CASE k = m  BY <1>7, <2>1, <3>1
    <3>2. CASE k \in 1 .. m - 1
      <4>1. PortOf(k) \in Way(PosOf(m))  BY <1>1, <1>5, <1>6, <2>4, <3>2, HandsAbove
      <4> QED  BY <1>7, <2>1, <4>1
    <3> QED  BY <1>90, <3>1, <3>2
  <2>5. On(m) = Null  BY <1>6, <1>11 DEF Knows, KnowsChanged
  <2>6. \A d \in Live : dev[d].pos # p  BY <1>1, <1>5, <1>11, <2>1, <2>5, OnIsThere DEF OnPort
  <2>7. \A d \in Live : p \notin Way(dev[d].pos)  BY <1>1, <2>6, WayIsTaken
  <2> QED  BY <1>10, <2>3, <2>4, <2>7
<1>12. CASE frames[m].proc = "Attach" /\ frames[m].at = "rereset" /\ p = PosOf(m)
  <2>1. /\ m # 1 => /\ m - 1 \in 1 .. Len(frames) - 1 /\ frames[m - 1].proc = "ConnectionChanged"
                    /\ PosOf(m) = PortOf(m - 1)
        /\ m = 1 => frames[m].dev = 1
        /\ \A k \in 1 .. m - 1 : PosOf(m) \notin Way(PosOf(k))
    BY <1>1, <1>5, <1>6, <1>12, AttachAlone
  <2>2. m # 1  BY <1>1, <1>7, <1>12, <2>1 DEF PosOf, Tree, Rooted
  <2>3. Rereset(m)  BY <1>12 DEF Rereset
  <2>4. \A k \in 1 .. n : p \notin Way(PosOf(k)) \/ (k \in 1 .. n - 1 /\ Rereset(k) /\ PosOf(k) = p)
    BY <1>5, <1>7, <1>9, <1>12, <2>1, <2>3
  <2>5. ASSUME NEW k \in 1 .. n - 1, frames[k].proc = "ConnectionChanged"  PROVE PortOf(k) \in Way(p)
    <3>1. k \in 1 .. m - 1  BY <1>12, <1>90, <2>5
    <3> QED  BY <1>1, <1>5, <1>6, <1>12, <2>5, <3>1, HandsAbove
  <2>6. InHand(p)
    <3>1. m - 1 \in 1 .. Len(frames)  BY <1>1, <2>1, <2>2
    <3> QED  BY <1>12, <2>1, <2>2, <3>1 DEF InHand
  <2>7. ASSUME NEW d \in Live, p \in Way(dev[d].pos)  PROVE dev[d].pos = p /\ Bare(d)
    <3>1. frames[m].dev \in Live  BY <1>1, <1>5, PlaceIs
    <3>2. Bare(frames[m].dev) /\ dev[frames[m].dev].pos = p
      <4>1. frames[m].at # "end"  BY <1>12
      <4> QED  BY <1>6, <1>12, <4>1 DEF Knows, KnowsAttach, PosOf
    <3>3. d = frames[m].dev  BY <1>1, <1>7, <2>7, <3>1, <3>2, NoneBelowBare
    <3> QED  BY <3>2, <3>3
  <2> QED  BY <1>10, <2>4, <2>5, <2>6, <2>7
<1> QED  BY <1>8, <1>11, <1>12

LEMMA AnswerReset ==
  ASSUME TreeInv, Answer, NEW n, n = Len(frames), Top.proc = "PortReset", Top.at = "set"
  PROVE  TreeInv'
<1>1. /\ Sending /\ frames # << >> /\ Types /\ TypeOK /\ n \in Nat \ {0} /\ n \in 1 .. Len(frames) /\ Top = frames[n] /\ Knows(n)
      /\ Goto(Request[4]) /\ result' = "ok" /\ UNCHANGED <<dev, devices, plugged, gaveUp>> /\ PortPos = PortOf(n)
      /\ PortOf(n) \in Ports
  BY AnswerIs DEF OnPort
<1>2. Request[3] = "port_reset" /\ Request[4] = "was_set"  BY <1>1, SendersAre
<1>3. PICK p : p = PortOf(n)  OBVIOUS
<1>4. status' = status /\ \E works \in BOOLEAN : Reset(p, works)  BY <1>1, <1>2, <1>3 DEF Answer
<1>5. /\ enabled' \subseteq plugged /\ connChange' \subseteq Ports /\ enableChange' \subseteq enableChange
      /\ \A q : q \in enabled' => q \in enabled \/ q = p
      /\ \A q : q \in enabled /\ q \notin Below(p) /\ q # p => q \in enabled'
      /\ \A q : q \in connChange' <=> (q \in connChange /\ q \notin Below(p)) \/ (q \in Below(p) /\ q \in plugged)
      /\ \A q : q \in enableChange /\ q \notin Below(p) => q \in enableChange'
  <2>1. enabled \subseteq plugged /\ connChange \subseteq Ports /\ plugged \subseteq Ports  BY <1>1 DEF TypeOK
  <2>2. PICK works \in BOOLEAN : Reset(p, works)  BY <1>4
  <2> QED  BY <2>1, <2>2 DEF Reset
<1>6. Goto("was_set") /\ "was_set" \in Places[Top.proc]  BY <1>1, <1>2 DEF Places
<1>7. /\ frames'[n].proc = "PortReset" /\ frames'[n].at = "was_set" /\ frames'[n].dev = Top.dev
      /\ IsTop(n)' /\ PosOf(n)' = PosOf(n) /\ PortOf(n)' = p /\ On(n)' = On(n) /\ ~GotError(n)'
  <2>1. /\ frames'[n].proc = Top.proc /\ frames'[n].at = "was_set" /\ frames'[n].dev = Top.dev
        /\ IsTop(n)' /\ ~Asking(n)' /\ PosOf(n)' = PosOf(n) /\ PortOf(n)' = PortOf(n) /\ On(n)' = On(n)
    BY <1>1, <1>6, GotoTo
  <2> QED  BY <1>1, <1>3, <2>1 DEF GotError
<1>8. /\ Tree /\ Stack /\ Elsewhere /\ Paths /\ frames \in Seq(FrameType)  BY <1>1, InvIs
<1>9. /\ \A k \in 1 .. n : p \notin Way(PosOf(k)) \/ (k \in 1 .. n - 1 /\ Rereset(k) /\ PosOf(k) = p)
      /\ \A k \in 1 .. n - 1 : (frames[k].proc = "ConnectionChanged" => PortOf(k) \in Way(p)) /\ Waits(k)
      /\ \A d \in Live : p \in Way(dev[d].pos) => dev[d].pos = p /\ Bare(d) /\ InHand(p)
  BY <1>1, <1>3, ResetSite
<1>10. PICK f \in FrameType : Goes(f) /\ f.proc = Top.proc /\ f.at = "was_set" /\ f.dev = Top.dev /\ f.port = Top.port /\ f.n = Top.n
  BY <1>1, <1>6, GotoPick
<1>11. PosStay /\ Live' = Live  BY <1>1 DEF PosStay, Live
<1>12. \A q : InHand(q) => InHand(q)'
  <2>1. Stays(f)  BY <1>8, <1>10, BothStay
  <2> QED  BY <1>8, <1>11, <2>1, HandsStay
<1>13. \A k \in 1 .. n - 1 : frames'[k] = frames[k] /\ k \in 1 .. n  BY <1>1, <1>10 DEF Goes, Lower
<1>14. p \in Ports /\ p \in Seq(Nat) /\ p \in Way(p) /\ p # << >>  BY <1>1, <1>3, PortOfIs, PositionIs, WayEnds DEF OnPort
<1>15. \A q : p \notin Way(q) \/ q = p => q \notin Below(p)
  <2>1. \A q \in Ports : q \in Below(p) <=> p \in Way(q) /\ q # p  BY <1>14, BelowIs
  <2> QED  BY <2>1 DEF Below
<1>16. \A q \in Seq(Nat) : p \notin Way(q) \/ q = p => \A r \in Way(q) : r \notin Below(p)
  <2> SUFFICES ASSUME NEW q \in Seq(Nat), p \notin Way(q) \/ q = p, NEW r \in Way(q), r \in Below(p)  PROVE FALSE
    OBVIOUS
  <2>1. p \in Way(r) /\ r # p  BY <1>14, BelowIs DEF Below
  <2>2. p \in Way(q)  BY <2>1, WayOfWay
  <2>3. r \in Way(p)  BY <2>2
  <2>4. /\ Len(r) \in 1 .. Len(p) /\ r \in Seq(Nat) /\ (Len(r) = Len(p) => r = p)  BY <1>14, <2>3, WayIs
  <2>5. Len(p) \in 1 .. Len(r)  BY <2>1, <2>4, WayIs
  <2> DEFINE i == Len(p)
             j == Len(r)
  <2>6. i \in Nat /\ j \in Nat /\ i \in 1 .. j /\ j \in 1 .. i  BY <1>14, <2>4, <2>5
  <2> HIDE DEF i, j
  <2>7. i = j  BY <2>6
  <2> QED  BY <2>1, <2>4, <2>7 DEF i, j
<1>17. \A q : Reports(q) => Reports(q)'  BY <1>1, <1>5 DEF Reports
<1>18. \A k \in 1 .. n : Open(k)'
  <2> SUFFICES ASSUME NEW k \in 1 .. n  PROVE Open(k)'
    OBVIOUS
  <2>0. PICK q \in Seq(Nat) : q = PosOf(k)  BY <1>1, PlaceIs
  <2>1. Open(k) /\ (p \notin Way(q) \/ (k \in 1 .. n - 1 /\ Rereset(k) /\ q = p))  BY <1>1, <1>8, <1>9, <2>0 DEF Paths
  <2>2. PosOf(k)' = q /\ (Rereset(k)' <=> Rereset(k))
    <3>1. CASE k = n  BY <1>1, <1>7, <2>0, <3>1 DEF Rereset
    <3>2. CASE k \in 1 .. n - 1  BY <1>1, <1>13, <2>0, <3>2 DEF PosOf, Rereset
    <3> QED  BY <1>1, <3>1, <3>2
  <2>3. \A r \in Way(q) : r \notin Below(p)  BY <1>16, <2>1
  <2>4. \A r \in Way(q) : r \notin connChange => r \notin connChange'  BY <1>5, <2>3
  <2>5. \A r \in Way(q) : r \in enabled /\ r # p => r \in enabled'  BY <1>5, <2>3
  <2>6. CASE Rereset(k)
    <3>1. q # << >> /\ Way(q) \ {q} \subseteq enabled /\ Way(q) \cap connChange = {}  BY <2>0, <2>1, <2>6 DEF Open
    <3>2. \A r \in Way(q) \ {q} : r # p  BY <2>1
    <3>3. Way(q) \ {q} \subseteq enabled' /\ Way(q) \cap connChange' = {}  BY <2>4, <2>5, <3>1, <3>2
    <3> QED  BY <2>2, <2>6, <3>1, <3>3 DEF Open, Way
  <2>7. CASE ~Rereset(k)
    <3>1. Way(q) \subseteq enabled \ connChange /\ p \notin Way(q)  BY <2>0, <2>1, <2>7 DEF Open, Settled
    <3>2. Way(q) \subseteq enabled' \ connChange'  BY <2>4, <2>5, <3>1
    <3> QED  BY <2>2, <2>7, <3>2 DEF Open, Settled, Way
  <2> QED  BY <2>6, <2>7
<1>19. \A k \in 1 .. n - 1 : Waits(k)'
  <2> SUFFICES ASSUME NEW k \in 1 .. n - 1  PROVE Waits(k)'
    OBVIOUS
  <2>1. Waits(k) /\ frames'[k] = frames[k] /\ k \in 1 .. n  BY <1>9, <1>13
  <2>2. PosOf(k)' = PosOf(k) /\ PortOf(k)' = PortOf(k) /\ On(k)' = On(k) /\ \A d : Bare(d)' = Bare(d)
    BY <1>1, <2>1 DEF PosOf, PortOf, On, Bare
  <2>3. frames[k].proc = "ConnectionChanged" => PortOf(k) \notin connChange'
    <3>1. frames[k].proc = "ConnectionChanged" => PortOf(k) \in Way(p) /\ PortOf(k) \notin connChange
      BY <1>9, <2>1 DEF Waits
    <3>2. \A r \in Way(p) : r \notin Below(p)  BY <1>14, <1>16
    <3> QED  BY <1>5, <3>1, <3>2
  <2>4. PICK q \in Seq(Nat) : q = PosOf(k)  BY <1>1, <2>1, PlaceIs
  <2>5. ~Rereset(k) /\ q # << >> /\ Up(q) => Up(q)'
    <3> SUFFICES ASSUME ~Rereset(k), q # << >>, Up(q)  PROVE Up(q)'
      OBVIOUS
    <3>1. p \notin Way(q)  BY <1>9, <2>1, <2>4
    <3>2. q \in Way(q)  BY <2>4, WayEnds
    <3>3. q \notin Below(p) /\ q # p  BY <1>15, <3>1, <3>2
    <3> QED  BY <1>4, <1>5, <3>3 DEF Up
  <2>6. Reports(q) => Reports(q)'  BY <1>17
  <2>7. frames[k].proc = "Attach" =>
          /\ q # <<>> => dev[frames[k].dev].parent # Null /\ q \in plugged
          /\ \/ /\ frames[k].at = "rereset" /\ Bare(frames[k].dev) /\ Reports(q)' /\ dev[frames[k].dev].number = 0 /\ frames[k].n \in Slots
                /\ devices[frames[k].n] = frames[k].dev /\ dev[frames[k].dev].status \in {"Attached", "Powered", "Default"}
             \/ frames[k].at = "end" /\ (q # <<>> => Up(q)') /\ dev[frames[k].dev].number # 0 /\ dev[frames[k].dev].status \in Done
    BY <2>1, <2>4, <2>5, <2>6 DEF Waits, Rereset
  <2> QED  BY <1>1, <2>1, <2>2, <2>3, <2>4, <2>7 DEF Waits
<1>20. Knows(n)'
  <2>1. p \in plugged /\ p \notin connChange  BY <1>1, <1>3 DEF Knows, KnowsReset
  <2>2. p \notin connChange'  BY <1>5, <1>15, <2>1
  <2>3. Reports(p)'  BY <1>1, <1>5 DEF Reports
  <2>4. KnowsReset(n)'  BY <1>1, <1>7, <2>1, <2>2, <2>3 DEF KnowsReset
  <2> QED  BY <1>7, <2>4, KnowsIs
<1>21. \A q : ~Cleared(q)  BY <1>1 DEF Cleared
<1>22. Off'
  <2> SUFFICES ASSUME NEW d \in Live, NEW q, q = dev[d].pos, Way(q) \ {q} \subseteq enabled', q \notin enabled', q # <<>>
               PROVE  q \in connChange' \cup enableChange' \/ InHand(q)'
    BY <1>1, <1>11 DEF Off, Way
  <2>1. q \in Seq(Nat) /\ q \in Way(q)
    <3>1. q \in Seq(Nat)  BY <1>1, LiveIs, DeviceIs
    <3> QED  BY <3>1, WayEnds
  <2>2. CASE p \in Way(q)
    <3>1. q = p /\ InHand(p)  BY <1>9, <2>2
    <3> QED  BY <1>12, <3>1
  <2>3. CASE p \notin Way(q)
    <3>1. Way(q) \ {q} \subseteq enabled  BY <1>5, <2>3
    <3>2. q # p /\ q \notin Below(p)  BY <1>15, <2>1, <2>3
    <3>3. q \notin enabled  BY <1>5, <3>2
    <3>4. q \in connChange \cup enableChange \/ InHand(q)  BY <1>8, <1>21, <3>1, <3>3 DEF Elsewhere, Off
    <3> QED  BY <1>5, <1>12, <3>2, <3>4
  <2> QED  BY <2>2, <2>3
<1>23. Seen'
  <2> SUFFICES ASSUME NEW d \in Live, dev[d].hub, Way(dev[d].pos) \subseteq enabled', NEW i \in 1 .. dev[d].maxChildren,
                      NEW r, r = Append(dev[d].pos, i), r \notin connChange', ~InHand(r)'
               PROVE  /\ dev[d].children[i] # Null => r \in plugged
                      /\ r \in plugged /\ ~gaveUp => dev[d].children[i] # Null
    BY <1>1, <1>11 DEF Seen, SeenOf, Way
  <2>1. SeenOf(d)  BY <1>8 DEF Elsewhere, Seen
  <2>2. p \notin Way(dev[d].pos)  BY <1>9 DEF Bare
  <2>3. Way(dev[d].pos) \subseteq enabled  BY <1>5, <2>2
  <2>4. r \notin Below(p)
    <3>1. d \in DevIds /\ dev[d].pos \in Seq(Nat) /\ dev[d].maxChildren \in Nat  BY <1>1, LiveIs, DeviceIs
    <3>2. Way(r) = Way(dev[d].pos) \cup {r}
      <4>1. i \in Nat  BY <3>1
      <4> QED  BY <3>1, <4>1, WayGoesOn
    <3>3. p \notin Way(r) \/ r = p  BY <2>2, <3>2
    <3> QED  BY <1>15, <3>3
  <2>5. r \notin connChange /\ ~InHand(r)  BY <1>5, <1>12, <2>4
  <2> QED  BY <2>1, <2>3, <2>5 DEF SeenOf
<1>24. UNCHANGED <<dev, devices, gaveUp, status, plugged>> /\ result' = "ok"  BY <1>1, <1>4
<1> QED  BY <1>1, <1>5, <1>6, <1>18, <1>19, <1>20, <1>22, <1>23, <1>24, PortsChange

LEMMA AnswerKeeps == ASSUME TreeInv, Answer, NEW n, n = Len(frames) PROVE TreeInv'
<1>1. Sending  BY DEF Answer
<1>2. \/ Top.proc = "CheckConnection"
      \/ Top.proc = "ConnectionChanged" /\ Top.at \in {"status", "status_new"}
      \/ Top.proc = "ConnectionChanged" /\ Top.at = "clear"
      \/ Top.proc = "ConnectionChanged" /\ Top.at = "disable"
      \/ Top.proc = "PortReset" /\ Top.at \in {"wait", "clear"}
      \/ Top.proc = "PortReset" /\ Top.at = "set"
      \/ Top.proc = "Attach"
      \/ Top.proc = "HubAttach"
  BY <1>1, SendersAre
<1> QED  BY <1>2, AnswerCheck, AnswerChangedRead, AnswerClear, AnswerDisable, AnswerResetRead, AnswerReset, AnswerAttach, AnswerHub

-----------------------------------------------------------------------------
(* A request that fails.                                                   *)

(* Ports change only when no call is under way, and the change of a port   *)
(* is read and cleared when it is asked for.                               *)
Survives == ~MayVanish /\ {"clear_connection", "port_status_changed"} \cap Fragile = {}

LEMMA FailIs ==
  ASSUME Survives, TreeInv, Fail, NEW n, n = Len(frames)
  PROVE  /\ Sending /\ frames # << >> /\ Here.pos # << >> /\ Request[3] \in Fragile /\ (gaveUp => gaveUp')
         /\ Request[3] \in GivesUp => gaveUp'
         /\ UNCHANGED <<dev, devices, status, hardware>>
<1>1. Sending /\ Here.pos # << >> /\ UNCHANGED <<dev, devices, status, hardware>>  BY DEF Fail
<1>2. frames # << >>  BY <1>1, RequestIs
<1>3. Types /\ n \in 1 .. Len(frames) /\ Top = frames[n] /\ Open(n) /\ Here.pos = PosOf(n)  BY <1>2, InvIs
<1>4. ~Rereset(n)
  <2>1. <<Top.proc, Top.at>> # <<"Attach", "rereset">>  BY <1>1, SendersAre
  <2> QED  BY <1>3, <2>1 DEF Rereset
<1>5. Reachable(Here.pos)
  <2>1. Way(PosOf(n)) \subseteq enabled  BY <1>3, <1>4 DEF Open, Settled
  <2>2. PosOf(n) \in Positions  BY <1>3, PlaceIs
  <2> QED  BY <1>3, <2>1, <2>2, ReachableIs
<1>6. Request[3] \in Fragile /\ gaveUp' = (gaveUp \/ Request[3] \in GivesUp)  BY <1>5 DEF Fail
<1> QED  BY <1>1, <1>2, <1>6

(* What the call knows when its request has failed, or is looked into.     *)
LEMMA FailKnows ==
  ASSUME Survives, TreeInv, Fail, NEW n, n = Len(frames),
         frames'[n].proc = Top.proc, frames'[n].at = Request[4], frames'[n].dev = Top.dev, frames'[n].n = Top.n,
         PosOf(n)' = PosOf(n), PortOf(n)' = PortOf(n), On(n)' = On(n), ~GotOK(n)'
  PROVE  Knows(n)'
<1>1. /\ Sending /\ frames # << >> /\ Here.pos # << >> /\ Request[3] \in Fragile /\ (gaveUp => gaveUp')
      /\ Request[3] \in GivesUp => gaveUp'
      /\ UNCHANGED <<dev, devices, status, plugged, enabled, connChange, enableChange>>
  BY FailIs DEF hardware
<1>2. n \in 1 .. Len(frames) /\ Top = frames[n] /\ Knows(n) /\ Here.pos = PosOf(n) /\ IsTop(n)  BY <1>1, InvIs
<1>3. \A q, d : Up(q)' = Up(q) /\ Bare(d)' = Bare(d) /\ Reports(q)' = Reports(q)
  BY <1>1 DEF Up, Bare, Reports
<1>4. CASE Top.proc = "CheckConnection"
  <2>1. \/ Top.at = "status" /\ Request[4] = "got"
        \/ Top.at = "clear_enable" /\ Request[4] = "interference"
        \/ Top.at = "clear" /\ Request[4] = "done"
    BY <1>1, <1>4, SendersAre
  <2>2. KnowsCheck(n)  BY <1>2 DEF Knows
  <2>3. KnowsCheck(n)'
    <3>1. CASE Top.at = "status" /\ Request[4] = "got"  BY <3>1 DEF KnowsCheck
    <3>2. CASE Top.at = "clear_enable" /\ Request[4] = "interference"  BY <1>1, <1>2, <1>4, <2>2, <3>2 DEF KnowsCheck
    <3>3. CASE Top.at = "clear" /\ Request[4] = "done"  BY <1>1, <1>2, <1>4, <2>2, <3>3 DEF KnowsCheck
    <3> QED  BY <2>1, <3>1, <3>2, <3>3
  <2> QED  BY <1>4, <2>3, KnowsIs
<1>5. CASE Top.proc = "ConnectionChanged"
  <2>1. \/ Top.at = "status_new" /\ Request[4] = "got_new" /\ Request[3] = "port_status_new"
        \/ Top.at = "disable" /\ Request[4] = "failed"
    <3>1. Request[3] \notin {"clear_connection", "port_status_changed"}  BY <1>1 DEF Survives
    <3> QED  BY <1>1, <1>5, <3>1, SendersAre
  <2>2. KnowsChanged(n)  BY <1>2 DEF Knows
  <2>3. KnowsChanged(n)'
    <3>1. CASE Top.at = "status_new" /\ Request[4] = "got_new" /\ Request[3] = "port_status_new"
      <4>1. gaveUp'  BY <1>1, <3>1 DEF GivesUp
      <4> QED  BY <1>1, <1>2, <1>3, <1>5, <2>2, <3>1, <4>1 DEF KnowsChanged
    <3>2. CASE Top.at = "disable" /\ Request[4] = "failed"  BY <1>1, <1>2, <1>3, <1>5, <2>2, <3>2 DEF KnowsChanged
    <3> QED  BY <2>1, <3>1, <3>2
  <2> QED  BY <1>5, <2>3, KnowsIs
<1>6. CASE Top.proc = "PortReset"
  <2>1. \/ Top.at = "set" /\ Request[4] = "was_set" /\ Request[3] \in GivesUp
        \/ Top.at = "wait" /\ Request[4] = "look" /\ Request[3] \in GivesUp
        \/ Top.at = "clear" /\ Request[4] = "done"
    BY <1>1, <1>6, SendersAre DEF GivesUp
  <2>2. KnowsReset(n)  BY <1>2 DEF Knows
  <2>3. KnowsReset(n)'
    <3>1. CASE Top.at = "set" /\ Request[4] = "was_set" /\ Request[3] \in GivesUp
      BY <1>1, <1>2, <1>3, <1>6, <2>2, <3>1 DEF KnowsReset
    <3>2. CASE Top.at = "wait" /\ Request[4] = "look" /\ Request[3] \in GivesUp
      BY <1>1, <1>2, <1>3, <1>6, <2>2, <3>2 DEF KnowsReset
    <3>3. CASE Top.at = "clear" /\ Request[4] = "done"  BY <1>1, <1>2, <1>3, <1>6, <2>2, <3>3 DEF KnowsReset
    <3> QED  BY <2>1, <3>1, <3>2, <3>3
  <2> QED  BY <1>6, <2>3, KnowsIs
<1>7. CASE Top.proc = "Attach"
  <2>1. /\ \/ Top.at \in Early /\ Request[4] \in {"described", "addressed"} /\ Request[3] \in GivesUp
           \/ Top.at \in Late \ {"end"} /\ Request[4] = "described2" /\ Request[3] \in GivesUp
           \/ Top.at \in Late \ {"end"} /\ Request[4] \in {"configure", "configured", "driver"}
        /\ Top.at # "rereset"
    BY <1>1, <1>7, SendersAre DEF GivesUp, Early, Late
  <2>2. KnowsAttach(n)  BY <1>2 DEF Knows
  <2>3. /\ PosOf(n) # <<>> => dev[Top.dev].parent # Null /\ PosOf(n) \in plugged /\ Up(PosOf(n))
        /\ Bare(Top.dev) /\ Reports(PosOf(n))
        /\ Top.at \in Early => /\ dev[Top.dev].number = 0 /\ Top.n \in Slots /\ devices[Top.n] = Top.dev
                               /\ dev[Top.dev].status \in {"Attached", "Powered", "Default"}
        /\ Top.at \in Late => dev[Top.dev].number # 0 /\ dev[Top.dev].status \in Done
    <3>1. Top.at # "end"  BY <2>1 DEF Early
    <3> QED  BY <1>2, <1>7, <2>1, <2>2, <3>1 DEF KnowsAttach
  <2>4. KnowsAttach(n)'
    <3>1. CASE Top.at \in Early /\ Request[4] \in {"described", "addressed"} /\ Request[3] \in GivesUp
      <4>1. Request[4] \in Early /\ Request[4] \notin Late /\ Request[4] \notin {"begin", "rereset", "end"}
        BY <3>1 DEF Early, Late
      <4> QED  BY <1>1, <1>2, <1>3, <2>3, <3>1, <4>1 DEF KnowsAttach
    <3>2. CASE Top.at \in Late \ {"end"} /\ Request[4] \in {"described2", "configure", "configured", "driver"}
               /\ (Request[4] = "described2" => Request[3] \in GivesUp)
      <4>1. Request[4] \in Late /\ Request[4] \notin Early /\ Request[4] \notin {"begin", "rereset", "end", "described", "addressed"}
        BY <3>2 DEF Early, Late
      <4> QED  BY <1>1, <1>2, <1>3, <2>3, <3>2, <4>1 DEF KnowsAttach
    <3> QED  BY <2>1, <3>1, <3>2
  <2> QED  BY <1>7, <2>4, KnowsIs
<1>8. CASE Top.proc = "HubAttach"
  <2>1. <<Top.at, Request[4]>> \in {<<"describe", "described">>, <<"status", "got">>,
                                     <<"power", "status_again">>, <<"status_again", "got_again">>}
    BY <1>1, <1>8, SendersAre
  <2>2. KnowsHub(n)  BY <1>2 DEF Knows
  <2>3. KnowsHub(n)'  BY <1>1, <1>2, <1>3, <1>8, <2>1, <2>2 DEF KnowsHub
  <2> QED  BY <1>8, <2>3, KnowsIs
<1> QED  BY <1>1, <1>4, <1>5, <1>6, <1>7, <1>8, SendersAre

LEMMA FailKeeps == ASSUME Survives, TreeInv, Fail, NEW n, n = Len(frames) PROVE TreeInv'
<1>1. /\ Sending /\ frames # << >> /\ Here.pos # << >> /\ (gaveUp => gaveUp')
      /\ UNCHANGED <<dev, devices, status, hardware>> /\ dev' = dev
  BY FailIs
<1>2. /\ Types /\ Tree /\ TypeOK /\ n \in Nat \ {0} /\ n \in 1 .. Len(frames) /\ Top = frames[n] /\ Here = dev[Top.dev] /\ Here.pos = PosOf(n)
      /\ Top.dev \in Live /\ Top.dev \in DevIds /\ Open(n)
  BY <1>1, InvIs
<1>3. /\ Quiet /\ Calm /\ enableChange' = enableChange /\ enableChange' \subseteq enableChange
      /\ UNCHANGED <<plugged, enabled, connChange>>
  BY <1>1, StillIsCalm DEF Quiet, hardware
<1> DEFINE a == Request[4]
<1>4. /\ a \in Places[Top.proc] /\ Top.proc # "CheckForChange" /\ NotCleared
      /\ Top.proc = "Attach" => a # "rereset" /\ Top.at # "rereset" /\ (Top.at \in Early => a \in Early)
      /\ <<Top.proc, Top.at>> # <<"Attach", "rereset">>
  BY <1>1, SendersAre DEF Places, Early, Late, NotCleared
<1>5. OffKept  BY <1>3, <1>4 DEF OffKept
<1>6. CASE Goto(Request[4]) /\ result' = "error"
  <2>1. /\ frames'[n].proc = Top.proc /\ frames'[n].at = a /\ frames'[n].dev = Top.dev /\ frames'[n].n = Top.n
        /\ PosOf(n)' = PosOf(n) /\ PortOf(n)' = PortOf(n) /\ On(n)' = On(n)
    BY <1>1, <1>2, <1>4, <1>6, GotoTo
  <2>2. ~GotOK(n)'  BY <1>6 DEF GotOK
  <2>3. Knows(n)'  BY <2>1, <2>2, FailKnows
  <2> QED  BY <1>1, <1>3, <1>4, <1>5, <1>6, <2>3, GotoKeeps
<1>7. CASE /\ Here.parent # Null /\ dev[Here.parent].hub
           /\ Call(Request[4], [Frame("Verify", "check", Here.parent, Here.port) EXCEPT !.n = Top.dev])
           /\ UNCHANGED result
  <2> DEFINE g == [Frame("Verify", "check", Here.parent, Here.port) EXCEPT !.n = Top.dev]
  <2>1. /\ Here.parent \in Live /\ Here.port \in PortNums /\ dev[Here.parent].children[Here.port] = Top.dev
        /\ Here.parent \in DevIds /\ Here.port \in Nat /\ Top.dev \in Nat /\ Top.dev # Null
    <3>1. Here.parent \in Live /\ Here.port \in PortNums /\ dev[Here.parent].children[Here.port] = Top.dev
      BY <1>2, <1>7 DEF Tree, Parents
    <3>2. Here.parent \in DevIds /\ Here.port \in Nat  BY <3>1, LiveIs, PortNumIs
    <3>3. Top.dev \in Nat /\ Top.dev # Null
      <4>1. Cardinality(DevIds) \in Nat /\ DevIds = 1 .. Cardinality(DevIds)  BY BoundsAssumption, FS_CardinalityType
      <4> DEFINE c == Cardinality(DevIds)
      <4>2. c \in Nat /\ Top.dev \in 1 .. c  BY <1>2, <4>1
      <4> HIDE DEF c
      <4>3. Top.dev \in Nat  BY <4>2
      <4> QED  BY <1>2, <4>3, DeviceIs
    <3> QED  BY <3>1, <3>2, <3>3
  <2>2. g \in FrameType /\ g.proc = "Verify" /\ g.at = "check" /\ g.dev = Here.parent /\ g.port = Here.port
    <3>1. g = [proc |-> "Verify", at |-> "check", dev |-> Here.parent, port |-> Here.port, n |-> Top.dev]  BY DEF Frame
    <3>2. "Verify" \in Procs /\ "check" \in Places["Verify"]  BY DEF Places, Procs, OnPort
    <3>3. g \in FrameType  BY <2>1, <3>1, <3>2, FrameIs
    <3> QED  BY <3>1, <3>3
  <2>3. Call(a, g) /\ result' = result  BY <1>7
  <2> HIDE DEF g, a
  <2>4. PICK f \in FrameType : Makes(f, g) /\ f.proc = Top.proc /\ f.at = a /\ f.dev = Top.dev /\ f.port = Top.port /\ f.n = Top.n
    BY <1>1, <1>2, <1>4, <2>2, <2>3, CallPick
  <2>5. /\ frames'[n] = f /\ frames'[n + 1] = g /\ ~GotOK(n)'
        /\ PosOf(n)' = PosOf(n) /\ PortOf(n)' = PortOf(n) /\ On(n)' = On(n)
        /\ PosOf(n + 1)' = dev[g.dev].pos /\ PortOf(n + 1)' = Append(dev[g.dev].pos, g.port)
    BY <1>1, <1>2, <2>4, MakesTo
  <2>6. Knows(n)'  BY <2>4, <2>5, FailKnows DEF a
  <2>7. Knows(n + 1)'
    <3>1. frames'[n + 1].proc = "Verify"  BY <2>2, <2>5
    <3> QED  BY <3>1, KnowsIs
  <2>8. /\ dev[Top.dev].pos = Append(dev[Here.parent].pos, Here.port) /\ Here.port \in 1 .. dev[Here.parent].maxChildren
        /\ Way(dev[Top.dev].pos) = Way(dev[Here.parent].pos) \cup {dev[Top.dev].pos}
    <3> DEFINE h == Here.parent
    <3> DEFINE i == Here.port
    <3>1. h \in Live /\ i \in PortNums /\ dev[h].children[i] = Top.dev /\ dev[h].children[i] # Null /\ TypeOK /\ Children
      BY <1>2, <2>1 DEF Tree
    <3> HIDE DEF h, i
    <3>3. h \in Live /\ i \in PortNums /\ dev[h].children[i] # Null /\ TypeOK /\ Children  BY <3>1
    <3>4. /\ dev[dev[h].children[i]].pos = Append(dev[h].pos, i) /\ i \in 1 .. dev[h].maxChildren
          /\ Way(dev[dev[h].children[i]].pos) = Way(dev[h].pos) \cup {dev[dev[h].children[i]].pos}
      BY ONLY <3>3, LinkIs
    <3>5. dev[h].children[i] = Top.dev  BY <3>1
    <3>2. /\ dev[Top.dev].pos = Append(dev[h].pos, i) /\ i \in 1 .. dev[h].maxChildren
          /\ Way(dev[Top.dev].pos) = Way(dev[h].pos) \cup {dev[Top.dev].pos}
      BY ONLY <3>4, <3>5
    <3> QED  BY <3>2 DEF h, i
  <2>9. Calls(n)'
    <3>1. \E q \in Requests : q[1] = Top.proc /\ q[4] = Request[4]
      <4>1. Request \in Requests /\ Request[1] = Top.proc  BY <1>1, RequestIs
      <4> HIDE DEF Requests
      <4> QED  BY <4>1
    <3>2. Asked(n)'  BY <2>4, <2>5, <3>1 DEF Asked, a
    <3>3. PortOf(n + 1)' = PosOf(n)'  BY <1>2, <2>2, <2>5, <2>8, Zenon
    <3> QED  BY <2>2, <2>5, <3>2, <3>3 DEF Calls
  <2>10. Open(n + 1)'
    <3>1. ~Rereset(n)  BY <1>2, <1>4 DEF Rereset
    <3>2. Way(dev[Top.dev].pos) \subseteq enabled \ connChange  BY <1>2, <3>1 DEF Open, Settled
    <3>3. ~Rereset(n + 1)'  BY <2>2, <2>5 DEF Rereset
    <3>4. PosOf(n + 1)' = dev[Here.parent].pos  BY <2>2, <2>5
    <3> QED  BY <1>3, <2>8, <3>2, <3>3, <3>4 DEF Open, Settled, Way
  <2>11. result' \in {"ok", "error", "disconnected"}  BY <1>2, <2>3 DEF TypeOK
  <2>12. /\ f.at \in Places[f.proc] /\ f.proc # "CheckForChange"
         /\ (f.proc = "HubAttach" => f.port >= 1)
         /\ (f.proc = "Attach" => f.at # "rereset" /\ Top.at # "rereset")
         /\ (f.proc = "Attach" /\ Top.at \in Early => f.at \in Early)
    <3>1. FrameOK(n)  BY <1>1, InvIs
    <3>2. f.proc = "HubAttach" => f.port >= 1  BY <1>2, <2>4, <3>1 DEF FrameOK
    <3> QED  BY <1>4, <2>4, <3>2
  <2>13. g.at \in Places[g.proc] /\ g.dev \in Live /\ g.port \in 1 .. dev[g.dev].maxChildren
         /\ g.proc \in {"Verify", "PortReset"} /\ g.proc \in {"Verify", "CheckConnection"} /\ g.proc \notin {"HubAttach", "CheckForChange"}
    BY <2>1, <2>2, <2>8 DEF Places
  <2> QED  BY <1>3, <1>5, <2>4, <2>6, <2>7, <2>9, <2>10, <2>11, <2>12, <2>13, CallKeeps
<1> QED  BY <1>6, <1>7 DEF Fail

-----------------------------------------------------------------------------
(* A device is taken away with those behind it: none of the calls below is *)
(* for one of them.                                                        *)
LEMMA DropIs ==
  ASSUME TreeInv, frames # << >>, NEW n, n = Len(frames), Top.proc = "ConnectionChanged", On(n) # Null,
         Deallocate(Family(Child)), NEW p, p = PortOf(n)
  PROVE  Deallocate(Behind(p))
<1>1. Types /\ TypeOK /\ Tree /\ n \in 1 .. Len(frames) /\ Top = frames[n] /\ Child = On(n)  BY ChangedIs
<1>2. On(n) \in Live /\ dev[On(n)].pos = p /\ p # << >>
  <2>1. frames[n].proc \in OnPort  BY <1>1 DEF OnPort
  <2> QED  BY <1>1, <2>1, OnIsThere
<1>3. Family(On(n)) = Behind(dev[On(n)].pos)  BY <1>1, <1>2, FamilyIs
<1> QED  BY <1>1, <1>2, <1>3

LEMMA DropSite ==
  ASSUME TreeInv, frames # << >>, NEW n, n = Len(frames), Top.proc = "ConnectionChanged", NEW p, p = PortOf(n)
  PROVE  /\ p \in Ports /\ InHand(p)
         /\ \A k \in 1 .. n : frames[k].dev \in Live \ Behind(p)
         /\ \A k \in 1 .. n - 1 : frames[k].proc = "ConnectionChanged" => p \notin Way(PortOf(k)) /\ PortOf(k) # p
         /\ \A d \in Behind(p) : dev[d].number # 0 /\ d # 1
         /\ \A d \in Behind(p) : d # On(n) => dev[d].status \in Done \/ gaveUp
<1>1. /\ Types /\ TypeOK /\ Tree /\ Stack /\ n \in Nat \ {0} /\ n \in 1 .. Len(frames) /\ Top = frames[n] /\ p \in Ports /\ Down(n)
  BY ChangedIs
<1>2. frames[n].proc \in OnPort  BY <1>1 DEF OnPort
<1>3. /\ \A k \in 1 .. n : p \notin Way(PosOf(k)) /\ frames[k].dev \notin Behind(p)
      /\ \A k \in 1 .. n - 1 : frames[k].proc = "ConnectionChanged" => p \notin Way(PortOf(k))
  BY <1>1, <1>2, NoneBehind
<1>4. \A k \in 1 .. n : frames[k].dev \in Live  BY <1>1, PlaceIs
<1>5. p \in Seq(Nat) /\ p # << >>  BY <1>1, PositionIs DEF Ports
<1>6. p \in Way(p)  BY <1>5, WayEnds
<1>7. InHand(p)  BY <1>1 DEF InHand
<1>8. Elsewhere  BY InvIs
<1>9. \A k \in 1 .. n : k = n \/ k \in 1 .. n - 1  BY <1>1
<1>10. ASSUME NEW d \in Behind(p)  PROVE dev[d].number # 0 /\ d # 1 /\ (d # On(n) => dev[d].status \in Done \/ gaveUp)
  <2>1. d \in Live /\ p \in Way(dev[d].pos)  BY <1>10 DEF Behind
  <2>2. d # 1
    <3>1. Rooted  BY <1>1 DEF Tree
    <3> QED  BY <2>1, <3>1, WayOfNothing DEF Rooted
  <2>3. AddressedIs(d)  BY <1>8, <2>1 DEF Elsewhere, Addressed
  <2>4. ~EarlyNow(d)  BY <1>1, <1>3, <1>10 DEF EarlyNow
  <2>5. InHand(dev[d].pos) => d = On(n)
    <3> SUFFICES ASSUME NEW k \in 1 .. n, frames[k].proc = "ConnectionChanged", PortOf(k) = dev[d].pos  PROVE d = On(n)
      BY DEF InHand
    <3>1. k = n  BY <1>3, <1>9, <2>1
    <3> QED  BY <1>1, <1>2, <2>1, <3>1, OnIsThere
  <2> QED  BY <2>2, <2>3, <2>4, <2>5 DEF AddressedIs
<1> QED  BY <1>1, <1>3, <1>4, <1>6, <1>7, <1>10

LEMMA DropHolds ==
  ASSUME TreeInv, frames # << >>, NEW n, n = Len(frames), Top.proc = "ConnectionChanged", NEW p, p = PortOf(n),
         Deallocate(Behind(p)), Lower,
         UNCHANGED <<status, plugged, enabled, connChange, enableChange, gaveUp>>, result' \in {"ok", "error", "disconnected"},
         gaveUp \/ (On(n) # Null => dev[On(n)].status \in Done)
  PROVE  Holds
<1>1. /\ Types /\ TypeOK /\ Tree /\ Table /\ Stack /\ n \in Nat \ {0} /\ n \in 1 .. Len(frames) /\ Top = frames[n]
  BY ChangedIs
<1>2. /\ p \in Ports
      /\ \A k \in 1 .. n : frames[k].dev \in Live \ Behind(p)
      /\ \A k \in 1 .. n - 1 : frames[k].proc = "ConnectionChanged" => p \notin Way(PortOf(k)) /\ PortOf(k) # p
      /\ \A d \in Behind(p) : dev[d].number # 0
      /\ \A d \in Behind(p) : d # On(n) => dev[d].status \in Done \/ gaveUp
  BY DropSite
<1>3. /\ Live' = Live \ Behind(p) /\ dev' \in [DevIds -> DeviceType]
      /\ devices' \in [Slots -> DevIds \cup {Null}]
      /\ \A d \in DevIds \ Behind(p) :
           /\ dev'[d].status = dev[d].status /\ dev'[d].number = dev[d].number
           /\ dev'[d].parent = dev[d].parent /\ dev'[d].port = dev[d].port /\ dev'[d].pos = dev[d].pos
           /\ dev'[d].hub = dev[d].hub /\ dev'[d].maxChildren = dev[d].maxChildren
      /\ \A d \in Live' : \A i \in PortNums :
           dev'[d].children[i] = IF Append(dev[d].pos, i) = p THEN Null ELSE dev[d].children[i]
      /\ \A d \in DevIds : dev'[d].maxChildren <= PortCount[dev'[d].pos]
  BY <1>1, <1>2, DeallocateIs
<1>4. TypeOK'  BY <1>1, <1>3 DEF TypeOK
<1>5. Tree'  BY <1>1, <1>2, DeallocateKeepsTree
<1>6. Table'
  <2>1. gaveUp \/ \A d \in Behind(p) : dev[d].number # 0 /\ dev[d].status \in Done
    <3> SUFFICES ASSUME ~gaveUp, NEW d \in Behind(p)  PROVE dev[d].number # 0 /\ dev[d].status \in Done
      OBVIOUS
    <3>1. d # Null
      <4>1. d \in DevIds  BY LiveIs DEF Behind
      <4> QED  BY <1>1, <4>1, DeviceIs
    <3> QED  BY <1>2, <3>1
  <2> QED  BY <1>1, <1>2, <2>1, DeallocateKeepsTable
<1>7. \A k \in 1 .. n : frames[k].dev \in DevIds \ Behind(p) /\ frames[k].dev \in Live'  BY <1>2, <1>3, LiveIs
<1>8. PosStay  BY <1>3, <1>7 DEF PosStay
<1>9. \A k \in 1 .. n : dev'[frames[k].dev].maxChildren >= dev[frames[k].dev].maxChildren
  <2> SUFFICES ASSUME NEW k \in 1 .. n, NEW m, m = dev[frames[k].dev].maxChildren  PROVE dev'[frames[k].dev].maxChildren >= m
    OBVIOUS
  <2>1. m \in Nat  BY <1>1, <1>7, DeviceIs
  <2>2. m >= m  BY <2>1
  <2> QED  BY <1>3, <1>7, <2>2
<1>10. ASSUME NEW k \in 1 .. n - 1  PROVE Open(k)' /\ Waits(k)'
  <2>1. k \in 1 .. n /\ frames'[k] = frames[k] /\ k \in 1 .. Len(frames)  BY <1>1, <1>10 DEF Lower
  <2>2. Waits(k) /\ ~Rereset(k) /\ Open(k)
    <3>1. Open(k)  BY <2>1, InvIs DEF Paths
    <3> QED  BY <1>10, <2>1, <3>1, ChangedSite
  <2>3. frames[k].dev \in DevIds \ Behind(p) /\ frames[k].dev \in Live'  BY <1>7, <2>1
  <2>11. dev'[frames[k].dev].pos = dev[frames[k].dev].pos  BY <1>3, <2>3
  <2>4. PosOf(k)' = PosOf(k) /\ PortOf(k)' = PortOf(k) /\ ~Rereset(k)'  BY <2>1, <2>2, <2>11 DEF PosOf, PortOf, Rereset
  <2>5. Open(k)'  BY <2>2, <2>4 DEF Open, Settled
  <2>6. \A q : Up(q)' = Up(q)  BY DEF Up
  <2>7. frames[k].proc = "ConnectionChanged" =>
          On(k)' = On(k) /\ (On(k) # Null => dev'[On(k)].parent = dev[On(k)].parent)
    <3> SUFFICES ASSUME frames[k].proc = "ConnectionChanged"
                 PROVE  On(k)' = On(k) /\ (On(k) # Null => dev'[On(k)].parent = dev[On(k)].parent)
      OBVIOUS
    <3>1. frames[k].port \in PortNums /\ frames[k].proc \in OnPort  BY <1>1, <2>1, PortOfIs DEF OnPort
    <3>2. p \notin Way(PortOf(k)) /\ PortOf(k) # p  BY <1>2, <1>10
    <3>3. Append(dev[frames[k].dev].pos, frames[k].port) # p  BY <3>2, Zenon DEF PortOf, PosOf
    <3>4. dev'[frames[k].dev].children[frames[k].port] = dev[frames[k].dev].children[frames[k].port]
      BY <1>3, <2>3, <3>1, <3>3
    <3>5. On(k)' = On(k)  BY <2>1, <3>4 DEF On
    <3>6. On(k) # Null => On(k) \in Live /\ dev[On(k)].pos = PortOf(k)  BY <1>1, <2>1, <3>1, OnIsThere
    <3>7. On(k) # Null => On(k) \in DevIds \ Behind(p)  BY <3>2, <3>6, LiveIs DEF Behind
    <3> QED  BY <1>3, <3>5, <3>7
  <2>8. /\ dev'[frames[k].dev].status = dev[frames[k].dev].status /\ dev'[frames[k].dev].number = dev[frames[k].dev].number
        /\ dev'[frames[k].dev].parent = dev[frames[k].dev].parent
    BY <1>3, <2>3
  <2>9. frames[k].at # "rereset" \/ frames[k].proc # "Attach"  BY <2>2 DEF Rereset
  <2>10. Waits(k)'
    <3>1. CASE frames[k].proc = "ConnectionChanged"  BY <2>1, <2>2, <2>4, <2>7, <3>1 DEF Waits
    <3>2. CASE frames[k].proc = "Attach"  BY <2>1, <2>2, <2>4, <2>6, <2>8, <2>9, <3>2 DEF Waits
    <3>3. CASE frames[k].proc = "HubAttach"  BY <2>1, <2>2, <2>8, <3>3 DEF Waits
    <3>4. CASE frames[k].proc \notin {"ConnectionChanged", "Attach", "HubAttach"}  BY <2>1, <3>4 DEF Waits
    <3> QED  BY <3>1, <3>2, <3>3, <3>4
  <2> QED  BY <2>5, <2>10
<1> QED  BY <1>4, <1>5, <1>6, <1>7, <1>8, <1>9, <1>10 DEF Holds

LEMMA DropElsewhere ==
  ASSUME TreeInv, frames # << >>, NEW n, n = Len(frames), Top.proc = "ConnectionChanged", NEW p, p = PortOf(n),
         Deallocate(Behind(p)), Holds,
         UNCHANGED <<status, plugged, enabled, connChange, enableChange, gaveUp>>,
         \/ \E f : Goes(f)
         \/ Returns /\ p \notin plugged
  PROVE  Elsewhere'
<1>1. /\ Types /\ TypeOK /\ Tree /\ Table /\ Stack /\ n \in Nat \ {0} /\ n \in 1 .. Len(frames) /\ Top = frames[n]
      /\ frames \in Seq(FrameType) /\ Elsewhere /\ PosStay
  BY ChangedIs, InvIs DEF Holds
<1>2. p \in Ports  BY DropSite
<1>3. /\ Live' = Live \ Behind(p)
      /\ \A d \in DevIds \ Behind(p) :
           /\ dev'[d].status = dev[d].status /\ dev'[d].number = dev[d].number
           /\ dev'[d].parent = dev[d].parent /\ dev'[d].pos = dev[d].pos
           /\ dev'[d].hub = dev[d].hub /\ dev'[d].maxChildren = dev[d].maxChildren
      /\ \A d \in Live' : \A i \in PortNums :
           dev'[d].children[i] = IF Append(dev[d].pos, i) = p THEN Null ELSE dev[d].children[i]
  BY <1>1, <1>2, DeallocateIs
<1>4. /\ \A q : InHand(q) => InHand(q)' \/ (q = p /\ p \notin plugged)
      /\ \A d : EarlyNow(d) => EarlyNow(d)'
      /\ frames[1].proc = "Attach" => frames' # << >> /\ frames'[1].proc = "Attach"
  <2>1. CASE \E f : Goes(f)
    <3>1. PICK f : Goes(f)  BY <2>1
    <3>2. Stays(f)  BY <1>1, <3>1, BothStay
    <3>3. frames' # << >>  BY <3>1 DEF Goes
    <3> QED  BY <1>1, <3>2, <3>3, HandsStay
  <2>2. CASE Returns /\ p \notin plugged
    <3>1. /\ \A q : InHand(q) => InHand(q)' \/ (Top.proc = "ConnectionChanged" /\ q = PortOf(Len(frames)))
          /\ \A d : EarlyNow(d) => EarlyNow(d)' \/ (d = Top.dev /\ Top.proc = "Attach")
          /\ frames' # << >> => frames'[1] = frames[1]
          /\ frames' = << >> => Top = frames[1]
      BY <1>1, <2>2, HandsLeave
    <3> QED  BY <2>2, <3>1
  <2> QED  BY <2>1, <2>2
<1>5. \A q : ~Cleared(q)  BY ChangedSite
<1>6. ASSUME NEW d \in Live'
      PROVE  /\ d \in Live /\ d \in DevIds /\ d \in DevIds \ Behind(p) /\ dev[d].pos # p
             /\ dev'[d].status = dev[d].status /\ dev'[d].number = dev[d].number
             /\ dev'[d].parent = dev[d].parent /\ dev'[d].pos = dev[d].pos
             /\ dev'[d].hub = dev[d].hub /\ dev'[d].maxChildren = dev[d].maxChildren
  <2>1. d \in Live /\ d \in DevIds \ Behind(p)  BY <1>3, <1>6, LiveIs
  <2>2. dev[d].pos # p
    <3>1. p \in Seq(Nat) /\ p # << >>  BY <1>2, PositionIs DEF Ports
    <3>2. p \in Way(p)  BY <3>1, WayEnds
    <3> QED  BY <2>1, <3>2 DEF Behind
  <2> QED  BY <1>3, <2>1, <2>2
<1>7. Off'
  <2> SUFFICES ASSUME NEW d \in Live', NEW q, q = dev[d].pos, Way(q) \ {q} \subseteq enabled, q \notin enabled, q # <<>>
               PROVE  q \in connChange \cup enableChange \/ InHand(q)'
    BY <1>6 DEF Off, Way
  <2>1. d \in Live /\ q # p  BY <1>6
  <2>2. q \in connChange \cup enableChange \/ InHand(q)  BY <1>1, <1>5, <2>1 DEF Elsewhere, Off
  <2> QED  BY <1>4, <2>1, <2>2
<1>8. Seen'
  <2> SUFFICES ASSUME NEW d \in Live'  PROVE SeenOf(d)'
    BY DEF Seen
  <2>6. dev'[d].pos = dev[d].pos /\ dev'[d].hub = dev[d].hub /\ dev'[d].maxChildren = dev[d].maxChildren  BY <1>6
  <2> SUFFICES ASSUME dev[d].hub, Way(dev[d].pos) \subseteq enabled, NEW i \in 1 .. dev[d].maxChildren,
                      NEW q, q = Append(dev[d].pos, i), q \notin connChange, ~InHand(q)'
               PROVE  /\ dev'[d].children[i] # Null => q \in plugged
                      /\ q \in plugged /\ ~gaveUp => dev'[d].children[i] # Null
    BY <2>6 DEF SeenOf, Way
  <2>1. SeenOf(d) /\ d \in Live /\ d \in DevIds  BY <1>1, <1>6 DEF Elsewhere, Seen
  <2>2. i \in PortNums
    <3> DEFINE m == dev[d].maxChildren
    <3> DEFINE c == PortCount[dev[d].pos]
    <3>1. m \in Nat /\ c \in Nat /\ m <= c /\ dev[d].pos \in Positions  BY <1>1, <2>1, DeviceIs
    <3>2. i \in 1 .. m  OBVIOUS
    <3>3. i \in 1 .. c
      <4> HIDE DEF m, c
      <4> QED  BY <3>1, <3>2
    <3> QED  BY <3>1, <3>3, PortIs
  <2>3. dev'[d].children[i] = IF q = p THEN Null ELSE dev[d].children[i]  BY <1>3, <2>2
  <2>4. CASE q = p
    <3>1. InHand(p)  BY DropSite
    <3>2. p \notin plugged  BY <1>4, <2>4, <3>1
    <3> QED  BY <2>3, <2>4, <3>2
  <2>5. CASE q # p
    <3>1. ~InHand(q)  BY <1>4, <2>5
    <3> QED  BY <2>1, <2>3, <2>5, <3>1 DEF SeenOf
  <2> QED  BY <2>4, <2>5
<1>9. Addressed'
  <2> SUFFICES ASSUME NEW d \in Live'  PROVE AddressedIs(d)'
    BY DEF Addressed
  <2>1. AddressedIs(d)  BY <1>1, <1>6 DEF Elsewhere, Addressed
  <2>2. (EarlyNow(d) => EarlyNow(d)') /\ (InHand(dev[d].pos) => InHand(dev[d].pos)')
    <3> SUFFICES ASSUME NEW q, q = dev[d].pos, InHand(q)  PROVE InHand(q)'
      BY <1>4, <1>6
    <3>1. q # p  BY <1>6
    <3> QED  BY <1>4, <3>1
  <2>3. d = 1 /\ frames # << >> /\ frames[1].proc = "Attach" => frames' # << >> /\ frames'[1].proc = "Attach"  BY <1>4
  <2> QED  BY <1>6, <2>1, <2>2, <2>3 DEF AddressedIs
<1> QED  BY <1>7, <1>8, <1>9 DEF Elsewhere

(* What is left of the port when its device is taken away.                 *)
LEMMA DropLeaves ==
  ASSUME TreeInv, frames # << >>, NEW n, n = Len(frames), Top.proc = "ConnectionChanged", NEW p, p = PortOf(n),
         Deallocate(Behind(p))
  PROVE  dev'[Top.dev].pos = dev[Top.dev].pos /\ dev'[Top.dev].children[Top.port] = Null
<1>1. Types /\ TypeOK /\ Tree /\ n \in 1 .. n /\ n \in 1 .. Len(frames) /\ Top = frames[n]  BY ChangedIs
<1>2. p \in Ports /\ frames[n].dev \in Live \ Behind(p)  BY <1>1, DropSite
<1>3. /\ Live' = Live \ Behind(p)
      /\ \A d \in DevIds \ Behind(p) : dev'[d].pos = dev[d].pos
      /\ \A d \in Live' : \A i \in PortNums :
           dev'[d].children[i] = IF Append(dev[d].pos, i) = p THEN Null ELSE dev[d].children[i]
  BY <1>1, <1>2, DeallocateIs
<1>4. Top.dev \in Live' /\ Top.dev \in DevIds \ Behind(p)  BY <1>1, <1>2, <1>3, LiveIs
<1>5. Top.port \in PortNums /\ Append(dev[Top.dev].pos, Top.port) = p  BY <1>1, PortOfIs DEF OnPort, PortOf, PosOf
<1> QED  BY <1>3, <1>4, <1>5

LEMMA DropGoes ==
  ASSUME TreeInv, frames # << >>, NEW n, n = Len(frames), Top.proc = "ConnectionChanged", On(n) # Null,
         Deallocate(Family(Child)), UNCHANGED <<status, hardware, counts, result>>,
         gaveUp \/ dev[On(n)].status \in Done,
         NEW a \in {"reset", "disable"}, Goto(a), PortOf(n) \notin connChange, PortOf(n) \in plugged, a = "disable" => gaveUp
  PROVE  TreeInv'
<1>1. /\ Types /\ TypeOK /\ n \in Nat \ {0} /\ n \in 1 .. Len(frames) /\ Top = frames[n]
      /\ Way(PosOf(n)) \subseteq enabled \ connChange
  BY ChangedIs
<1>2. PICK p : p = PortOf(n)  OBVIOUS
<1>3. Deallocate(Behind(p))  BY <1>2, DropIs
<1>4. UNCHANGED <<status, plugged, enabled, connChange, enableChange, gaveUp>> /\ result' \in {"ok", "error", "disconnected"}
  BY <1>1 DEF hardware, counts, TypeOK
<1>5. a \in Places[Top.proc]  BY DEF Places
<1>6. PICK f \in FrameType : Goes(f) /\ f.proc = Top.proc /\ f.at = a /\ f.dev = Top.dev /\ f.port = Top.port /\ f.n = Top.n
  BY <1>1, <1>5, GotoPick
<1>7. Lower /\ frames'[n] = f /\ Len(frames') = n  BY <1>6 DEF Goes
<1>8. Holds  BY <1>2, <1>3, <1>4, <1>7, DropHolds
<1>9. Elsewhere'  BY <1>2, <1>3, <1>4, <1>6, <1>8, DropElsewhere
<1>10. dev'[Top.dev].pos = dev[Top.dev].pos /\ dev'[Top.dev].children[Top.port] = Null  BY <1>2, <1>3, DropLeaves
<1>11. PosOf(n)' = PosOf(n) /\ PortOf(n)' = p /\ On(n)' = Null
  BY <1>1, <1>2, <1>6, <1>7, <1>10, Zenon DEF PosOf, PortOf, On
<1>12. Open(n)'
  <2>1. ~Rereset(n)'  BY <1>6, <1>7 DEF Rereset
  <2> QED  BY <1>1, <1>4, <1>11, <2>1 DEF Open, Settled
<1>13. Knows(n)'
  <2>1. frames'[n].proc = "ConnectionChanged" /\ frames'[n].at = a /\ IsTop(n)'  BY <1>6, <1>7 DEF IsTop
  <2>2. KnowsChanged(n)'  BY <1>2, <1>4, <1>11, <2>1 DEF KnowsChanged
  <2> QED  BY <2>1, <2>2, KnowsIs
<1>14. f.at \in Places[f.proc] /\ f.proc # "HubAttach" /\ Top.proc \notin {"Verify", "CheckConnection", "CheckForChange"}
  BY <1>5, <1>6
<1> QED  BY <1>6, <1>8, <1>9, <1>12, <1>13, <1>14, GoesAnew

LEMMA DropOldKeeps == ASSUME TreeInv, DropOld, NEW n, n = Len(frames) PROVE TreeInv'
<1>1. frames # << >> /\ Top.proc = "ConnectionChanged" /\ Top.at = "decide" /\ UNCHANGED <<status, hardware, counts>>
  BY DEF DropOld, At
<1>2. /\ Types /\ TypeOK /\ n \in Nat \ {0} /\ n \in 1 .. Len(frames) /\ Top = frames[n]
      /\ KnowsChanged(n) /\ Child = On(n) /\ PortPos = PortOf(n) /\ NotCleared
  BY <1>1, ChangedIs
<1>3. UNCHANGED <<status, plugged, enabled, connChange, enableChange, gaveUp>>  BY <1>1 DEF hardware, counts
<1>4. /\ PortOf(n) \notin connChange /\ (status[PortOf(n)].conn <=> PortOf(n) \in plugged)
      /\ (status[PortOf(n)].en <=> PortOf(n) \in enabled)
      /\ On(n) # Null => dev[On(n)].status \in Done \/ gaveUp
  BY <1>1, <1>2 DEF KnowsChanged
<1>5. CASE Departed /\ status[PortPos].conn
  <2>1. On(n) # Null /\ Deallocate(Family(Child)) /\ Goto("reset") /\ UNCHANGED result  BY <1>2, <1>5 DEF DropOld
  <2>2. PortOf(n) \notin connChange /\ PortOf(n) \in plugged /\ (gaveUp \/ dev[On(n)].status \in Done)
    BY <1>2, <1>4, <1>5, <2>1
  <2>3. UNCHANGED <<status, hardware, counts, result>>  BY <1>1, <2>1
  <2> QED  BY <1>1, <2>1, <2>2, <2>3, DropGoes
<1>6. CASE Departed /\ ~status[PortPos].conn
  <2>1. On(n) # Null /\ Deallocate(Family(Child)) /\ Return("ok")  BY <1>2, <1>6 DEF DropOld
  <2>2. PICK p : p = PortOf(n)  OBVIOUS
  <2>3. Deallocate(Behind(p))  BY <1>1, <2>1, <2>2, DropIs
  <2>4. Returns /\ result' = "ok"  BY <1>1, <1>2, <2>1, ReturnIs DEF Return
  <2>5. Lower  BY <2>4 DEF Returns
  <2>6. Holds
    <3>1. gaveUp \/ (On(n) # Null => dev[On(n)].status \in Done)  BY <1>4
    <3>2. result' \in {"ok", "error", "disconnected"}  BY <2>4
    <3> QED  BY <1>1, <1>3, <2>2, <2>3, <2>5, <3>1, <3>2, DropHolds
  <2>7. p \notin plugged  BY <1>2, <1>4, <1>6, <2>2
  <2>8. Elsewhere'  BY <1>1, <1>3, <2>2, <2>3, <2>4, <2>6, <2>7, DropElsewhere
  <2>9. n # 1 => Knows(n - 1)'
    <3>1. dev'[Top.dev].pos = dev[Top.dev].pos /\ dev'[Top.dev].children[Top.port] = Null  BY <1>1, <2>2, <2>3, DropLeaves
    <3> QED  BY <1>1, <1>3, <1>4, <2>4, <3>1, ChangedCaller
  <2> QED  BY <1>1, <2>4, <2>6, <2>8, <2>9, ReturnsAnew
<1>7. CASE ~Departed
  <2>1. Goto("reset") /\ UNCHANGED <<dev, devices, result>>  BY <1>7 DEF DropOld
  <2>2. Quiet /\ dev' = dev /\ result' \in {"ok", "error", "disconnected"}  BY <1>1, <1>2, <1>3, <2>1 DEF Quiet, TypeOK
  <2>3. On(n) = Null /\ (status[PortOf(n)].conn \/ status[PortOf(n)].en)  BY <1>2, <1>7 DEF Departed
  <2>4. PortOf(n) \in plugged  BY <1>2, <1>4, <2>3 DEF TypeOK
  <2>5. "reset" \in Places[Top.proc] /\ Top.proc # "CheckForChange" /\ Top.proc # "Attach"  BY <1>1 DEF Places
  <2>6. /\ frames'[n].proc = "ConnectionChanged" /\ frames'[n].at = "reset" /\ IsTop(n)'
        /\ PortOf(n)' = PortOf(n) /\ On(n)' = On(n)
    BY <1>1, <1>2, <2>1, <2>2, <2>5, GotoTo
  <2>7. KnowsChanged(n)'  BY <1>3, <1>4, <2>3, <2>4, <2>6 DEF KnowsChanged
  <2>8. Knows(n)'  BY <2>6, <2>7, KnowsIs
  <2>9. OffKept  BY <1>2, <1>3 DEF OffKept
  <2> QED  BY <1>1, <2>1, <2>2, <2>5, <2>8, <2>9, GotoKeeps
<1> QED  BY <1>5, <1>6, <1>7

LEMMA NewAttachedKeeps == ASSUME TreeInv, NewAttached, NEW n, n = Len(frames) PROVE TreeInv'
<1>1. frames # << >> /\ Top.proc = "ConnectionChanged" /\ UNCHANGED <<status, hardware, counts>>
  BY DEF NewAttached, At
<1>2. /\ Types /\ TypeOK /\ Tree /\ n \in Nat \ {0} /\ n \in 1 .. Len(frames) /\ Top = frames[n] /\ IsTop(n)
      /\ KnowsChanged(n) /\ Child = On(n) /\ PortPos = PortOf(n) /\ NotCleared
  BY <1>1, ChangedIs
<1>3. UNCHANGED <<status, plugged, enabled, connChange, enableChange, gaveUp>>  BY <1>1 DEF hardware, counts
<1>4. ASSUME UNCHANGED <<dev, devices>>, NEW r \in {"ok", "error"}, Return(r), PortOf(n) \notin connChange, PortOf(n) \in plugged,
             On(n) # Null => Up(PortOf(n)) /\ dev[On(n)].status \in Done /\ dev[On(n)].number # 0, On(n) = Null => gaveUp
      PROVE  TreeInv'
  <2>1. Quiet  BY <1>1, <1>3, <1>4 DEF Quiet
  <2>2. Returns  BY <1>1, <1>2, <1>4, ReturnIs DEF Return
  <2>3. n # 1 => Knows(n - 1)'
    <3>1. dev'[Top.dev].pos = dev[Top.dev].pos  BY <1>4
    <3>2. dev'[Top.dev].children[Top.port] # Null => PortOf(n) \in plugged /\ Up(PortOf(n))  BY <1>2, <1>4 DEF On
    <3> QED  BY <1>1, <1>3, <1>4, <2>2, <3>1, <3>2, ChangedCaller
  <2>4. \A d \in Live : dev[d].pos = PortOf(n) => On(n) = d /\ On(n) # Null  BY <1>1, <1>2, OnIsThere DEF OnPort
  <2>5. LeavesWell
    <3>1. ASSUME NEW d \in Live, dev[d].pos = PortOf(n)
          PROVE  PortOf(n) \in enabled \cup connChange \cup enableChange /\ AddressedIs(d)'
      <4>1. On(n) = d /\ On(n) # Null  BY <2>4, <3>1
      <4>2. PortOf(n) \in enabled /\ dev[d].status \in Done /\ dev[d].number # 0  BY <1>4, <4>1 DEF Up
      <4> QED  BY <1>4, <4>2 DEF AddressedIs
    <3> QED  BY <1>1, <1>3, <1>4, <3>1 DEF LeavesWell
  <2> QED  BY <1>1, <1>2, <1>4, <2>1, <2>3, <2>5, ReturnQuiet
<1>5. CASE Top.at = "attached" /\ result = "ok" /\ Return("ok") /\ UNCHANGED <<dev, devices>>
  <2>1. /\ PortOf(n) \notin connChange /\ PortOf(n) \in plugged /\ On(n) # Null /\ Up(PortOf(n)) /\ dev[On(n)].status \in Done
        /\ dev[On(n)].parent # Null
    BY <1>1, <1>2, <1>5 DEF KnowsChanged, GotOK
  <2>2. dev[On(n)].number # 0
    <3>1. On(n) \in Live /\ dev[On(n)].pos = PortOf(n)  BY <1>1, <1>2, <2>1, OnIsThere DEF OnPort
    <3>2. n \in 1 .. n /\ \A d \in Behind(PortOf(n)) : dev[d].number # 0  BY <1>1, <1>2, DropSite
    <3>3. PortOf(n) \in Way(PortOf(n))
      <4>1. PortOf(n) \in Ports  BY <1>1, ChangedIs
      <4>2. PortOf(n) \in Seq(Nat) /\ PortOf(n) # << >>  BY <4>1, PositionIs DEF Ports
      <4> QED  BY <4>2, WayEnds
    <3> QED  BY <3>1, <3>2, <3>3 DEF Behind
  <2> QED  BY <1>4, <1>5, <2>1, <2>2
<1>6. CASE Top.at = "attached" /\ result # "ok" /\ Child # Null /\ Deallocate(Family(Child)) /\ Goto("disable") /\ UNCHANGED result
  <2>1. gaveUp /\ PortOf(n) \notin connChange /\ PortOf(n) \in plugged  BY <1>1, <1>2, <1>6 DEF KnowsChanged, GotError
  <2>2. UNCHANGED <<status, hardware, counts, result>> /\ On(n) # Null  BY <1>1, <1>2, <1>6
  <2> QED  BY <1>1, <1>6, <2>1, <2>2, DropGoes
<1>7. CASE Top.at = "failed" /\ Return("error") /\ UNCHANGED <<dev, devices>>
  <2>1. gaveUp /\ PortOf(n) \notin connChange /\ PortOf(n) \in plugged /\ On(n) = Null  BY <1>1, <1>2, <1>7 DEF KnowsChanged
  <2> QED  BY <1>4, <1>7, <2>1
<1> QED  BY <1>5, <1>6, <1>7 DEF NewAttached, At

-----------------------------------------------------------------------------
(* A new device on the port of the call: its memory was free, and its slot.*)
Born(p, s) == [status |-> "Attached", number |-> s, parent |-> Null, port |-> 0, pos |-> p,
               hub |-> FALSE, maxChildren |-> 0, children |-> [i \in PortNums |-> Null]]

Allocates(d, s) ==
  /\ d \in DevIds \ Live /\ s \in Slots /\ devices[s] = Null
  /\ dev' = [dev EXCEPT ![d] = Born(PortPos, s), ![Top.dev].children[Top.port] = d]
  /\ devices' = [devices EXCEPT ![s] = d]

LEMMA AllocatesIs ==
  ASSUME TreeInv, frames # << >>, NEW n, n = Len(frames), Top.proc = "ConnectionChanged", NEW p, p = PortOf(n),
         NEW d, NEW s, Allocates(d, s)
  PROVE  /\ d \in DevIds \ Live /\ d # Null /\ s \in Slots /\ s \in 0 .. MaxDevices /\ s # 0 /\ devices[s] = Null
         /\ p \in Ports /\ p \in Positions
         /\ dev' \in [DevIds -> DeviceType] /\ Live' = Live \cup {d} /\ dev'[d] = Born(p, s)
         /\ Top.dev \in Live /\ Top.port \in PortNums /\ p = Append(dev[Top.dev].pos, Top.port)
         /\ Top.port <= dev[Top.dev].maxChildren
         /\ \A e \in DevIds : e # d =>
              /\ dev'[e].status = dev[e].status /\ dev'[e].number = dev[e].number
              /\ dev'[e].parent = dev[e].parent /\ dev'[e].port = dev[e].port /\ dev'[e].pos = dev[e].pos
              /\ dev'[e].hub = dev[e].hub /\ dev'[e].maxChildren = dev[e].maxChildren
              /\ \A i \in PortNums : dev'[e].children[i] = IF e = Top.dev /\ i = Top.port THEN d ELSE dev[e].children[i]
              /\ e # Top.dev => dev'[e] = dev[e]
         /\ devices' \in [Slots -> DevIds \cup {Null}] /\ devices'[s] = d
         /\ \A t \in Slots : t # s => devices'[t] = devices[t]
<1>1. /\ Types /\ TypeOK /\ Tree /\ n \in Nat \ {0} /\ n \in 1 .. Len(frames) /\ Top = frames[n]
      /\ Top.dev \in Live /\ Top.dev \in DevIds /\ PortPos = PortOf(n) /\ p \in Ports
      /\ Top.port \in 1 .. dev[Top.dev].maxChildren
  BY ChangedIs
<1>2. Top.port \in PortNums /\ p = Append(dev[Top.dev].pos, Top.port)  BY <1>1, PortOfIs, Zenon DEF OnPort, PortOf, PosOf
<1>3. d \in DevIds \ Live /\ s \in Slots /\ devices[s] = Null /\ p \in Positions /\ d # Top.dev  BY <1>1 DEF Allocates, Ports
<1>4. d # Null  BY <1>1, <1>3, DeviceIs
<1>5. s \in 0 .. MaxDevices /\ s # 0  BY <1>3, BoundsAssumption DEF Slots
<1>6. Born(p, s) \in DeviceType
  <2>1. [i \in PortNums |-> Null] \in [PortNums -> DevIds \cup {Null}]  OBVIOUS
  <2>2. 0 \in Nat  OBVIOUS
  <2> QED  BY <1>3, <1>5, <2>1, <2>2 DEF Born, DeviceType
<1>7. dev \in [DevIds -> DeviceType]  BY <1>1 DEF TypeOK
<1> DEFINE h == Top.dev
<1> DEFINE i == Top.port
<1>8. /\ dev'[d] = Born(p, s)
      /\ dev'[h] = [dev[h] EXCEPT !.children = [@ EXCEPT ![i] = d]]
      /\ \A e \in DevIds : e # d /\ e # h => dev'[e] = dev[e]
      /\ DOMAIN dev' = DevIds
  <2>1. dev' = [dev EXCEPT ![d] = Born(p, s), ![h].children[i] = d]  BY <1>1 DEF Allocates
  <2>2. h \in DevIds /\ d \in DevIds /\ d # h  BY <1>1, <1>3
  <2> HIDE DEF h, i
  <2> QED  BY <1>7, <2>1, <2>2
<1>9. dev[h] \in DeviceType /\ i \in PortNums /\ d \in DevIds  BY <1>1, <1>2, <1>3, <1>7
<1>10. /\ dev'[h] \in DeviceType
       /\ dev'[h].status = dev[h].status /\ dev'[h].number = dev[h].number
       /\ dev'[h].parent = dev[h].parent /\ dev'[h].port = dev[h].port /\ dev'[h].pos = dev[h].pos
       /\ dev'[h].hub = dev[h].hub /\ dev'[h].maxChildren = dev[h].maxChildren
       /\ \A j \in PortNums : dev'[h].children[j] = IF j = i THEN d ELSE dev[h].children[j]
  <2> HIDE DEF h, i
  <2> QED  BY <1>8, <1>9 DEF DeviceType
<1>11. dev' \in [DevIds -> DeviceType]
  <2>1. \A e \in DevIds : dev'[e] \in DeviceType  BY <1>6, <1>7, <1>8, <1>10
  <2>2. dev' = [e \in DevIds |-> dev'[e]]
    <3> HIDE DEF h, i
    <3>1. dev' = [dev EXCEPT ![d] = Born(p, s), ![h].children[i] = d]  BY <1>1 DEF Allocates, h, i
    <3> QED  BY <1>7, <3>1
  <2> QED  BY <2>1, <2>2
<1>12. \A e \in DevIds : e # d => dev'[e].status = dev[e].status  BY <1>8, <1>10
<1>13. Live' = Live \cup {d}
  <2>1. dev'[d].status # "Free"  BY <1>8 DEF Born
  <2> QED  BY <1>3, <1>12, <2>1 DEF Live
<1>14. /\ devices' \in [Slots -> DevIds \cup {Null}] /\ devices'[s] = d
       /\ \A t \in Slots : t # s => devices'[t] = devices[t]
  <2>1. devices \in [Slots -> DevIds \cup {Null}]  BY <1>1 DEF TypeOK
  <2> QED  BY <1>3, <2>1 DEF Allocates
<1>15. Top.port <= dev[Top.dev].maxChildren  BY <1>1
<1>16. \A e \in DevIds : e # d =>
         /\ dev'[e].number = dev[e].number
         /\ dev'[e].parent = dev[e].parent /\ dev'[e].port = dev[e].port /\ dev'[e].pos = dev[e].pos
         /\ dev'[e].hub = dev[e].hub /\ dev'[e].maxChildren = dev[e].maxChildren
         /\ \A j \in PortNums : dev'[e].children[j] = IF e = h /\ j = i THEN d ELSE dev[e].children[j]
         /\ e # h => dev'[e] = dev[e]
  <2> SUFFICES ASSUME NEW e \in DevIds, e # d
               PROVE  /\ dev'[e].number = dev[e].number
                      /\ dev'[e].parent = dev[e].parent /\ dev'[e].port = dev[e].port /\ dev'[e].pos = dev[e].pos
                      /\ dev'[e].hub = dev[e].hub /\ dev'[e].maxChildren = dev[e].maxChildren
                      /\ \A j \in PortNums : dev'[e].children[j] = IF e = h /\ j = i THEN d ELSE dev[e].children[j]
                      /\ e # h => dev'[e] = dev[e]
    OBVIOUS
  <2>1. CASE e = h  BY <1>10, <2>1
  <2>2. CASE e # h
    <3>1. dev'[e] = dev[e]  BY <1>8, <2>2
    <3> QED  BY <2>2, <3>1
  <2> QED  BY <2>1, <2>2
<1>17. dev'[d] = Born(p, s)  BY <1>8
<1> QED  BY ONLY <1>1, <1>2, <1>3, <1>4, <1>5, <1>11, <1>12, <1>13, <1>14, <1>15, <1>16, <1>17

LEMMA AllocatesTypes ==
  ASSUME TreeInv, frames # << >>, NEW n, n = Len(frames), Top.proc = "ConnectionChanged", NEW p, p = PortOf(n),
         NEW d, NEW s, Allocates(d, s), UNCHANGED <<status, plugged, enabled, connChange, enableChange, result>>
  PROVE  TypeOK'
<1>1. TypeOK  BY InvIs
<1>2. /\ dev' \in [DevIds -> DeviceType] /\ dev'[d] = Born(p, s) /\ p \in Positions
      /\ \A e \in DevIds : e # d => dev'[e].pos = dev[e].pos /\ dev'[e].maxChildren = dev[e].maxChildren
      /\ devices' \in [Slots -> DevIds \cup {Null}]
  BY AllocatesIs
<1>3. \A e \in DevIds : dev'[e].maxChildren <= PortCount[dev'[e].pos]
  <2> SUFFICES ASSUME NEW e \in DevIds  PROVE dev'[e].maxChildren <= PortCount[dev'[e].pos]
    OBVIOUS
  <2>1. CASE e = d
    <3>1. PortCount[p] \in Nat  BY <1>2, PositionIs
    <3>2. dev'[e].maxChildren = 0 /\ dev'[e].pos = p  BY <1>2, <2>1 DEF Born
    <3> QED  BY <3>1, <3>2
  <2>2. CASE e # d  BY <1>1, <1>2, <2>2 DEF TypeOK
  <2> QED  BY <2>1, <2>2
<1> QED  BY <1>1, <1>2, <1>3 DEF TypeOK

LEMMA AllocatesTree ==
  ASSUME TreeInv, frames # << >>, NEW n, n = Len(frames), Top.proc = "ConnectionChanged", NEW p, p = PortOf(n),
         On(n) = Null, NEW d, NEW s, Allocates(d, s)
  PROVE  Tree'
<1>1. /\ Types /\ TypeOK /\ Tree /\ n \in 1 .. Len(frames) /\ Top = frames[n]
  BY ChangedIs
<1>2. /\ d \in DevIds \ Live /\ d # Null /\ s \in Slots /\ devices[s] = Null
      /\ Live' = Live \cup {d} /\ dev'[d] = Born(p, s)
      /\ Top.dev \in Live /\ Top.port \in PortNums /\ p = Append(dev[Top.dev].pos, Top.port)
      /\ Top.port <= dev[Top.dev].maxChildren
      /\ \A e \in DevIds : e # d =>
           /\ dev'[e].status = dev[e].status
           /\ dev'[e].parent = dev[e].parent /\ dev'[e].port = dev[e].port /\ dev'[e].pos = dev[e].pos
           /\ dev'[e].maxChildren = dev[e].maxChildren
           /\ \A i \in PortNums : dev'[e].children[i] = IF e = Top.dev /\ i = Top.port THEN d ELSE dev[e].children[i]
           /\ e # Top.dev => dev'[e] = dev[e]
      /\ \A t \in Slots : t # s => devices'[t] = devices[t]
  BY AllocatesIs
<1>3. /\ dev'[d].pos = p /\ dev'[d].status = "Attached" /\ dev'[d].parent = Null
      /\ \A i \in PortNums : dev'[d].children[i] = Null
  BY <1>2 DEF Born
<1>4. dev[Top.dev].children[Top.port] = Null  BY <1>1 DEF On
<1>5. \A e \in Live : e \in DevIds /\ e # d /\ e # Null  BY <1>1, <1>2, LiveIs, DeviceIs
<1>13. \A e \in Live : dev'[e].pos = dev[e].pos  BY <1>2, <1>5
<1>6. Rooted'
  <2>1. 1 \in Live /\ dev[1].pos = <<>> /\ dev[1].parent = Null /\ devices[1] = 1  BY <1>1 DEF Tree, Rooted
  <2>2. 1 # Null /\ 1 # s /\ 1 \in Slots  BY <1>2, <2>1, BoundsAssumption DEF Null, Slots
  <2> QED  BY <1>2, <1>5, <2>1, <2>2 DEF Rooted
<1>7. FreeIsNew'
  <2> SUFFICES ASSUME NEW e \in DevIds \ (Live \cup {d})  PROVE dev'[e] = Free
    BY <1>2 DEF FreeIsNew, Free
  <2>1. dev[e] = Free  BY <1>1 DEF Tree, FreeIsNew
  <2> QED  BY <1>2, <2>1
<1>8. Children'
  <2> SUFFICES ASSUME NEW e \in Live \cup {d}, NEW i \in PortNums, dev'[e].children[i] # Null
               PROVE  /\ dev'[e].children[i] \in Live \cup {d}
                      /\ dev'[dev'[e].children[i]].pos = Append(dev'[e].pos, i)
                      /\ i <= dev'[e].maxChildren
    BY <1>2 DEF Children
  <2>1. e # d /\ e \in Live /\ e \in DevIds  BY <1>2, <1>3, LiveIs
  <2>2. CASE e = Top.dev /\ i = Top.port
    <3>1. dev'[e].children[i] = d /\ dev'[e].pos = dev[Top.dev].pos /\ dev'[e].maxChildren = dev[Top.dev].maxChildren
      BY <1>2, <2>1, <2>2
    <3> QED  BY <1>2, <1>3, <2>2, <3>1
  <2>3. CASE ~(e = Top.dev /\ i = Top.port)
    <3>1. dev'[e].children[i] = dev[e].children[i] /\ dev'[e].pos = dev[e].pos /\ dev'[e].maxChildren = dev[e].maxChildren
      BY <1>2, <2>1, <2>3
    <3>2. /\ dev[e].children[i] \in Live /\ dev[dev[e].children[i]].pos = Append(dev[e].pos, i)
          /\ i <= dev[e].maxChildren
      BY <1>1, <2>1, <3>1 DEF Tree, Children
    <3>3. dev'[dev[e].children[i]].pos = dev[dev[e].children[i]].pos  BY <1>13, <3>2
    <3> QED  BY <3>1, <3>2, <3>3
  <2> QED  BY <2>2, <2>3
<1>9. OnePlace'
  <2>1. \A e \in Live : dev[e].pos # p  BY <1>1, OnIsThere DEF OnPort
  <2>2. \A e, f \in Live : dev[e].pos = dev[f].pos => e = f  BY <1>1 DEF Tree, OnePlace
  <2> SUFFICES ASSUME NEW e \in Live \cup {d}, NEW f \in Live \cup {d}, dev'[e].pos = dev'[f].pos  PROVE e = f
    BY <1>2 DEF OnePlace
  <2>3. CASE e = d  BY <1>3, <1>13, <2>1, <2>3
  <2>4. CASE f = d  BY <1>3, <1>13, <2>1, <2>4
  <2>5. CASE e \in Live /\ f \in Live  BY <1>13, <2>2, <2>5
  <2> QED  BY <2>3, <2>4, <2>5
<1>10. Hooked'
  <2> SUFFICES ASSUME NEW e \in Live \cup {d}, dev'[e].pos # <<>>
               PROVE  \E f \in Live \cup {d}, i \in PortNums : dev'[f].children[i] = e
    BY <1>2 DEF Hooked
  <2>1. CASE e = d
    <3>1. dev'[Top.dev].children[Top.port] = d  BY <1>2, <1>5
    <3> QED  BY <1>2, <2>1, <3>1
  <2>2. CASE e \in Live
    <3>1. dev[e].pos # <<>>  BY <1>2, <1>5, <2>2
    <3>2. PICK f \in Live, i \in PortNums : dev[f].children[i] = e  BY <1>1, <2>2, <3>1 DEF Tree, Hooked
    <3>3. dev'[f].children[i] = e  BY <1>2, <1>4, <1>5, <2>2, <3>2
    <3> QED  BY <3>3
  <2> QED  BY <2>1, <2>2
<1>11. Parents'
  <2> SUFFICES ASSUME NEW e \in Live \cup {d}, dev'[e].parent # Null
               PROVE  /\ dev'[e].parent \in Live \cup {d} /\ dev'[e].port \in PortNums
                      /\ dev'[dev'[e].parent].children[dev'[e].port] = e
    BY <1>2 DEF Parents
  <2>1. e \in Live /\ e \in DevIds /\ e # d /\ e # Null  BY <1>3, <1>5
  <2>2. dev'[e].parent = dev[e].parent /\ dev'[e].port = dev[e].port  BY <1>2, <2>1
  <2>3. dev[e].parent \in Live /\ dev[e].port \in PortNums /\ dev[dev[e].parent].children[dev[e].port] = e
    BY <1>1, <2>1, <2>2 DEF Tree, Parents
  <2>4. dev[e].parent \in DevIds /\ dev[e].parent # d  BY <1>5, <2>3
  <2>5. ~(dev[e].parent = Top.dev /\ dev[e].port = Top.port)  BY <1>4, <2>1, <2>3
  <2>6. dev'[dev[e].parent].children[dev[e].port] = e  BY <1>2, <2>3, <2>4, <2>5
  <2> QED  BY <2>2, <2>3, <2>6
<1>12. Parented'
  <2> SUFFICES ASSUME NEW e \in Live \cup {d}, dev'[e].pos # <<>>
               PROVE  dev'[e].status = "Attached" \/ dev'[e].parent # Null
    BY <1>2 DEF Parented
  <2>1. CASE e = d  BY <1>3, <2>1
  <2>2. CASE e \in Live
    <3>1. dev'[e].status = dev[e].status /\ dev'[e].parent = dev[e].parent /\ dev'[e].pos = dev[e].pos  BY <1>2, <1>5, <2>2
    <3> QED  BY <1>1, <2>2, <3>1 DEF Tree, Parented
  <2> QED  BY <2>1, <2>2
<1> QED  BY <1>6, <1>7, <1>8, <1>9, <1>10, <1>11, <1>12 DEF Tree

LEMMA AllocatesTable ==
  ASSUME TreeInv, frames # << >>, NEW n, n = Len(frames), Top.proc = "ConnectionChanged", NEW p, p = PortOf(n),
         NEW d, NEW s, Allocates(d, s), gaveUp' = gaveUp
  PROVE  Table'
<1>1. TypeOK /\ Table  BY InvIs
<1>2. /\ d \in DevIds \ Live /\ d # Null /\ s \in Slots /\ devices[s] = Null
      /\ Live' = Live \cup {d} /\ dev'[d] = Born(p, s)
      /\ \A e \in DevIds : e # d => dev'[e].number = dev[e].number
      /\ devices'[s] = d
      /\ \A t \in Slots : t # s => devices'[t] = devices[t]
  BY AllocatesIs
<1>3. dev'[d].number = s  BY <1>2 DEF Born
<1>5. \A e \in Live : e \in DevIds /\ e # d /\ e # Null  BY <1>1, <1>2, LiveIs, DeviceIs
<1>6. Numbered'
  <2> SUFFICES ASSUME NEW e \in Live \cup {d}, dev'[e].number # 0
               PROVE  dev'[e].number \in Slots /\ devices'[dev'[e].number] = e
    BY <1>2 DEF Numbered
  <2>1. CASE e = d  BY <1>2, <1>3, <2>1
  <2>2. CASE e \in Live
    <3>1. dev'[e].number = dev[e].number  BY <1>2, <1>5, <2>2
    <3>2. dev[e].number \in Slots /\ devices[dev[e].number] = e  BY <1>1, <2>2, <3>1 DEF Table, Numbered
    <3> QED  BY <1>2, <1>5, <2>2, <3>1, <3>2
  <2> QED  BY <2>1, <2>2
<1>7. OneSlot'
  <2> SUFFICES ASSUME ~gaveUp
               PROVE  /\ \A t \in Slots : devices'[t] \in Live \cup {d} \cup {Null}
                      /\ \A e \in Live \cup {d} : \E t \in Slots : devices'[t] = e
                      /\ \A t, u \in Slots : devices'[t] = devices'[u] /\ devices'[t] # Null => t = u
    BY <1>2 DEF OneSlot
  <2>1. /\ \A t \in Slots : devices[t] \in Live \cup {Null}
        /\ \A e \in Live : \E t \in Slots : devices[t] = e
        /\ \A t, u \in Slots : devices[t] = devices[u] /\ devices[t] # Null => t = u
    BY <1>1 DEF Table, OneSlot
  <2>2. \A t \in Slots : devices'[t] \in Live \cup {d} \cup {Null}  BY <1>2, <2>1
  <2>3. \A e \in Live \cup {d} : \E t \in Slots : devices'[t] = e
    <3> SUFFICES ASSUME NEW e \in Live  PROVE \E t \in Slots : devices'[t] = e
      BY <1>2
    <3>1. PICK t \in Slots : devices[t] = e  BY <2>1
    <3>2. t # s  BY <1>2, <1>5, <3>1
    <3> QED  BY <1>2, <3>1, <3>2
  <2>4. ASSUME NEW t \in Slots, NEW u \in Slots, devices'[t] = devices'[u], devices'[t] # Null  PROVE t = u
    <3>1. \A v \in Slots : v # s => devices'[v] = devices[v] /\ devices[v] # d  BY <1>2, <2>1
    <3> QED  BY <1>2, <2>1, <2>4, <3>1
  <2> QED  BY <2>2, <2>3, <2>4
<1> QED  BY <1>6, <1>7 DEF Table

LEMMA AllocatesHolds ==
  ASSUME TreeInv, frames # << >>, NEW n, n = Len(frames), Top.proc = "ConnectionChanged", NEW p, p = PortOf(n),
         On(n) = Null, NEW d, NEW s, Allocates(d, s), Lower,
         UNCHANGED <<status, plugged, enabled, connChange, enableChange, gaveUp, result>>
  PROVE  Holds
<1>1. /\ Types /\ TypeOK /\ Tree /\ n \in Nat \ {0} /\ n \in 1 .. Len(frames) /\ Top = frames[n]
  BY ChangedIs
<1>2. /\ d \in DevIds \ Live /\ s \in Slots /\ devices[s] = Null /\ Live' = Live \cup {d} /\ d # Null
      /\ \A e \in DevIds : e # d =>
           /\ dev'[e].status = dev[e].status /\ dev'[e].number = dev[e].number
           /\ dev'[e].parent = dev[e].parent /\ dev'[e].pos = dev[e].pos
           /\ dev'[e].maxChildren = dev[e].maxChildren
           /\ \A i \in PortNums : dev'[e].children[i] = IF e = Top.dev /\ i = Top.port THEN d ELSE dev[e].children[i]
  BY AllocatesIs
<1>3. TypeOK'  BY AllocatesTypes
<1>4. Tree'  BY AllocatesTree
<1>5. Table'  BY AllocatesTable
<1>6. \A k \in 1 .. n : frames[k].dev \in DevIds /\ frames[k].dev \in Live /\ frames[k].dev # d
  BY <1>1, <1>2, PlaceIs
<1>7. PosStay  BY <1>2, <1>6 DEF PosStay
<1>8. \A k \in 1 .. n : dev'[frames[k].dev].maxChildren >= dev[frames[k].dev].maxChildren
  <2> SUFFICES ASSUME NEW k \in 1 .. n, NEW m, m = dev[frames[k].dev].maxChildren  PROVE dev'[frames[k].dev].maxChildren >= m
    OBVIOUS
  <2>1. m \in Nat  BY <1>1, <1>6, DeviceIs
  <2>2. m >= m  BY <2>1
  <2> QED  BY <1>2, <1>6, <2>2
<1>9. ASSUME NEW k \in 1 .. n - 1  PROVE Open(k)' /\ Waits(k)'
  <2>1. k \in 1 .. n /\ frames'[k] = frames[k] /\ k \in 1 .. Len(frames)  BY <1>1, <1>9 DEF Lower
  <2>2. Waits(k) /\ ~Rereset(k) /\ Open(k)
    <3>1. Open(k)  BY <2>1, InvIs DEF Paths
    <3> QED  BY <1>9, <2>1, <3>1, ChangedSite
  <2>3. frames[k].dev \in DevIds /\ frames[k].dev \in Live /\ frames[k].dev # d  BY <1>6, <2>1
  <2>4. /\ dev'[frames[k].dev].pos = dev[frames[k].dev].pos
        /\ dev'[frames[k].dev].status = dev[frames[k].dev].status /\ dev'[frames[k].dev].number = dev[frames[k].dev].number
        /\ dev'[frames[k].dev].parent = dev[frames[k].dev].parent
    BY <1>2, <2>3
  <2>5. PosOf(k)' = PosOf(k) /\ PortOf(k)' = PortOf(k) /\ ~Rereset(k)'  BY <2>1, <2>2, <2>4 DEF PosOf, PortOf, Rereset
  <2>6. Open(k)'  BY <2>2, <2>5 DEF Open, Settled
  <2>7. \A q : Up(q)' = Up(q)  BY DEF Up
  <2>8. frames[k].proc = "ConnectionChanged" =>
          On(k)' = On(k) /\ (On(k) # Null => dev'[On(k)].parent = dev[On(k)].parent)
    <3> SUFFICES ASSUME frames[k].proc = "ConnectionChanged"
                 PROVE  On(k)' = On(k) /\ (On(k) # Null => dev'[On(k)].parent = dev[On(k)].parent)
      OBVIOUS
    <3>1. frames[k].port \in PortNums /\ frames[k].proc \in OnPort  BY <1>1, <2>1, PortOfIs DEF OnPort
    <3>2. PortOf(k) # p  BY <1>9, DropSite
    <3>3. ~(frames[k].dev = Top.dev /\ frames[k].port = Top.port)  BY <1>1, <3>2, Zenon DEF PortOf, PosOf
    <3>4. dev'[frames[k].dev].children[frames[k].port] = dev[frames[k].dev].children[frames[k].port]
      BY <1>2, <2>3, <3>1, <3>3
    <3>5. On(k)' = On(k)  BY <2>1, <3>4 DEF On
    <3>6. On(k) # Null => On(k) \in Live /\ On(k) \in DevIds /\ On(k) # d  BY <1>1, <1>2, <2>1, <3>1, OnIsThere, LiveIs
    <3> QED  BY <1>2, <3>5, <3>6
  <2>9. frames[k].at # "rereset" \/ frames[k].proc # "Attach"  BY <2>2 DEF Rereset
  <2>10. Waits(k)'
    <3>1. CASE frames[k].proc = "ConnectionChanged"  BY <2>1, <2>2, <2>5, <2>8, <3>1 DEF Waits
    <3>2. CASE frames[k].proc = "Attach"  BY <2>1, <2>2, <2>4, <2>5, <2>7, <2>9, <3>2 DEF Waits
    <3>3. CASE frames[k].proc = "HubAttach"  BY <2>1, <2>2, <2>4, <3>3 DEF Waits
    <3>4. CASE frames[k].proc \notin {"ConnectionChanged", "Attach", "HubAttach"}  BY <2>1, <3>4 DEF Waits
    <3> QED  BY <3>1, <3>2, <3>3, <3>4
  <2> QED  BY <2>6, <2>10
<1>10. \A k \in 1 .. n : frames[k].dev \in Live'  BY <1>2, <1>6
<1> QED  BY <1>3, <1>4, <1>5, <1>7, <1>8, <1>9, <1>10 DEF Holds

LEMMA AllocatesElsewhere ==
  ASSUME TreeInv, frames # << >>, NEW n, n = Len(frames), Top.proc = "ConnectionChanged", NEW p, p = PortOf(n),
         NEW d, NEW s, Allocates(d, s), Holds, NEW f, Goes(f),
         UNCHANGED <<status, plugged, enabled, connChange, enableChange, gaveUp>>
  PROVE  Elsewhere'
<1>1. /\ Types /\ TypeOK /\ Tree /\ n \in 1 .. Len(frames) /\ Top = frames[n]
      /\ frames \in Seq(FrameType) /\ Elsewhere /\ PosStay
  BY ChangedIs, InvIs DEF Holds
<1>2. /\ d \in DevIds \ Live /\ s \in Slots /\ s # 0 /\ Live' = Live \cup {d} /\ dev'[d] = Born(p, s)
      /\ p = Append(dev[Top.dev].pos, Top.port)
      /\ \A e \in DevIds : e # d =>
           /\ dev'[e].status = dev[e].status /\ dev'[e].number = dev[e].number
           /\ dev'[e].parent = dev[e].parent /\ dev'[e].pos = dev[e].pos
           /\ dev'[e].hub = dev[e].hub /\ dev'[e].maxChildren = dev[e].maxChildren
           /\ \A i \in PortNums : dev'[e].children[i] = IF e = Top.dev /\ i = Top.port THEN d ELSE dev[e].children[i]
  BY AllocatesIs
<1>3. /\ \A q : InHand(q) => InHand(q)'
      /\ \A e : EarlyNow(e) => EarlyNow(e)'
      /\ frames'[1].proc = frames[1].proc /\ frames' # << >>
  <2>1. Stays(f)  BY <1>1, BothStay
  <2> QED  BY <1>1, <2>1, HandsStay DEF Stays
<1>4. InHand(p)' /\ \A q : ~Cleared(q)
  <2>1. InHand(p)  BY DropSite
  <2> QED  BY <1>3, <2>1, ChangedSite
<1>5. dev'[d].pos = p /\ dev'[d].hub = FALSE /\ dev'[d].number = s /\ dev'[d].status = "Attached"  BY <1>2 DEF Born
<1>6. ASSUME NEW e \in Live
      PROVE  /\ e \in DevIds /\ e # d
             /\ dev'[e].status = dev[e].status /\ dev'[e].number = dev[e].number
             /\ dev'[e].parent = dev[e].parent /\ dev'[e].pos = dev[e].pos
             /\ dev'[e].hub = dev[e].hub /\ dev'[e].maxChildren = dev[e].maxChildren
  <2>1. e \in DevIds /\ e # d  BY <1>2, LiveIs
  <2> QED  BY <1>2, <2>1
<1>7. Off'
  <2>1. ASSUME NEW e \in Live, NEW q, q = dev[e].pos, Way(q) \ {q} \subseteq enabled, q \notin enabled, q # <<>>
        PROVE  q \in connChange \cup enableChange \/ InHand(q)'
    <3>1. q \in connChange \cup enableChange \/ InHand(q)  BY <1>1, <1>4, <2>1 DEF Elsewhere, Off
    <3> QED  BY <1>3, <3>1
  <2> SUFFICES ASSUME NEW e \in Live \cup {d}, NEW q, q = dev'[e].pos, Way(q) \ {q} \subseteq enabled, q \notin enabled, q # <<>>
               PROVE  q \in connChange \cup enableChange \/ InHand(q)'
    BY <1>2 DEF Off, Way
  <2>2. CASE e = d  BY <1>4, <1>5, <2>2
  <2>3. CASE e \in Live
    <3>1. q = dev[e].pos  BY <1>6, <2>3
    <3> QED  BY <2>1, <2>3, <3>1
  <2> QED  BY <2>2, <2>3
<1>8. Seen'
  <2> SUFFICES ASSUME NEW e \in Live \cup {d}  PROVE SeenOf(e)'
    BY <1>2 DEF Seen
  <2>1. CASE e = d  BY <1>5, <2>1 DEF SeenOf
  <2>2. CASE e \in Live
    <3>1. dev'[e].pos = dev[e].pos /\ dev'[e].hub = dev[e].hub /\ dev'[e].maxChildren = dev[e].maxChildren
          /\ e \in DevIds /\ e # d
      BY <1>6, <2>2
    <3> SUFFICES ASSUME dev[e].hub, Way(dev[e].pos) \subseteq enabled, NEW i \in 1 .. dev[e].maxChildren,
                        NEW q, q = Append(dev[e].pos, i), q \notin connChange, ~InHand(q)'
                 PROVE  /\ dev'[e].children[i] # Null => q \in plugged
                        /\ q \in plugged /\ ~gaveUp => dev'[e].children[i] # Null
      BY <3>1 DEF SeenOf, Way
    <3>2. SeenOf(e)  BY <1>1, <2>2 DEF Elsewhere, Seen
    <3>3. i \in PortNums
      <4> DEFINE m == dev[e].maxChildren
      <4> DEFINE c == PortCount[dev[e].pos]
      <4>1. m \in Nat /\ c \in Nat /\ m <= c /\ dev[e].pos \in Positions  BY <1>1, <3>1, DeviceIs
      <4>2. i \in 1 .. m  OBVIOUS
      <4>3. i \in 1 .. c
        <5> HIDE DEF m, c
        <5> QED  BY <4>1, <4>2
      <4> QED  BY <4>1, <4>3, PortIs
    <3>4. q # p /\ ~InHand(q)  BY <1>3, <1>4
    <3>5. ~(e = Top.dev /\ i = Top.port)  BY <1>2, <3>4
    <3>6. dev'[e].children[i] = dev[e].children[i]  BY <1>2, <3>1, <3>3, <3>5
    <3> QED  BY <3>2, <3>4, <3>6 DEF SeenOf
  <2> QED  BY <2>1, <2>2
<1>9. Addressed'
  <2> SUFFICES ASSUME NEW e \in Live \cup {d}  PROVE AddressedIs(e)'
    BY <1>2 DEF Addressed
  <2>1. CASE e = d
    <3>1. \A q : q = dev'[e].pos => InHand(q)'  BY <1>4, <1>5, <2>1
    <3> QED  BY <1>2, <1>5, <2>1, <3>1 DEF AddressedIs
  <2>2. CASE e \in Live
    <3>1. AddressedIs(e)  BY <1>1, <2>2 DEF Elsewhere, Addressed
    <3>2. (EarlyNow(e) => EarlyNow(e)') /\ (InHand(dev[e].pos) => InHand(dev[e].pos)')
      <4> SUFFICES ASSUME NEW q, q = dev[e].pos, InHand(q)  PROVE InHand(q)'
        BY <1>3, <1>6, <2>2
      <4> QED  BY <1>3
    <3>3. d # 1 /\ e # d  BY <1>1, <1>2, <2>2 DEF Tree, Rooted
    <3> QED  BY <1>3, <1>6, <2>2, <3>1, <3>2, <3>3 DEF AddressedIs
  <2> QED  BY <2>1, <2>2
<1> QED  BY <1>7, <1>8, <1>9 DEF Elsewhere

LEMMA LeastIs ==
  ASSUME NEW S \in SUBSET Nat, S # {}
  PROVE  Least(S) \in S
<1>1. \E m \in S : \A k \in S : m <= k  BY LeastNumber
<1> QED  BY <1>1 DEF Least

LEMMA AllocateNewKeeps == ASSUME TreeInv, Live # DevIds => FreeSlots # {}, AllocateNew, NEW n, n = Len(frames) PROVE TreeInv'
<1>1. frames # << >> /\ Top.proc = "ConnectionChanged" /\ Top.at = "allocate" /\ UNCHANGED <<status, hardware>>
  BY DEF AllocateNew, At
<1>2. /\ Types /\ TypeOK /\ Tree /\ n \in Nat \ {0} /\ n \in 1 .. Len(frames) /\ Top = frames[n]
      /\ KnowsChanged(n) /\ Child = On(n) /\ PortPos = PortOf(n) /\ NotCleared
      /\ Top.dev \in Live /\ Top.dev \in DevIds /\ Way(PosOf(n)) \subseteq enabled \ connChange
  BY <1>1, ChangedIs
<1>3. UNCHANGED <<status, plugged, enabled, connChange, enableChange>>  BY <1>1 DEF hardware
<1>4. /\ PortOf(n) \notin connChange /\ PortOf(n) \in plugged /\ On(n) = Null /\ Up(PortOf(n)) /\ Reports(PortOf(n))
  BY <1>1, <1>2 DEF KnowsChanged
<1>5. CASE Live = DevIds
  <2>1. /\ dev' = [dev EXCEPT ![Top.dev].children[Top.port] = Null] /\ Return("error") /\ gaveUp' = TRUE /\ UNCHANGED devices
    BY <1>5 DEF AllocateNew
  <2>2. dev' = dev
    <3> DEFINE h == Top.dev
    <3> DEFINE i == Top.port
    <3>1. h \in DevIds /\ dev[h].children[i] = Null /\ dev \in [DevIds -> DeviceType]  BY <1>2, <1>4 DEF On, TypeOK
    <3>2. dev[h] \in DeviceType /\ i \in PortNums  BY <1>1, <1>2, <3>1, PortOfIs DEF OnPort
    <3>3. dev' = [dev EXCEPT ![h].children[i] = Null]  BY <2>1
    <3> HIDE DEF h, i
    <3>4. [dev[h] EXCEPT !.children[i] = Null] = dev[h]  BY <3>1, <3>2 DEF DeviceType
    <3> QED  BY <3>1, <3>3, <3>4
  <2>3. Quiet  BY <1>1, <2>1, <2>2 DEF Quiet
  <2>4. Returns  BY <1>1, <1>2, <2>1, ReturnIs DEF Return
  <2>5. n # 1 => Knows(n - 1)'
    <3>1. dev'[Top.dev].children[Top.port] = Null  BY <1>2, <1>4, <2>2 DEF On
    <3> QED  BY <1>1, <1>3, <1>4, <2>2, <2>4, <3>1, ChangedCaller
  <2>6. \A d \in Live : dev[d].pos # PortOf(n)  BY <1>1, <1>2, <1>4, OnIsThere DEF OnPort
  <2>7. LeavesWell  BY <1>1, <1>4, <2>1, <2>6 DEF LeavesWell
  <2> QED  BY <1>1, <1>2, <2>1, <2>3, <2>5, <2>7, ReturnQuiet
<1>6. CASE Live # DevIds
  <2>1. PICK d, s : d = Least(DevIds \ Live) /\ s = Least(FreeSlots)  OBVIOUS
  <2>2. d \in DevIds \ Live
    <3>1. Cardinality(DevIds) \in Nat /\ DevIds = 1 .. Cardinality(DevIds)  BY BoundsAssumption, FS_CardinalityType
    <3>2. DevIds \ Live \in SUBSET Nat
      <4> DEFINE c == Cardinality(DevIds)
      <4>1. c \in Nat /\ DevIds = 1 .. c  BY <3>1
      <4> HIDE DEF c
      <4> QED  BY <4>1
    <3>3. DevIds \ Live # {}  BY <1>6, LiveIs
    <3> QED  BY <2>1, <3>2, <3>3, LeastIs
  <2>3. s \in Slots /\ devices[s] = Null /\ Numbers = {s}
    <3>1. FreeSlots \in SUBSET Nat  BY BoundsAssumption DEF FreeSlots, Slots
    <3>2. s \in FreeSlots  BY <1>6, <2>1, <3>1, LeastIs
    <3> QED  BY <2>1, <3>2 DEF FreeSlots, Numbers
  <2>4. /\ dev' = [dev EXCEPT ![d] = [Free EXCEPT !.status = "Attached", !.number = s, !.pos = PortPos],
                              ![Top.dev].children[Top.port] = d]
        /\ devices' = [devices EXCEPT ![s] = d]
        /\ Goto("status_new") /\ UNCHANGED <<result, gaveUp>>
    BY <1>6, <2>1, <2>3 DEF AllocateNew
  <2>5. [Free EXCEPT !.status = "Attached", !.number = s, !.pos = PortPos] = Born(PortPos, s)
    <3> DEFINE c == [i \in PortNums |-> Null]
    <3> DEFINE q == PortPos
    <3> DEFINE R == [status : {"Free", "Attached"}, number : {0, s}, parent : {Null}, port : {0}, pos : {<<>>, q},
                     hub : {FALSE}, maxChildren : {0}, children : {c}]
    <3>1. Free \in R /\ Born(q, s) \in R  BY DEF Free, Born
    <3>2. [Free EXCEPT !.status = "Attached", !.number = s, !.pos = q] \in R
      <4> HIDE DEF c, q
      <4> QED  BY <3>1
    <3>3. Free.parent = Null /\ Free.port = 0 /\ Free.hub = FALSE /\ Free.maxChildren = 0 /\ Free.children = c  BY DEF Free
    <3>4. /\ Born(q, s).status = "Attached" /\ Born(q, s).number = s /\ Born(q, s).pos = q /\ Born(q, s).parent = Null
          /\ Born(q, s).port = 0 /\ Born(q, s).hub = FALSE /\ Born(q, s).maxChildren = 0 /\ Born(q, s).children = c
      BY DEF Born
    <3> HIDE DEF c, q
    <3>5. [Free EXCEPT !.status = "Attached", !.number = s, !.pos = q] = Born(q, s)  BY <3>1, <3>2, <3>3, <3>4
    <3> QED  BY <3>5 DEF q
  <2>6. Allocates(d, s)  BY <2>2, <2>3, <2>4, <2>5 DEF Allocates
  <2>7. PICK p : p = PortOf(n)  OBVIOUS
  <2>8. UNCHANGED <<status, plugged, enabled, connChange, enableChange, gaveUp, result>>  BY <1>3, <2>4
  <2>9. "status_new" \in Places[Top.proc]  BY <1>1 DEF Places
  <2>10. PICK f \in FrameType : Goes(f) /\ f.proc = Top.proc /\ f.at = "status_new" /\ f.dev = Top.dev /\ f.port = Top.port /\ f.n = Top.n
    BY <1>1, <1>2, <2>4, <2>9, GotoPick
  <2>11. Lower /\ frames'[n] = f /\ Len(frames') = n  BY <2>10 DEF Goes
  <2>12. Holds  BY <1>1, <1>4, <2>6, <2>7, <2>8, <2>11, AllocatesHolds
  <2>13. Elsewhere'
    <3>1. UNCHANGED <<status, plugged, enabled, connChange, enableChange, gaveUp>>  BY <2>8
    <3> QED  BY <1>1, <2>6, <2>7, <2>10, <2>12, <3>1, AllocatesElsewhere
  <2>14. /\ d # Null /\ s # 0 /\ dev'[d] = Born(p, s) /\ Top.port \in PortNums /\ Top.dev # d
         /\ dev'[Top.dev].pos = dev[Top.dev].pos /\ dev'[Top.dev].children[Top.port] = d
    <3>1. /\ d # Null /\ s # 0 /\ dev'[d] = Born(p, s) /\ Top.port \in PortNums
          /\ \A e \in DevIds : e # d =>
               /\ dev'[e].pos = dev[e].pos
               /\ \A i \in PortNums : dev'[e].children[i] = IF e = Top.dev /\ i = Top.port THEN d ELSE dev[e].children[i]
      BY <1>1, <2>6, <2>7, AllocatesIs
    <3>2. Top.dev # d  BY <1>2, <2>2
    <3> QED  BY <1>2, <3>1, <3>2
  <2>15. PosOf(n)' = PosOf(n) /\ PortOf(n)' = p /\ On(n)' = d
    BY <1>2, <2>7, <2>10, <2>11, <2>14 DEF PosOf, PortOf, On
  <2>16. Open(n)'
    <3>1. ~Rereset(n)'  BY <1>1, <2>10, <2>11 DEF Rereset
    <3> QED  BY <1>2, <1>3, <2>15, <3>1 DEF Open, Settled
  <2>17. Knows(n)'
    <3>1. frames'[n].proc = "ConnectionChanged" /\ frames'[n].at = "status_new" /\ IsTop(n)'  BY <1>1, <2>10, <2>11 DEF IsTop
    <3>2. \A q : Up(q)' = Up(q) /\ Reports(q)' = Reports(q)  BY <1>3 DEF Up, Reports
    <3>3. Up(PortOf(n))' /\ Reports(PortOf(n))'  BY <1>4, <2>7, <2>15, <3>2
    <3>4. dev'[d].hub = FALSE /\ dev'[d].maxChildren = 0 /\ dev'[d].status = "Attached" /\ dev'[d].parent = Null /\ dev'[d].number # 0
      BY <2>14 DEF Born
    <3>6. /\ dev'[On(n)'].hub = FALSE /\ dev'[On(n)'].maxChildren = 0
          /\ dev'[On(n)'].status = "Attached" /\ dev'[On(n)'].parent = Null /\ dev'[On(n)'].number # 0
      BY <2>15, <3>4
    <3>7. On(n)' # Null /\ PortOf(n)' \notin connChange' /\ PortOf(n)' \in plugged'  BY <1>3, <1>4, <2>7, <2>14, <2>15
    <3>8. KnowsChanged(n)'  BY <3>1, <3>3, <3>6, <3>7 DEF KnowsChanged, Bare
    <3> QED  BY <3>1, <3>8, KnowsIs
  <2>18. f.at \in Places[f.proc] /\ f.proc # "HubAttach" /\ Top.proc \notin {"Verify", "CheckConnection", "CheckForChange"}
    BY <1>1, <2>9, <2>10
  <2> QED  BY <1>1, <2>10, <2>12, <2>13, <2>16, <2>17, <2>18, GoesAnew
<1> QED  BY <1>5, <1>6

-----------------------------------------------------------------------------
(* The new device gets its parent.                                         *)
Adopts(c) == dev' = [dev EXCEPT ![c].parent = Top.dev, ![c].port = Top.port]

LEMMA AdoptsIs ==
  ASSUME TreeInv, frames # << >>, NEW n, n = Len(frames), Top.proc = "ConnectionChanged", NEW p, p = PortOf(n),
         NEW c, c = On(n), c # Null, Adopts(c)
  PROVE  /\ c \in Live /\ c \in DevIds /\ c # 1 /\ dev[c].pos = p /\ p # << >> /\ p \in Positions
         /\ Top.dev \in Live /\ Top.dev \in DevIds /\ Top.dev # Null /\ Top.port \in PortNums
         /\ dev[Top.dev].children[Top.port] = c
         /\ Live' = Live /\ dev' \in [DevIds -> DeviceType]
         /\ dev'[c].parent = Top.dev /\ dev'[c].port = Top.port
         /\ \A e \in DevIds : e # c => dev'[e] = dev[e]
         /\ \A e \in DevIds :
              /\ dev'[e].status = dev[e].status /\ dev'[e].number = dev[e].number
              /\ dev'[e].pos = dev[e].pos /\ dev'[e].children = dev[e].children
              /\ dev'[e].hub = dev[e].hub /\ dev'[e].maxChildren = dev[e].maxChildren
<1>1. /\ Types /\ TypeOK /\ Tree /\ n \in 1 .. Len(frames) /\ Top = frames[n]
      /\ Top.dev \in Live /\ Top.dev \in DevIds /\ p \in Ports
  BY ChangedIs
<1>2. Top.port \in PortNums  BY <1>1, PortOfIs DEF OnPort
<1>3. c \in Live /\ dev[c].pos = p /\ p # << >>  BY <1>1, OnIsThere DEF OnPort
<1>4. c \in DevIds /\ c # 1 /\ Top.dev # Null /\ p \in Positions
  <2>1. c # 1  BY <1>1, <1>3 DEF Tree, Rooted
  <2> QED  BY <1>1, <1>3, <2>1, LiveIs, DeviceIs DEF Ports
<1>5. dev[Top.dev].children[Top.port] = c  BY <1>1 DEF On
<1> DEFINE h == Top.dev
<1> DEFINE i == Top.port
<1>6. dev \in [DevIds -> DeviceType] /\ dev[c] \in DeviceType /\ h \in DevIds /\ i \in PortNums  BY <1>1, <1>2, <1>4 DEF TypeOK
<1>7. dev' = [dev EXCEPT ![c].parent = h, ![c].port = i]  BY DEF Adopts
<1> HIDE DEF h, i
<1>8. /\ dev'[c] = [dev[c] EXCEPT !.parent = h, !.port = i]
      /\ \A e \in DevIds : e # c => dev'[e] = dev[e]
      /\ dev' = [e \in DevIds |-> dev'[e]]
  BY <1>4, <1>6, <1>7
<1>9. /\ dev'[c] \in DeviceType /\ dev'[c].parent = h /\ dev'[c].port = i
      /\ dev'[c].status = dev[c].status /\ dev'[c].number = dev[c].number
      /\ dev'[c].pos = dev[c].pos /\ dev'[c].children = dev[c].children
      /\ dev'[c].hub = dev[c].hub /\ dev'[c].maxChildren = dev[c].maxChildren
  BY <1>6, <1>8 DEF DeviceType
<1>10. dev' \in [DevIds -> DeviceType]
  <2>1. \A e \in DevIds : dev'[e] \in DeviceType  BY <1>6, <1>8, <1>9
  <2> QED  BY <1>8, <2>1
<1>11. \A e \in DevIds :
         /\ dev'[e].status = dev[e].status /\ dev'[e].number = dev[e].number
         /\ dev'[e].pos = dev[e].pos /\ dev'[e].children = dev[e].children
         /\ dev'[e].hub = dev[e].hub /\ dev'[e].maxChildren = dev[e].maxChildren
  BY <1>8, <1>9
<1>12. Live' = Live  BY <1>11 DEF Live
<1> QED  BY <1>1, <1>2, <1>3, <1>4, <1>5, <1>8, <1>9, <1>10, <1>11, <1>12 DEF h, i

LEMMA AdoptsHolds ==
  ASSUME TreeInv, frames # << >>, NEW n, n = Len(frames), Top.proc = "ConnectionChanged", NEW p, p = PortOf(n),
         NEW c, c = On(n), c # Null, Adopts(c), Lower,
         UNCHANGED <<devices, status, plugged, enabled, connChange, enableChange, gaveUp, result>>
  PROVE  Holds
<1>1. /\ Types /\ TypeOK /\ Tree /\ Table /\ n \in Nat \ {0} /\ n \in 1 .. Len(frames) /\ Top = frames[n]
  BY ChangedIs
<1>2. /\ c \in Live /\ c \in DevIds /\ c # 1 /\ dev[c].pos = p /\ p # << >>
      /\ Top.dev \in Live /\ Top.dev # Null /\ Top.port \in PortNums
      /\ dev[Top.dev].children[Top.port] = c
      /\ Live' = Live /\ dev' \in [DevIds -> DeviceType]
      /\ dev'[c].parent = Top.dev /\ dev'[c].port = Top.port
      /\ \A e \in DevIds : e # c => dev'[e] = dev[e]
      /\ \A e \in DevIds :
           /\ dev'[e].status = dev[e].status /\ dev'[e].number = dev[e].number
           /\ dev'[e].pos = dev[e].pos /\ dev'[e].children = dev[e].children
           /\ dev'[e].maxChildren = dev[e].maxChildren
  BY AdoptsIs
<1>3. TypeOK'  BY <1>1, <1>2 DEF TypeOK
<1>4. \A e \in Live : e \in DevIds  BY LiveIs
<1>5. Tree'
  <2>1. Rooted'  BY <1>1, <1>2, <1>4 DEF Tree, Rooted
  <2>2. FreeIsNew'  BY <1>1, <1>2 DEF Tree, FreeIsNew, Free
  <2>3. Children'
    <3> SUFFICES ASSUME NEW e \in Live, NEW i \in PortNums, dev[e].children[i] # Null
                 PROVE  /\ dev[e].children[i] \in Live
                        /\ dev'[dev[e].children[i]].pos = Append(dev'[e].pos, i)
                        /\ i <= dev'[e].maxChildren
      BY <1>2, <1>4 DEF Children
    <3>1. /\ dev[e].children[i] \in Live /\ dev[dev[e].children[i]].pos = Append(dev[e].pos, i)
          /\ i <= dev[e].maxChildren
      BY <1>1 DEF Tree, Children
    <3> QED  BY <1>2, <1>4, <3>1
  <2>4. OnePlace'  BY <1>1, <1>2, <1>4 DEF Tree, OnePlace
  <2>5. Hooked'
    <3> SUFFICES ASSUME NEW e \in Live, dev[e].pos # << >>
                 PROVE  \E f \in Live, i \in PortNums : dev'[f].children[i] = e
      BY <1>2, <1>4 DEF Hooked
    <3>1. PICK f \in Live, i \in PortNums : dev[f].children[i] = e  BY <1>1 DEF Tree, Hooked
    <3> QED  BY <1>2, <1>4, <3>1
  <2>6. Parents'
    <3> SUFFICES ASSUME NEW e \in Live, dev'[e].parent # Null
                 PROVE  /\ dev'[e].parent \in Live /\ dev'[e].port \in PortNums
                        /\ dev[dev'[e].parent].children[dev'[e].port] = e
      <4>1. \A f \in Live : dev'[f].children = dev[f].children  BY <1>2, <1>4
      <4> QED  BY <1>2, <4>1 DEF Parents
    <3>1. CASE e = c  BY <1>2, <3>1
    <3>2. CASE e # c
      <4>1. dev'[e] = dev[e]  BY <1>2, <1>4, <3>2
      <4> QED  BY <1>1, <4>1 DEF Tree, Parents
    <3> QED  BY <3>1, <3>2
  <2>7. Parented'
    <3> SUFFICES ASSUME NEW e \in Live, dev'[e].pos # << >>
                 PROVE  dev'[e].status = "Attached" \/ dev'[e].parent # Null
      BY <1>2 DEF Parented
    <3>1. CASE e = c  BY <1>2, <3>1
    <3>2. CASE e # c
      <4>1. dev'[e] = dev[e]  BY <1>2, <1>4, <3>2
      <4> QED  BY <1>1, <4>1 DEF Tree, Parented
    <3> QED  BY <3>1, <3>2
  <2> QED  BY <2>1, <2>2, <2>3, <2>4, <2>5, <2>6, <2>7 DEF Tree
<1>6. Table'
  <2>1. \A e \in Live : dev'[e].number = dev[e].number  BY <1>2, <1>4
  <2>2. Numbered'  BY <1>1, <1>2, <2>1 DEF Table, Numbered
  <2>3. OneSlot'  BY <1>1, <1>2 DEF Table, OneSlot
  <2> QED  BY <2>2, <2>3 DEF Table
<1>7. \A k \in 1 .. n : frames[k].dev \in DevIds /\ frames[k].dev \in Live  BY <1>1, PlaceIs
<1>8. PosStay  BY <1>2, <1>7 DEF PosStay
<1>9. \A k \in 1 .. n : dev'[frames[k].dev].maxChildren >= dev[frames[k].dev].maxChildren
  <2> SUFFICES ASSUME NEW k \in 1 .. n, NEW m, m = dev[frames[k].dev].maxChildren  PROVE dev'[frames[k].dev].maxChildren >= m
    OBVIOUS
  <2>1. m \in Nat  BY <1>1, <1>7, DeviceIs
  <2>2. m >= m  BY <2>1
  <2> QED  BY <1>2, <1>7, <2>2
<1>10. ASSUME NEW k \in 1 .. n - 1  PROVE Open(k)' /\ Waits(k)'
  <2>1. k \in 1 .. n /\ frames'[k] = frames[k] /\ k \in 1 .. Len(frames)  BY <1>1, <1>10 DEF Lower
  <2>2. Waits(k) /\ ~Rereset(k) /\ Open(k)
    <3>1. Open(k)  BY <2>1, InvIs DEF Paths
    <3> QED  BY <1>10, <2>1, <3>1, ChangedSite
  <2>3. frames[k].dev \in DevIds /\ frames[k].dev \in Live  BY <1>7, <2>1
  <2>4. /\ dev'[frames[k].dev].pos = dev[frames[k].dev].pos /\ dev'[frames[k].dev].children = dev[frames[k].dev].children
        /\ dev'[frames[k].dev].status = dev[frames[k].dev].status /\ dev'[frames[k].dev].number = dev[frames[k].dev].number
        /\ dev[frames[k].dev].parent # Null => dev'[frames[k].dev].parent # Null
    BY <1>2, <2>3
  <2>5. PosOf(k)' = PosOf(k) /\ PortOf(k)' = PortOf(k) /\ ~Rereset(k)' /\ On(k)' = On(k)
    BY <2>1, <2>2, <2>4 DEF PosOf, PortOf, Rereset, On
  <2>6. Open(k)'  BY <2>2, <2>5 DEF Open, Settled
  <2>7. \A q : Up(q)' = Up(q)  BY DEF Up
  <2>8. frames[k].proc = "ConnectionChanged" /\ On(k) # Null /\ dev[On(k)].parent # Null => dev'[On(k)].parent # Null
    <3> SUFFICES ASSUME frames[k].proc = "ConnectionChanged", On(k) # Null, dev[On(k)].parent # Null
                 PROVE  dev'[On(k)].parent # Null
      OBVIOUS
    <3>1. frames[k].proc \in OnPort  BY DEF OnPort
    <3>2. On(k) \in DevIds  BY <1>1, <2>1, <3>1, OnIsThere, LiveIs
    <3> QED  BY <1>2, <3>2
  <2>9. frames[k].at # "rereset" \/ frames[k].proc # "Attach"  BY <2>2 DEF Rereset
  <2>10. Waits(k)'
    <3>1. CASE frames[k].proc = "ConnectionChanged"  BY <2>1, <2>2, <2>5, <2>8, <3>1 DEF Waits
    <3>2. CASE frames[k].proc = "Attach"  BY <2>1, <2>2, <2>4, <2>5, <2>7, <2>9, <3>2 DEF Waits
    <3>3. CASE frames[k].proc = "HubAttach"  BY <2>1, <2>2, <2>4, <3>3 DEF Waits
    <3>4. CASE frames[k].proc \notin {"ConnectionChanged", "Attach", "HubAttach"}  BY <2>1, <3>4 DEF Waits
    <3> QED  BY <3>1, <3>2, <3>3, <3>4
  <2> QED  BY <2>6, <2>10
<1> QED  BY <1>2, <1>3, <1>5, <1>6, <1>7, <1>8, <1>9, <1>10 DEF Holds

LEMMA AdoptsElsewhere ==
  ASSUME TreeInv, frames # << >>, NEW n, n = Len(frames), Top.proc = "ConnectionChanged", NEW p, p = PortOf(n),
         NEW c, c = On(n), c # Null, Adopts(c), Holds, NEW f, NEW g, Makes(f, g),
         UNCHANGED <<status, plugged, enabled, connChange, enableChange, gaveUp>>
  PROVE  Elsewhere'
<1>1. /\ Types /\ TypeOK /\ Tree /\ n \in 1 .. Len(frames) /\ Top = frames[n]
      /\ frames \in Seq(FrameType) /\ Elsewhere /\ PosStay
  BY ChangedIs, InvIs DEF Holds
<1>2. /\ c \in Live /\ dev[c].pos = p /\ Live' = Live
      /\ \A e \in DevIds : e # c => dev'[e] = dev[e]
      /\ \A e \in DevIds :
           /\ dev'[e].status = dev[e].status /\ dev'[e].number = dev[e].number
           /\ dev'[e].pos = dev[e].pos /\ dev'[e].children = dev[e].children
           /\ dev'[e].hub = dev[e].hub /\ dev'[e].maxChildren = dev[e].maxChildren
  BY AdoptsIs
<1>3. /\ \A q : InHand(q) => InHand(q)'
      /\ \A e : EarlyNow(e) => EarlyNow(e)'
      /\ frames'[1].proc = frames[1].proc /\ frames' # << >>
  <2>1. Stays(f)  BY <1>1, BothStay
  <2> QED  BY <1>1, <2>1, HandsStay DEF Stays
<1>4. InHand(p) /\ \A q : ~Cleared(q)
  <2>1. InHand(p)  BY DropSite
  <2> QED  BY <2>1, ChangedSite
<1>5. ASSUME NEW e \in Live
      PROVE  /\ dev'[e].status = dev[e].status /\ dev'[e].number = dev[e].number
             /\ dev'[e].pos = dev[e].pos /\ dev'[e].children = dev[e].children
             /\ dev'[e].hub = dev[e].hub /\ dev'[e].maxChildren = dev[e].maxChildren
             /\ e # c => dev'[e].parent = dev[e].parent
  BY <1>2, LiveIs
<1>6. Off'
  <2> SUFFICES ASSUME NEW e \in Live, NEW q, q = dev[e].pos, Way(q) \ {q} \subseteq enabled, q \notin enabled, q # <<>>
               PROVE  q \in connChange \cup enableChange \/ InHand(q)'
    BY <1>2, <1>5 DEF Off, Way
  <2>1. q \in connChange \cup enableChange \/ InHand(q)  BY <1>1, <1>4 DEF Elsewhere, Off
  <2> QED  BY <1>3, <2>1
<1>7. Seen'
  <2> SUFFICES ASSUME NEW e \in Live  PROVE SeenOf(e)'
    BY <1>2 DEF Seen
  <2>1. dev'[e].pos = dev[e].pos /\ dev'[e].hub = dev[e].hub /\ dev'[e].maxChildren = dev[e].maxChildren
        /\ dev'[e].children = dev[e].children
    BY <1>5
  <2> SUFFICES ASSUME dev[e].hub, Way(dev[e].pos) \subseteq enabled, NEW i \in 1 .. dev[e].maxChildren,
                      NEW q, q = Append(dev[e].pos, i), q \notin connChange, ~InHand(q)'
               PROVE  /\ dev[e].children[i] # Null => q \in plugged
                      /\ q \in plugged /\ ~gaveUp => dev[e].children[i] # Null
    BY <2>1 DEF SeenOf, Way
  <2>2. SeenOf(e)  BY <1>1 DEF Elsewhere, Seen
  <2>3. ~InHand(q)  BY <1>3
  <2> QED  BY <2>2, <2>3 DEF SeenOf
<1>8. Addressed'
  <2> SUFFICES ASSUME NEW e \in Live  PROVE AddressedIs(e)'
    BY <1>2 DEF Addressed
  <2>1. AddressedIs(e)  BY <1>1 DEF Elsewhere, Addressed
  <2>2. (EarlyNow(e) => EarlyNow(e)') /\ (InHand(dev[e].pos) => InHand(dev[e].pos)')
    <3> SUFFICES ASSUME NEW q, q = dev[e].pos, InHand(q)  PROVE InHand(q)'
      BY <1>3, <1>5
    <3> QED  BY <1>3
  <2>3. CASE e = c
    <3>1. InHand(dev[e].pos)  BY <1>2, <1>4, <2>3
    <3> QED  BY <1>3, <1>5, <2>1, <2>2, <3>1 DEF AddressedIs
  <2>4. CASE e # c  BY <1>3, <1>5, <2>1, <2>2, <2>4 DEF AddressedIs
  <2> QED  BY <2>3, <2>4
<1> QED  BY <1>6, <1>7, <1>8 DEF Elsewhere

LEMMA AttachNewKeeps == ASSUME TreeInv, AttachNew, NEW n, n = Len(frames) PROVE TreeInv'
<1>1. /\ frames # << >> /\ Top.proc = "ConnectionChanged" /\ Top.at = "got_new"
      /\ UNCHANGED <<devices, status, hardware, counts>>
  BY DEF AttachNew, At
<1>2. /\ Types /\ TypeOK /\ Tree /\ n \in Nat \ {0} /\ n \in 1 .. Len(frames) /\ Top = frames[n] /\ IsTop(n)
      /\ KnowsChanged(n) /\ Child = On(n) /\ PortPos = PortOf(n) /\ NotCleared
      /\ Top.dev \in Live /\ Top.dev \in DevIds /\ Way(PosOf(n)) \subseteq enabled \ connChange
  BY <1>1, ChangedIs
<1>3. UNCHANGED <<devices, status, plugged, enabled, connChange, enableChange, gaveUp>>  BY <1>1 DEF hardware, counts
<1>4. PICK p, c : p = PortOf(n) /\ c = On(n)  OBVIOUS
<1>5. /\ p \notin connChange /\ p \in plugged /\ Up(p) /\ Reports(p)
      /\ c # Null /\ Bare(c) /\ dev[c].status = "Attached" /\ dev[c].parent = Null /\ dev[c].number # 0
      /\ result # "ok" => gaveUp
  BY <1>1, <1>2, <1>4 DEF KnowsChanged, GotError
<1>6. CASE result # "ok"
  <2>1. Return("error") /\ UNCHANGED dev  BY <1>6 DEF AttachNew
  <2>2. Quiet /\ dev' = dev  BY <1>1, <1>3, <2>1 DEF Quiet
  <2>3. Returns  BY <1>1, <1>2, <2>1, ReturnIs DEF Return
  <2>4. n # 1 => Knows(n - 1)'
    <3>1. dev'[Top.dev].pos = dev[Top.dev].pos /\ PortOf(n) \notin connChange /\ PortOf(n) \in plugged /\ Up(PortOf(n))
      BY <1>4, <1>5, <2>1
    <3> QED  BY <1>1, <1>3, <2>3, <3>1, ChangedCaller
  <2>5. LeavesWell
    <3>1. ASSUME NEW d \in Live, dev[d].pos = p  PROVE p \in enabled /\ AddressedIs(d)'
      <4>1. d = c  BY <1>1, <1>2, <1>4, <3>1, OnIsThere DEF OnPort
      <4> QED  BY <1>3, <1>5, <1>6, <2>1, <4>1 DEF AddressedIs, Up
    <3> QED  BY <1>1, <1>3, <1>4, <1>5, <3>1 DEF LeavesWell
  <2> QED  BY <1>1, <1>2, <2>1, <2>2, <2>4, <2>5, ReturnQuiet
<1>7. CASE result = "ok"
  <2>1. Adopts(c) /\ Call("attached", Frame("Attach", "begin", c, 0)) /\ UNCHANGED result
    BY <1>2, <1>4, <1>7 DEF AttachNew, Adopts
  <2>2. /\ c \in Live /\ c \in DevIds /\ dev[c].pos = p /\ p # << >> /\ p \in Positions
        /\ Top.dev # Null /\ Live' = Live /\ dev'[c].parent = Top.dev
        /\ \A e \in DevIds :
             /\ dev'[e].status = dev[e].status /\ dev'[e].number = dev[e].number
             /\ dev'[e].pos = dev[e].pos /\ dev'[e].children = dev[e].children
             /\ dev'[e].hub = dev[e].hub /\ dev'[e].maxChildren = dev[e].maxChildren
    BY <1>1, <1>4, <1>5, <2>1, AdoptsIs
  <2>3. "attached" \in Places[Top.proc] /\ "Attach" \in Procs /\ "begin" \in Places["Attach"]  BY <1>1 DEF Places, Procs
  <2>4. PICK f \in FrameType, g \in FrameType :
          /\ Makes(f, g) /\ f.proc = Top.proc /\ f.at = "attached" /\ f.dev = Top.dev /\ f.port = Top.port /\ f.n = Top.n
          /\ g.proc = "Attach" /\ g.at = "begin" /\ g.dev = c /\ g.port = 0
    <3>1. 0 \in Nat  OBVIOUS
    <3>2. Call("attached", Frame("Attach", "begin", c, 0)) /\ c \in DevIds  BY <2>1, <2>2
    <3> QED  BY <1>1, <1>2, <2>3, <3>1, <3>2, CallNewPick
  <2>5. Lower /\ frames'[n] = f /\ frames'[n + 1] = g /\ Len(frames') = n + 1  BY <2>4 DEF Makes
  <2>6. UNCHANGED <<devices, status, plugged, enabled, connChange, enableChange, gaveUp, result>>  BY <1>3, <2>1
  <2>7. Holds  BY <1>1, <1>4, <1>5, <2>1, <2>5, <2>6, AdoptsHolds
  <2>8. Elsewhere'  BY <1>1, <1>3, <1>4, <1>5, <2>1, <2>4, <2>7, AdoptsElsewhere
  <2>9. /\ PosOf(n)' = PosOf(n) /\ PortOf(n)' = p /\ On(n)' = c /\ PosOf(n + 1)' = p
    <3>1. /\ frames'[n].dev = frames[n].dev /\ frames'[n].port = frames[n].port /\ frames'[n + 1].dev = c
      BY <1>2, <2>4, <2>5
    <3>2. /\ dev'[frames[n].dev].pos = dev[frames[n].dev].pos /\ dev'[frames[n].dev].children = dev[frames[n].dev].children
          /\ dev'[c].pos = p
      BY <1>2, <2>2
    <3>3. p = Append(dev[frames[n].dev].pos, frames[n].port) /\ c = dev[frames[n].dev].children[frames[n].port]
      BY <1>4 DEF PosOf, PortOf, On
    <3> QED  BY <3>1, <3>2, <3>3, Zenon DEF PosOf, PortOf, On
  <2>10. /\ ~GotOK(n)' /\ ~GotError(n)' /\ n # n + 1
    BY <1>2, <2>4, <2>5 DEF GotOK, GotError, IsTop, Asking
  <2>11. Way(p) = Way(PosOf(n)) \cup {p}  BY <1>1, <1>2, <1>4, PortOfIs DEF OnPort
  <2>12. \A q : Up(q)' = Up(q) /\ Reports(q)' = Reports(q)  BY <1>3 DEF Up, Reports
  <2>13. FrameOK(n + 1)'
    <3>1. c \in Live' /\ g.at \in Places[g.proc]  BY <2>2, <2>3, <2>4
    <3> QED  BY <2>4, <2>5, <3>1 DEF FrameOK, OnPort
  <2>14. Calls(n)'  BY <1>1, <2>4, <2>5, <2>9 DEF Calls
  <2>15. Open(n)'
    <3>1. ~Rereset(n)'  BY <1>1, <2>4, <2>5 DEF Rereset
    <3> QED  BY <1>2, <1>3, <2>9, <3>1 DEF Open, Settled
  <2>16. Open(n + 1)'
    <3>1. ~Rereset(n + 1)'  BY <2>4, <2>5 DEF Rereset
    <3>2. Settled(p)  BY <1>2, <1>5, <2>11 DEF Settled, Up
    <3>3. Settled(p)'  BY <1>3, <3>2 DEF Settled, Way
    <3> QED  BY <2>9, <3>1, <3>3 DEF Open, Settled
  <2>17. Knows(n)'
    <3>1. frames'[n].proc = "ConnectionChanged" /\ frames'[n].at = "attached"  BY <1>1, <2>4, <2>5
    <3>2. /\ PortOf(n)' \notin connChange' /\ PortOf(n)' \in plugged' /\ On(n)' # Null /\ dev'[On(n)'].parent # Null
      BY <1>3, <1>5, <2>2, <2>9
    <3>3. KnowsChanged(n)'  BY <2>10, <3>1, <3>2 DEF KnowsChanged
    <3> QED  BY <3>1, <3>3, KnowsIs
  <2>18. Knows(n + 1)'
    <3>1. frames'[n + 1].proc = "Attach" /\ frames'[n + 1].at = "begin" /\ frames'[n + 1].dev = c  BY <2>4, <2>5
    <3>2. Bare(c)'  BY <1>5, <2>2 DEF Bare
    <3>3. Up(p)' /\ Reports(p)' /\ p \in plugged'  BY <1>3, <1>5, <2>12
    <3>4. Up(PosOf(n + 1))' /\ Reports(PosOf(n + 1))' /\ PosOf(n + 1)' \in plugged'
      <4>1. \A q : q = p => Up(q)' /\ Reports(q)' /\ q \in plugged'  BY <3>3
      <4> QED  BY <2>9, <3>3 DEF Up, Reports, Below
    <3>5. dev'[c].number # 0 /\ dev'[c].status = "Attached" /\ dev'[c].parent # Null  BY <1>5, <2>2
    <3>6. "begin" \notin Early /\ "begin" \notin Late  BY DEF Early, Late
    <3>7. KnowsAttach(n + 1)'  BY <3>1, <3>2, <3>4, <3>5, <3>6 DEF KnowsAttach, Bare
    <3> QED  BY <3>1, <3>7, KnowsIs
  <2>19. f.at \in Places[f.proc] /\ f.proc # "HubAttach" /\ Top.proc \notin {"Verify", "CheckConnection", "CheckForChange"}
    BY <1>1, <2>3, <2>4
  <2>20. Way(PosOf(n)) \subseteq Way(dev'[g.dev].pos)  BY <2>2, <2>4, <2>11
  <2> QED  BY <1>1, <2>4, <2>7, <2>8, <2>13, <2>14, <2>15, <2>16, <2>17, <2>18, <2>19, <2>20, MakesAnew
<1> QED  BY <1>6, <1>7

-----------------------------------------------------------------------------
(* UsbAttachDevice and HubAttach write into the device they work on: what  *)
(* the calls below them wait for is still so.                              *)
LEMMA RetouchedHolds ==
  ASSUME TreeInv, frames # << >>, NEW n, n = Len(frames), Top.proc \in {"Attach", "HubAttach"}, NEW d, d = Top.dev,
         NEW r, Retouched(d, r), Lower,
         UNCHANGED <<devices, status, plugged, enabled, connChange, enableChange, gaveUp>>,
         result' \in {"ok", "error", "disconnected"},
         r.number \in {0, dev[d].number} \/ (r.number \in Slots /\ devices[r.number] = d),
         Top.proc = "HubAttach" => r.number = dev[d].number /\ r.status = dev[d].status
  PROVE  Holds
<1>1. /\ Types /\ TypeOK /\ Tree /\ Table /\ Stack /\ Knowledge /\ n \in Nat \ {0} /\ n \in 1 .. Len(frames) /\ Top = frames[n]
      /\ frames \in Seq(FrameType)
  BY InvIs
<1>2. /\ d \in DevIds /\ Live' = Live /\ dev' \in [DevIds -> DeviceType]
      /\ dev'[d] = r /\ \A e \in DevIds : e # d => dev'[e] = dev[e]
      /\ \A e \in DevIds : /\ dev'[e].pos = dev[e].pos /\ dev'[e].parent = dev[e].parent
                           /\ dev'[e].port = dev[e].port /\ dev'[e].children = dev[e].children
                           /\ dev'[e].maxChildren >= dev[e].maxChildren
                           /\ dev'[e].maxChildren <= PortCount[dev'[e].pos]
  BY <1>1, RetouchedIs
<1>3. TypeOK'  BY <1>1, <1>2 DEF TypeOK
<1>4. Tree' /\ PosStay  BY <1>1, RetouchedKeepsTree
<1>5. Table'
  <2>1. UNCHANGED <<devices, gaveUp>>  OBVIOUS
  <2> QED  BY <1>1, <2>1, RetouchedKeepsTable
<1>6. \A k \in 1 .. n : frames[k].dev \in DevIds /\ frames[k].dev \in Live  BY <1>1, PlaceIs
<1>7. Down(n) /\ \A k \in 1 .. n - 1 : Waits(k)
  <2>1. Climbs  BY <1>1 DEF Stack
  <2>2. Down(n)  BY <1>1, <2>1, IsDown
  <2>3. ASSUME NEW k \in 1 .. n - 1  PROVE frames[k + 1].proc # "Verify"
    <3>1. k + 1 \in 1 .. n  BY <1>1
    <3> QED  BY <2>2, <3>1 DEF Down, Climbing
  <2> QED  BY <1>1, <2>2, <2>3, WaitsIs
<1>8. ASSUME NEW k \in 1 .. n - 1
      PROVE  \/ dev'[frames[k].dev] = dev[frames[k].dev]
             \/ /\ frames[k].proc = "Attach" /\ frames[k].at = "end"
                /\ dev'[frames[k].dev].number = dev[frames[k].dev].number
                /\ dev'[frames[k].dev].status = dev[frames[k].dev].status
  <2>1. k \in 1 .. n /\ frames[k].dev \in DevIds  BY <1>1, <1>6
  <2>2. CASE Top.proc = "Attach"
    <3>1. frames[k].dev # d  BY <1>1, <1>7, <2>2, AttachAlone
    <3> QED  BY <1>2, <2>1, <3>1
  <2>3. CASE Top.proc = "HubAttach"
    <3>1. CASE k = n - 1  BY <1>1, <1>2, <1>7, <2>3, <3>1, HubAlone
    <3>2. CASE k # n - 1
      <4>1. k \in 1 .. n - 2  BY <1>1, <3>2
      <4>2. frames[k].dev # d  BY <1>1, <1>7, <2>3, <4>1, HubAlone
      <4> QED  BY <1>2, <2>1, <4>2
    <3> QED  BY <3>1, <3>2
  <2> QED  BY <2>2, <2>3
<1>9. ASSUME NEW k \in 1 .. n - 1  PROVE Open(k)' /\ Waits(k)'
  <2>1. k \in 1 .. n /\ frames'[k] = frames[k] /\ k \in 1 .. Len(frames)  BY <1>1 DEF Lower
  <2>2. frames[k].dev \in DevIds /\ Waits(k)  BY <1>6, <1>7, <2>1
  <2>3. /\ dev'[frames[k].dev].pos = dev[frames[k].dev].pos /\ dev'[frames[k].dev].children = dev[frames[k].dev].children
        /\ dev'[frames[k].dev].parent = dev[frames[k].dev].parent
    BY <1>2, <2>2
  <2>4. PosOf(k)' = PosOf(k) /\ PortOf(k)' = PortOf(k) /\ On(k)' = On(k) /\ (Rereset(k)' <=> Rereset(k))
    BY <2>1, <2>3 DEF PosOf, PortOf, On, Rereset
  <2>5. Open(k)  BY <2>1, InvIs DEF Paths
  <2>6. Open(k)'  BY <2>4, <2>5 DEF Open, Settled
  <2>7. \A q : Up(q)' = Up(q) /\ Reports(q)' = Reports(q)  BY DEF Up, Reports
  <2>8. Waits(k)'
    <3>1. CASE frames[k].proc = "ConnectionChanged"
      <4>1. On(k) # Null => dev'[On(k)].parent = dev[On(k)].parent
        <5>1. On(k) # Null => On(k) \in Live  BY <1>1, <2>1, <3>1, OnIsThere DEF OnPort
        <5> QED  BY <1>2, <5>1, LiveIs
      <4> QED  BY <2>1, <2>2, <2>4, <3>1, <4>1 DEF Waits
    <3>2. CASE frames[k].proc = "Attach"
      <4>1. CASE dev'[frames[k].dev] = dev[frames[k].dev]
        <5>1. Bare(frames[k].dev) => Bare(frames[k].dev)'  BY <2>1, <4>1 DEF Bare
        <5>2. \A q : Up(q)' = Up(q) /\ Reports(q)' = Reports(q)  BY <2>7
        <5>3. PosOf(k)' = PosOf(k) /\ frames'[k] = frames[k]  BY <2>1, <2>4
        <5>4. Reports(PosOf(k))' <=> Reports(PosOf(k))  BY <5>3 DEF Reports
        <5>5. Up(PosOf(k))' <=> Up(PosOf(k))  BY <5>3 DEF Up
        <5> QED  BY <2>2, <3>2, <4>1, <5>1, <5>3, <5>4, <5>5 DEF Waits
      <4>2. CASE /\ frames[k].proc = "Attach" /\ frames[k].at = "end"
                 /\ dev'[frames[k].dev].number = dev[frames[k].dev].number
                 /\ dev'[frames[k].dev].status = dev[frames[k].dev].status
        BY <2>1, <2>2, <2>3, <2>4, <2>7, <3>2, <4>2 DEF Waits
      <4> QED  BY <1>8, <4>1, <4>2
    <3>3. CASE frames[k].proc = "HubAttach"
      <4>1. dev'[frames[k].dev] = dev[frames[k].dev]  BY <1>8, <3>3
      <4> QED  BY <2>1, <2>2, <3>3, <4>1 DEF Waits
    <3>4. CASE frames[k].proc \notin {"ConnectionChanged", "Attach", "HubAttach"}  BY <2>1, <3>4 DEF Waits
    <3> QED  BY <3>1, <3>2, <3>3, <3>4
  <2> QED  BY <2>6, <2>8
<1>10. \A k \in 1 .. n : frames[k].dev \in Live' /\ dev'[frames[k].dev].maxChildren >= dev[frames[k].dev].maxChildren
  BY <1>2, <1>6
<1> QED  BY <1>3, <1>4, <1>5, <1>9, <1>10 DEF Holds

(* The ports that no call is changing, when the one on top goes on.        *)
LEMMA RetouchedElsewhere ==
  ASSUME TreeInv, frames # << >>, NEW n, n = Len(frames), Top.proc \in {"Attach", "HubAttach"}, NEW d, d = Top.dev,
         NEW r, Retouched(d, r), NEW f, Stays(f), Holds,
         UNCHANGED <<plugged, enabled, connChange, enableChange, gaveUp>>,
         r.hub => (dev[d].hub /\ r.maxChildren = dev[d].maxChildren) \/ SeenOf(d)',
         \/ /\ r.number = dev[d].number /\ r.status = dev[d].status
            /\ Top.proc # "Attach" \/ Top.at \notin Early \/ f.at \in Early
         \/ AddressedIs(d)'
  PROVE  Elsewhere'
<1>1. /\ Types /\ TypeOK /\ Elsewhere /\ Top = frames[n]  BY InvIs
<1>2. /\ d \in DevIds /\ Live' = Live
      /\ dev'[d] = r /\ \A e \in DevIds : e # d => dev'[e] = dev[e]
      /\ \A e \in DevIds : /\ dev'[e].pos = dev[e].pos /\ dev'[e].parent = dev[e].parent
                           /\ dev'[e].children = dev[e].children
  BY <1>1, RetouchedIs
<1>3. PosStay  BY DEF Holds
<1>4. \A q : ~Cleared(q)  BY <1>1 DEF Cleared
<1>5. ASSUME NEW e \in Live
      PROVE  /\ dev'[e].pos = dev[e].pos /\ dev'[e].children = dev[e].children /\ dev'[e].parent = dev[e].parent
             /\ e # Top.dev => dev'[e].number = dev[e].number /\ dev'[e].status = dev[e].status
             /\ dev'[e].hub => (dev[e].hub /\ dev'[e].maxChildren = dev[e].maxChildren) \/ SeenOf(e)'
             /\ LET p == dev[e].pos IN
                p \notin enabled /\ (p \in enableChange \/ Cleared(p)) => p \in enableChange' \/ Cleared(p)' \/ InHand(p)'
  <2>1. e \in DevIds  BY LiveIs
  <2>2. dev'[e].pos = dev[e].pos /\ dev'[e].children = dev[e].children /\ dev'[e].parent = dev[e].parent  BY <1>2, <2>1
  <2>3. e # Top.dev => dev'[e].number = dev[e].number /\ dev'[e].status = dev[e].status  BY <1>2, <2>1
  <2>4. dev'[e].hub => (dev[e].hub /\ dev'[e].maxChildren = dev[e].maxChildren) \/ SeenOf(e)'
    <3>1. CASE e = d  BY <1>2, <3>1
    <3>2. CASE e # d  BY <1>2, <2>1, <3>2
    <3> QED  BY <3>1, <3>2
  <2>5. dev[e].pos \in enableChange => dev[e].pos \in enableChange'  OBVIOUS
  <2> QED  BY <1>4, <2>2, <2>3, <2>4, <2>5
<1>6. \A e \in Live : e = Top.dev =>
        \/ /\ dev'[e].number = dev[e].number /\ dev'[e].status = dev[e].status
           /\ Top.proc # "Attach" \/ Top.at \notin Early \/ f.at \in Early
        \/ AddressedIs(e)'
  <2> SUFFICES ASSUME NEW e \in Live, e = d
               PROVE  \/ /\ dev'[e].number = dev[e].number /\ dev'[e].status = dev[e].status
                         /\ Top.proc # "Attach" \/ Top.at \notin Early \/ f.at \in Early
                      \/ AddressedIs(e)'
    OBVIOUS
  <2> QED  BY <1>2
<1>7. UNCHANGED <<plugged, enabled, connChange>> /\ (gaveUp => gaveUp')  OBVIOUS
<1> QED  BY ONLY <1>1, <1>2, <1>3, <1>5, <1>6, <1>7, Stays(f), ElsewhereStays

(* The call goes on with its device changed.                               *)
LEMMA RetouchedGoes ==
  ASSUME TreeInv, frames # << >>, NEW n, n = Len(frames), Top.proc \in {"Attach", "HubAttach"}, NEW d, d = Top.dev,
         NEW r, Retouched(d, r), NEW f, Goes(f), f.at \in Places[Top.proc], f.proc = Top.proc, f.port = Top.port,
         UNCHANGED <<devices, status, plugged, enabled, connChange, enableChange, gaveUp>>,
         result' \in {"ok", "error", "disconnected"},
         r.number \in {0, dev[d].number} \/ (r.number \in Slots /\ devices[r.number] = d),
         Top.proc = "HubAttach" => r.number = dev[d].number /\ r.status = dev[d].status,
         r.hub => (dev[d].hub /\ r.maxChildren = dev[d].maxChildren) \/ SeenOf(d)',
         \/ /\ r.number = dev[d].number /\ r.status = dev[d].status
            /\ Top.proc # "Attach" \/ Top.at \notin Early \/ f.at \in Early
         \/ AddressedIs(d)',
         Open(n)', Knows(n)'
  PROVE  TreeInv'
<1>1. /\ Types /\ frames \in Seq(FrameType) /\ FrameOK(n) /\ Top = frames[n]  BY InvIs
<1>2. Lower  BY DEF Goes
<1>3. Holds  BY ONLY <1>2, RetouchedHolds, TreeInv, frames # << >>, n = Len(frames), Top.proc \in {"Attach", "HubAttach"},
         d = Top.dev, Retouched(d, r),
         UNCHANGED <<devices, status, plugged, enabled, connChange, enableChange, gaveUp>>,
         result' \in {"ok", "error", "disconnected"},
         r.number \in {0, dev[d].number} \/ (r.number \in Slots /\ devices[r.number] = d),
         Top.proc = "HubAttach" => r.number = dev[d].number /\ r.status = dev[d].status
<1>4. Stays(f)  BY <1>1, BothStay
<1>5. Elsewhere'  BY <1>3, <1>4, RetouchedElsewhere
<1>6. f.proc = "HubAttach" => f.port >= 1  BY <1>1 DEF FrameOK
<1>7. Top.proc \notin {"Verify", "CheckConnection", "CheckForChange"} /\ f.at \in Places[f.proc]  OBVIOUS
<1> QED  BY <1>3, <1>5, <1>6, <1>7, GoesAnew

(* The call returns with its device changed.                               *)
LEMMA RetouchedReturns ==
  ASSUME TreeInv, frames # << >>, NEW n, n = Len(frames), Top.proc \in {"Attach", "HubAttach"}, NEW d, d = Top.dev,
         NEW r, Retouched(d, r), Returns,
         UNCHANGED <<devices, status, plugged, enabled, connChange, enableChange, gaveUp>>,
         result' \in {"ok", "error", "disconnected"},
         r.number \in {0, dev[d].number} \/ (r.number \in Slots /\ devices[r.number] = d),
         Top.proc = "HubAttach" => r.number = dev[d].number /\ r.status = dev[d].status,
         r.hub => (dev[d].hub /\ r.maxChildren = dev[d].maxChildren) \/ SeenOf(d)',
         Top.proc = "Attach" => AddressedIs(d)',
         n # 1 => Knows(n - 1)'
  PROVE  TreeInv'
<1>1. /\ Types /\ TypeOK /\ Tree /\ Stack /\ Elsewhere /\ Top = frames[n]  BY InvIs
<1>2. Lower  BY DEF Returns
<1>3. Holds  BY ONLY <1>2, RetouchedHolds, TreeInv, frames # << >>, n = Len(frames), Top.proc \in {"Attach", "HubAttach"},
         d = Top.dev, Retouched(d, r),
         UNCHANGED <<devices, status, plugged, enabled, connChange, enableChange, gaveUp>>,
         result' \in {"ok", "error", "disconnected"},
         r.number \in {0, dev[d].number} \/ (r.number \in Slots /\ devices[r.number] = d),
         Top.proc = "HubAttach" => r.number = dev[d].number /\ r.status = dev[d].status
<1>4. /\ d \in DevIds /\ Live' = Live
      /\ dev'[d] = r /\ \A e \in DevIds : e # d => dev'[e] = dev[e]
      /\ \A e \in DevIds : /\ dev'[e].pos = dev[e].pos /\ dev'[e].parent = dev[e].parent
                           /\ dev'[e].children = dev[e].children
  BY <1>1, RetouchedIs
<1>5. ASSUME NEW e \in Live
      PROVE  /\ dev'[e].pos = dev[e].pos /\ dev'[e].children = dev[e].children /\ dev'[e].parent = dev[e].parent
             /\ e # Top.dev \/ Top.proc # "Attach" => dev'[e].number = dev[e].number /\ dev'[e].status = dev[e].status
             /\ dev'[e].hub => (dev[e].hub /\ dev'[e].maxChildren = dev[e].maxChildren) \/ SeenOf(e)'
  <2>1. e \in DevIds  BY LiveIs
  <2>2. dev'[e].pos = dev[e].pos /\ dev'[e].children = dev[e].children /\ dev'[e].parent = dev[e].parent  BY <1>4, <2>1
  <2>3. e # Top.dev \/ Top.proc # "Attach" => dev'[e].number = dev[e].number /\ dev'[e].status = dev[e].status
    BY <1>4, <2>1
  <2>4. dev'[e].hub => (dev[e].hub /\ dev'[e].maxChildren = dev[e].maxChildren) \/ SeenOf(e)'
    <3>1. CASE e = d  BY <1>4, <3>1
    <3>2. CASE e # d  BY <1>4, <2>1, <3>2
    <3> QED  BY <3>1, <3>2
  <2> QED  BY <2>2, <2>3, <2>4
<1>6. PosStay /\ NotCleared
  <2>1. NotCleared  BY DEF NotCleared
  <2>2. PosStay  BY <1>3 DEF Holds
  <2> QED  BY <2>1, <2>2
<1>7. LeavesWell
  <2>1. Top.proc # "ConnectionChanged"  OBVIOUS
  <2>2. Top.proc = "Attach" => \A e \in Live : e = d => AddressedIs(e)'  OBVIOUS
  <2> QED  BY <2>1, <2>2 DEF LeavesWell
<1>8. UNCHANGED <<plugged, enabled, connChange, enableChange>> /\ (gaveUp => gaveUp')  OBVIOUS
<1>9. Elsewhere'  BY ONLY <1>1, <1>4, <1>5, <1>6, <1>7, <1>8, Returns, ElsewhereLeaves
<1>10. Top.proc \notin {"Verify", "CheckConnection"}  OBVIOUS
<1> QED  BY <1>3, <1>9, <1>10, ReturnsAnew

(* The device of UsbAttachDevice is in the hands of its caller.            *)
LEMMA AttachAddressed ==
  ASSUME TreeInv, frames # << >>, NEW n, n = Len(frames), Top.proc = "Attach", NEW d, d = Top.dev,
         PosStay, Lower, frames' \in Seq(FrameType), Len(frames') >= n - 1,
         n # 1 \/ (frames' # << >> /\ frames'[1].proc = "Attach"),
         dev'[d].number # 0 \/ (Len(frames') >= n /\ frames'[n].proc = "Attach" /\ frames'[n].at \in Early /\ frames'[n].dev = d)
  PROVE  AddressedIs(d)'
<1>1. /\ Types /\ Stack /\ n \in Nat \ {0} /\ n \in 1 .. Len(frames) /\ Top = frames[n] /\ Down(n)  BY AttachIs
<1>2. Len(frames') \in Nat  OBVIOUS
<1>3. dev'[d].number = 0 => EarlyNow(d)'
  <2> SUFFICES ASSUME dev'[d].number = 0  PROVE EarlyNow(d)'
    OBVIOUS
  <2>1. n \in 1 .. Len(frames')  BY <1>1, <1>2
  <2> QED  BY <2>1 DEF EarlyNow
<1>4. CASE n = 1
  <2>1. d = 1  BY <1>1, <1>4, AttachAlone
  <2> QED  BY <1>3, <1>4, <2>1 DEF AddressedIs
<1>5. CASE n # 1
  <2>1. /\ n - 1 \in 1 .. Len(frames) - 1 /\ frames[n - 1].proc = "ConnectionChanged" /\ PosOf(n) = PortOf(n - 1)
    BY <1>1, <1>5, AttachAlone
  <2>2. PICK k \in 1 .. n - 1 : k = n - 1  BY <2>1
  <2>3. k \in 1 .. Len(frames') /\ k \in 1 .. n /\ frames'[k] = frames[k]  BY <1>1, <1>2, <2>2 DEF Lower
  <2>4. frames[k].proc = "ConnectionChanged" /\ PosOf(n) = PortOf(k)  BY <2>1, <2>2
  <2>5. PortOf(k)' = PortOf(k)  BY <2>3 DEF PortOf, PosOf, PosStay
  <2>6. dev'[d].pos = PosOf(n)  BY <1>1 DEF PosStay, PosOf
  <2>7. InHand(dev[d].pos)'  BY <2>3, <2>4, <2>5, <2>6 DEF InHand
  <2> QED  BY <1>3, <2>7 DEF AddressedIs
<1> QED  BY <1>4, <1>5

(* UsbAttachDevice after a step of it, with its device changed.            *)
LEMMA AttachTo ==
  ASSUME TreeInv, frames # << >>, NEW n, n = Len(frames), Top.proc = "Attach", NEW d, d = Top.dev,
         NEW r, Retouched(d, r), NEW f, Goes(f), UNCHANGED <<plugged, enabled, connChange, status>>
  PROVE  /\ frames'[n] = f /\ f.proc = "Attach" /\ f.dev = d /\ IsTop(n)' /\ ~Asking(n)' /\ PosOf(n)' = PosOf(n) /\ dev'[d] = r
         /\ GotOK(n)' <=> result' = "ok"
         /\ GotError(n)' <=> result' # "ok"
         /\ Way(PosOf(n))' = Way(PosOf(n))
         /\ \A q : Up(q)' = Up(q) /\ Reports(q)' = Reports(q)
         /\ Bare(d)' <=> ~r.hub /\ r.maxChildren = 0
         /\ Top.at # "rereset" /\ f.at # "rereset" => Open(n)'
         /\ f.at # "rereset" /\ PosOf(n) \in enabled => Open(n)'
         /\ f.at \in Early \/ dev'[d].number # 0 => AddressedIs(d)'
<1>1. /\ Types /\ TypeOK /\ Tree /\ n \in Nat \ {0} /\ n \in 1 .. Len(frames) /\ Top = frames[n] /\ Open(n) /\ frames \in Seq(FrameType)
  BY AttachIs, InvIs
<1>2. /\ frames' \in Seq(FrameType) /\ Len(frames') = n /\ Lower /\ frames'[n] = f /\ f.proc = "Attach" /\ f.dev = d /\ frames' # << >>
  BY DEF Goes, Kin
<1>3. dev'[d] = r /\ dev'[d].pos = dev[d].pos  BY <1>1, RetouchedIs
<1>4. IsTop(n)' /\ ~Asking(n)' /\ PosOf(n)' = PosOf(n)
  <2>1. IsTop(n)' /\ ~Asking(n)'  BY <1>1, <1>2 DEF IsTop, Asking
  <2> QED  BY <1>1, <1>2, <1>3, <2>1 DEF PosOf
<1>5. /\ GotOK(n)' <=> result' = "ok"
      /\ GotError(n)' <=> result' # "ok"
  BY <1>4 DEF GotOK, GotError
<1>6. Way(PosOf(n))' = Way(PosOf(n))  BY <1>4 DEF Way
<1>7. \A q : Up(q)' = Up(q) /\ Reports(q)' = Reports(q)  BY DEF Up, Reports
<1>8. Bare(d)' <=> ~r.hub /\ r.maxChildren = 0  BY <1>3 DEF Bare
<1>9. ASSUME f.at # "rereset", Top.at # "rereset" \/ PosOf(n) \in enabled  PROVE Open(n)'
  <2>1. ~Rereset(n)'  BY <1>2, <1>9 DEF Rereset
  <2>2. Settled(PosOf(n))
    <3>1. CASE Top.at # "rereset"
      <4>1. ~Rereset(n)  BY <1>1, <3>1 DEF Rereset
      <4> QED  BY <1>1, <4>1 DEF Open
    <3>2. CASE Top.at = "rereset"
      <4>1. Rereset(n)  BY <1>1, <3>2 DEF Rereset
      <4>2. Way(PosOf(n)) \ {PosOf(n)} \subseteq enabled /\ Way(PosOf(n)) \cap connChange = {}  BY <1>1, <4>1 DEF Open
      <4> QED  BY <1>9, <3>2, <4>2 DEF Settled
    <3> QED  BY <3>1, <3>2
  <2>3. Settled(PosOf(n))'  BY <1>6, <2>2 DEF Settled
  <2> QED  BY <2>1, <2>3 DEF Open
<1>10. ASSUME f.at \in Early \/ dev'[d].number # 0  PROVE AddressedIs(d)'
  <2>1. PosStay
    <3>1. \A k \in 1 .. Len(frames) : frames[k].dev \in DevIds  BY <1>1, PlaceIs
    <3>2. \A e \in DevIds : dev'[e].pos = dev[e].pos  BY <1>1, RetouchedIs
    <3> QED  BY <3>1, <3>2 DEF PosStay
  <2>2. n # 1 \/ (frames' # << >> /\ frames'[1].proc = "Attach")  BY <1>2
  <2>3. Len(frames') >= n - 1 /\ Len(frames') >= n  BY <1>1, <1>2
  <2>4. dev'[d].number # 0 \/ (Len(frames') >= n /\ frames'[n].proc = "Attach" /\ frames'[n].at \in Early /\ frames'[n].dev = d)
    BY <1>2, <1>10, <2>3
  <2> QED  BY ONLY TreeInv, frames # << >>, n = Len(frames), Top.proc = "Attach", d = Top.dev, <1>2, <2>1, <2>2, <2>3, <2>4, AttachAddressed
<1> QED  BY <1>2, <1>3, <1>4, <1>5, <1>6, <1>7, <1>8, <1>9, <1>10

LEMMA BeginAttachKeeps == ASSUME TreeInv, BeginAttach, NEW n, n = Len(frames) PROVE TreeInv'
<1>1. /\ frames # << >> /\ Top.proc = "Attach" /\ Top.at = "begin"
      /\ UNCHANGED <<devices, status, plugged, enabled, connChange, enableChange, gaveUp, result>>
      /\ GotoWith("describe", Here.number) /\ SetHere([Here EXCEPT !.number = 0])
  BY DEF BeginAttach, At, hardware, counts
<1>2. /\ Types /\ TypeOK /\ Tree /\ Table /\ Top = frames[n] /\ KnowsAttach(n) /\ Top.dev \in Live /\ Top.dev \in DevIds
      /\ Here = dev[Top.dev] /\ Here.pos = PosOf(n)
  BY <1>1, AttachIs
<1>3. PICK d : d = Top.dev  OBVIOUS
<1>4. PICK m : m = Here.number  OBVIOUS
<1>5. PICK r : r = [dev[d] EXCEPT !.number = 0]  OBVIOUS
<1>6. /\ PosOf(n) # <<>> => dev[d].parent # Null /\ PosOf(n) \in plugged /\ Up(PosOf(n))
      /\ Bare(d) /\ Reports(PosOf(n)) /\ m # 0 /\ dev[d].status \in {"Attached", "Powered"}
  BY <1>1, <1>2, <1>3, <1>4 DEF KnowsAttach
<1>7. m \in Slots /\ devices[m] = d /\ m \in Nat
  <2>1. m \in Slots /\ devices[m] = d  BY <1>2, <1>3, <1>4, <1>6 DEF Table, Numbered
  <2> QED  BY <2>1 DEF Slots
<1>8. Retouched(d, r) /\ r.number = 0 /\ r.status = dev[d].status /\ r.hub = dev[d].hub /\ r.maxChildren = dev[d].maxChildren
  <2>1. dev[d] \in DeviceType /\ dev[d].maxChildren <= PortCount[dev[d].pos] /\ dev[d].maxChildren \in Nat
    BY <1>2, <1>3, DeviceIs
  <2>2. 0 \in 0 .. MaxDevices  BY BoundsAssumption
  <2>3. r \in DeviceType /\ r.pos = dev[d].pos /\ r.parent = dev[d].parent /\ r.port = dev[d].port /\ r.children = dev[d].children
        /\ r.number = 0 /\ r.status = dev[d].status /\ r.hub = dev[d].hub /\ r.maxChildren = dev[d].maxChildren
    BY <1>5, <2>1, <2>2 DEF DeviceType
  <2>4. dev' = [dev EXCEPT ![d] = r]  BY <1>1, <1>2, <1>3, <1>5 DEF SetHere
  <2>5. r.maxChildren >= dev[d].maxChildren  BY <2>1, <2>3
  <2>6. r.status # "Free"  BY <1>6, <2>3
  <2> QED  BY <1>2, <1>3, <2>1, <2>3, <2>4, <2>5, <2>6 DEF Retouched
<1>9. "describe" \in Places[Top.proc] /\ "describe" \in Early /\ "describe" \notin Late /\ "describe" # "end"
  BY <1>1 DEF Places, Early, Late
<1>10. PICK f \in FrameType : Goes(f) /\ f.proc = Top.proc /\ f.at = "describe" /\ f.dev = Top.dev /\ f.port = Top.port /\ f.n = m
  BY <1>1, <1>2, <1>4, <1>7, <1>9, GotoWithPick
<1>11. /\ frames'[n] = f /\ PosOf(n)' = PosOf(n) /\ dev'[d] = r
       /\ \A q : Up(q)' = Up(q) /\ Reports(q)' = Reports(q)
       /\ Bare(d)' <=> ~r.hub /\ r.maxChildren = 0
       /\ Open(n)' /\ AddressedIs(d)'
  BY <1>1, <1>3, <1>8, <1>9, <1>10, AttachTo
<1>12. KnowsAttach(n)'
  <2>1. Bare(d)'  BY <1>6, <1>8, <1>11 DEF Bare
  <2>2. Up(PosOf(n))' <=> Up(PosOf(n))  BY <1>11 DEF Up
  <2>3. Reports(PosOf(n))' <=> Reports(PosOf(n))  BY <1>11 DEF Reports
  <2>4. /\ dev'[d].number = 0 /\ dev'[d].parent = dev[d].parent /\ dev'[d].status = dev[d].status
    BY <1>8, <1>11 DEF Retouched
  <2>5. "describe" \notin {"rereset", "begin", "described", "addressed", "described2"}  OBVIOUS
  <2>6. frames'[n].proc = "Attach" /\ frames'[n].at = "describe" /\ frames'[n].dev = d /\ frames'[n].n = m
    BY <1>1, <1>3, <1>10, <1>11
  <2>7. devices' = devices /\ plugged' = plugged  BY <1>1
  <2> QED  BY <1>6, <1>7, <1>9, <1>11, <2>1, <2>2, <2>3, <2>4, <2>5, <2>6, <2>7 DEF KnowsAttach
<1>13. Knows(n)'  BY <1>1, <1>10, <1>11, <1>12, KnowsIs
<1>14. ~r.hub /\ result' \in {"ok", "error", "disconnected"}  BY <1>1, <1>2, <1>6, <1>8 DEF Bare, TypeOK
<1>15. UNCHANGED <<devices, status, plugged, enabled, connChange, enableChange, gaveUp>>  BY <1>1
<1>16. f.at \in Places[Top.proc] /\ Top.proc \in {"Attach", "HubAttach"} /\ Top.proc # "HubAttach"  BY <1>1, <1>9, <1>10
<1> QED  BY <1>1, <1>3, <1>8, <1>10, <1>11, <1>13, <1>14, <1>15, <1>16, RetouchedGoes

(* A device that does not answer is given up, with its number back.        *)
LEMMA GivenUp ==
  ASSUME TreeInv, frames # << >>, NEW n, n = Len(frames), Top.proc = "Attach", Top.at \in {"described", "rereset", "addressed"},
         result # "ok", GiveUp, UNCHANGED <<devices, status, plugged, enabled, connChange, enableChange, gaveUp>>
  PROVE  TreeInv'
<1>1. /\ Types /\ TypeOK /\ Tree /\ Stack /\ Top = frames[n] /\ KnowsAttach(n) /\ Top.dev \in Live /\ Top.dev \in DevIds
      /\ Here = dev[Top.dev] /\ Here.pos = PosOf(n) /\ IsTop(n) /\ n \in Nat \ {0} /\ n \in 1 .. Len(frames) /\ Down(n)
  BY AttachIs
<1>2. PICK d, m : d = Top.dev /\ m = Top.n  OBVIOUS
<1>3. PICK r : r = [dev[d] EXCEPT !.number = m]  OBVIOUS
<1>4. Top.at \in Early  BY DEF Early
<1>5. /\ dev[d].parent # Null /\ Bare(d) /\ m \in Slots /\ devices[m] = d /\ gaveUp /\ PosOf(n) # << >>
  BY <1>1, <1>2, <1>4 DEF KnowsAttach, GotError
<1>6. n # 1
  <2> SUFFICES ASSUME n = 1  PROVE FALSE
    OBVIOUS
  <2>1. d = 1  BY <1>1, <1>2, AttachAlone
  <2> QED  BY <1>1, <1>2, <1>5, <2>1 DEF Tree, Rooted, PosOf
<1>7. Retouched(d, r) /\ r.number = m /\ r.status = dev[d].status /\ r.hub = dev[d].hub /\ r.maxChildren = dev[d].maxChildren
  <2>1. dev[d] \in DeviceType /\ dev[d].maxChildren <= PortCount[dev[d].pos] /\ dev[d].maxChildren \in Nat
    BY <1>1, <1>2, DeviceIs
  <2>2. m \in 0 .. MaxDevices  BY <1>5, BoundsAssumption DEF Slots
  <2>3. r \in DeviceType /\ r.pos = dev[d].pos /\ r.parent = dev[d].parent /\ r.port = dev[d].port /\ r.children = dev[d].children
        /\ r.number = m /\ r.status = dev[d].status /\ r.hub = dev[d].hub /\ r.maxChildren = dev[d].maxChildren
    BY <1>3, <2>1, <2>2 DEF DeviceType
  <2>4. dev' = [dev EXCEPT ![d] = r]  BY <1>1, <1>2, <1>3 DEF GiveUp, SetHere
  <2>5. r.maxChildren >= dev[d].maxChildren  BY <2>1, <2>3
  <2>6. r.status # "Free"  BY <1>1, <1>2, <2>3 DEF Live
  <2> QED  BY <1>1, <1>2, <2>1, <2>3, <2>4, <2>5, <2>6 DEF Retouched
<1>8. Returns /\ result' = "error"  BY <1>1, ReturnIs DEF GiveUp, Return
<1>9. /\ dev'[d] = r /\ \A e \in DevIds : /\ dev'[e].pos = dev[e].pos /\ dev'[e].children = dev[e].children
                                          /\ dev'[e].parent = dev[e].parent
  BY <1>1, <1>7, RetouchedIs
<1>10. n # 1 => Knows(n - 1)'
  <2>1. gaveUp'  BY <1>5
  <2> QED  BY <1>8, <1>9, <2>1, AttachCaller
<1>11. AddressedIs(d)'
  <2>1. PosStay
    <3>1. \A k \in 1 .. Len(frames) : frames[k].dev \in DevIds  BY <1>1, PlaceIs
    <3> QED  BY <1>9, <3>1 DEF PosStay
  <2>2. Lower /\ frames' \in Seq(FrameType) /\ Len(frames') = n - 1  BY <1>8 DEF Returns
  <2>3. Len(frames') >= n - 1 /\ dev'[d].number # 0
    <3>1. m # 0  BY <1>5 DEF Slots
    <3> QED  BY <1>1, <1>7, <1>9, <2>2, <3>1
  <2> QED  BY <1>2, <1>6, <2>1, <2>2, <2>3, AttachAddressed
<1>12. ~r.hub  BY <1>5, <1>7 DEF Bare
<1>13. r.number \in Slots /\ devices[r.number] = d  BY <1>5, <1>7
<1>14. result' \in {"ok", "error", "disconnected"} /\ Top.proc \in {"Attach", "HubAttach"} /\ Top.proc # "HubAttach"  BY <1>8
<1> QED  BY <1>2, <1>7, <1>8, <1>10, <1>11, <1>12, <1>13, <1>14, RetouchedReturns

LEMMA ResetAgainKeeps == ASSUME TreeInv, ResetAgain, NEW n, n = Len(frames) PROVE TreeInv'
<1>1. /\ frames # << >> /\ Top.proc = "Attach" /\ Top.at = "rereset"
      /\ UNCHANGED <<devices, status, plugged, enabled, connChange, enableChange, gaveUp>>
  BY DEF ResetAgain, At, hardware, counts
<1>2. CASE result # "ok"
  <2>1. GiveUp  BY <1>2 DEF ResetAgain
  <2> QED  BY <1>1, <1>2, <2>1, GivenUp
<1>3. CASE result = "ok"
  <2>1. Goto("address") /\ dev' = dev /\ result' = "ok"  BY <1>3 DEF ResetAgain
  <2>2. /\ Types /\ TypeOK /\ Tree /\ Top = frames[n] /\ KnowsAttach(n) /\ IsTop(n) /\ Top.dev \in Live /\ Top.dev \in DevIds
        /\ Here = dev[Top.dev] /\ Here.pos = PosOf(n) /\ Open(n) /\ Top.n \in Nat
    BY <1>1, AttachIs
  <2>3. PICK d, r : d = Top.dev /\ r = dev[d]  OBVIOUS
  <2>4. "rereset" \in Early /\ "address" \in Early /\ "address" \notin Late /\ "address" \in Places[Top.proc]
    BY <1>1 DEF Early, Late, Places
  <2>5. /\ PosOf(n) # <<>> /\ dev[d].parent # Null /\ PosOf(n) \in plugged /\ Up(PosOf(n))
        /\ Bare(d) /\ Reports(PosOf(n)) /\ dev[d].number = 0 /\ Top.n \in Slots /\ devices[Top.n] = d
        /\ dev[d].status \in {"Attached", "Powered", "Default"}
    <3>1. PosOf(n) # <<>>  BY <1>1, <2>2 DEF Open, Rereset
    <3>2. GotOK(n)  BY <1>3, <2>2 DEF GotOK
    <3> QED  BY <1>1, <2>2, <2>3, <2>4, <3>1, <3>2 DEF KnowsAttach
  <2>6. Retouched(d, r)
    <3>1. dev[d] \in DeviceType /\ dev[d].maxChildren <= PortCount[dev[d].pos] /\ dev[d].maxChildren \in Nat
      BY <2>2, <2>3, DeviceIs
    <3>2. dev' = [dev EXCEPT ![d] = r]  BY <2>1, <2>2, <2>3 DEF TypeOK
    <3>3. r.maxChildren >= dev[d].maxChildren  BY <2>3, <3>1
    <3> QED  BY <2>2, <2>3, <2>5, <3>1, <3>2, <3>3 DEF Retouched
  <2>7. PICK f \in FrameType : Goes(f) /\ f.proc = Top.proc /\ f.at = "address" /\ f.dev = Top.dev /\ f.port = Top.port /\ f.n = Top.n
    BY <1>1, <2>1, <2>2, <2>4, GotoPick
  <2>8. /\ frames'[n] = f /\ PosOf(n)' = PosOf(n) /\ dev'[d] = r
        /\ \A q : Up(q)' = Up(q) /\ Reports(q)' = Reports(q)
        /\ Bare(d)' <=> ~r.hub /\ r.maxChildren = 0
        /\ Open(n)' /\ AddressedIs(d)'
    <3>1. PosOf(n) \in enabled  BY <2>5 DEF Up
    <3>2. f.at # "rereset" /\ f.at \in Early  BY <2>4, <2>7
    <3> QED  BY <1>1, <2>3, <2>6, <2>7, <3>1, <3>2, AttachTo
  <2>9. KnowsAttach(n)'
    <3>1. Bare(d)'  BY <2>3, <2>5, <2>8 DEF Bare
    <3>2. Up(PosOf(n))' <=> Up(PosOf(n))  BY <2>8 DEF Up
    <3>3. Reports(PosOf(n))' <=> Reports(PosOf(n))  BY <2>8 DEF Reports
    <3>4. "address" \notin {"rereset", "begin", "described", "addressed", "described2", "end"}  OBVIOUS
    <3>5. frames'[n].proc = "Attach" /\ frames'[n].at = "address" /\ frames'[n].dev = d /\ frames'[n].n = Top.n
      BY <1>1, <2>3, <2>7, <2>8
    <3>6. devices' = devices /\ plugged' = plugged /\ dev'[d] = dev[d]  BY <1>1, <2>1
    <3> QED  BY <2>4, <2>5, <2>8, <3>1, <3>2, <3>3, <3>4, <3>5, <3>6 DEF KnowsAttach
  <2>10. Knows(n)'  BY <1>1, <2>7, <2>8, <2>9, KnowsIs
  <2>11. ~r.hub /\ result' \in {"ok", "error", "disconnected"}  BY <2>1, <2>3, <2>5 DEF Bare
  <2>12. f.at \in Places[Top.proc] /\ Top.proc \in {"Attach", "HubAttach"} /\ Top.proc # "HubAttach"  BY <1>1, <2>4, <2>7
  <2>13. r.number = 0  BY <2>3, <2>5
  <2> QED  BY <1>1, <2>3, <2>6, <2>7, <2>8, <2>10, <2>11, <2>12, <2>13, RetouchedGoes
<1> QED  BY <1>2, <1>3

(* A device that answered to its address, or that was configured.          *)
LEMMA AttachLate ==
  ASSUME TreeInv, frames # << >>, NEW n, n = Len(frames), Top.proc = "Attach", Top.at \in {"addressed", "configured"},
         NEW d, d = Top.dev, NEW r, Retouched(d, r), r.hub = dev[d].hub, r.maxChildren = dev[d].maxChildren,
         r.status \in Done, r.number \in Slots, devices[r.number] = d,
         NEW a \in {"describe2", "strings2"}, Goto(a), result = "ok",
         UNCHANGED <<devices, status, plugged, enabled, connChange, enableChange, gaveUp, result>>
  PROVE  TreeInv'
<1>1. /\ Types /\ TypeOK /\ Tree /\ Top = frames[n] /\ KnowsAttach(n) /\ Top.dev \in Live /\ Top.dev \in DevIds
  BY AttachIs
<1>2. Top.at \notin {"begin", "rereset", "end"} /\ a \in Late /\ a \notin Early /\ a \notin {"begin", "rereset", "end", "described", "addressed", "described2"}
      /\ a \in Places[Top.proc]
  BY DEF Late, Early, Places
<1>3. /\ PosOf(n) # <<>> => dev[d].parent # Null /\ PosOf(n) \in plugged /\ Up(PosOf(n))
      /\ Bare(d) /\ Reports(PosOf(n))
  BY <1>1, <1>2 DEF KnowsAttach
<1>4. PICK f \in FrameType : Goes(f) /\ f.proc = Top.proc /\ f.at = a /\ f.dev = Top.dev /\ f.port = Top.port /\ f.n = Top.n
  BY <1>1, <1>2, GotoPick
<1>5. r.number # 0  BY DEF Slots
<1>6. /\ frames'[n] = f /\ PosOf(n)' = PosOf(n) /\ dev'[d] = r
      /\ \A q : Up(q)' = Up(q) /\ Reports(q)' = Reports(q)
      /\ Bare(d)' <=> ~r.hub /\ r.maxChildren = 0
      /\ Open(n)' /\ AddressedIs(d)'
  <2>1. dev'[d] = r  BY <1>1, RetouchedIs
  <2>2. Top.at # "rereset" /\ f.at # "rereset" /\ dev'[d].number # 0  BY <1>2, <1>4, <1>5, <2>1
  <2> QED  BY <1>4, <2>2, AttachTo
<1>7. KnowsAttach(n)'
  <2>1. Bare(d)'  BY <1>3, <1>6 DEF Bare
  <2>2. Up(PosOf(n))' <=> Up(PosOf(n))  BY <1>6 DEF Up
  <2>3. Reports(PosOf(n))' <=> Reports(PosOf(n))  BY <1>6 DEF Reports
  <2>4. frames'[n].proc = "Attach" /\ frames'[n].at = a /\ frames'[n].dev = d  BY <1>4, <1>6
  <2>5. dev'[d].parent = dev[d].parent /\ dev'[d].number # 0 /\ dev'[d].status \in Done /\ plugged' = plugged
    BY <1>5, <1>6 DEF Retouched
  <2> QED  BY <1>2, <1>3, <1>6, <2>1, <2>2, <2>3, <2>4, <2>5 DEF KnowsAttach
<1>8. Knows(n)'  BY <1>4, <1>6, <1>7, KnowsIs
<1>9. ~r.hub /\ result' \in {"ok", "error", "disconnected"}  BY <1>3 DEF Bare
<1>10. f.at \in Places[Top.proc] /\ Top.proc \in {"Attach", "HubAttach"} /\ Top.proc # "HubAttach"  BY <1>2, <1>4
<1> QED  BY <1>4, <1>6, <1>8, <1>9, <1>10, RetouchedGoes

LEMMA WasAddressedKeeps == ASSUME TreeInv, WasAddressed, NEW n, n = Len(frames) PROVE TreeInv'
<1>1. /\ frames # << >> /\ Top.proc = "Attach" /\ Top.at = "addressed"
      /\ UNCHANGED <<devices, status, plugged, enabled, connChange, enableChange, gaveUp>>
  BY DEF WasAddressed, At, hardware, counts
<1>2. CASE result # "ok"
  <2>1. GiveUp  BY <1>2 DEF WasAddressed
  <2> QED  BY <1>1, <1>2, <2>1, GivenUp
<1>3. CASE result = "ok"
  <2>1. SetHere([Here EXCEPT !.number = Top.n, !.status = "Addressed"]) /\ Goto("describe2") /\ UNCHANGED result
    BY <1>3 DEF WasAddressed
  <2>2. /\ Types /\ TypeOK /\ Tree /\ Top = frames[n] /\ KnowsAttach(n) /\ Top.dev \in Live /\ Top.dev \in DevIds
        /\ Here = dev[Top.dev] /\ Here.pos = PosOf(n)
    BY <1>1, AttachIs
  <2>3. PICK d, m : d = Top.dev /\ m = Top.n  OBVIOUS
  <2>4. PICK r : r = [dev[d] EXCEPT !.number = m, !.status = "Addressed"]  OBVIOUS
  <2>5. m \in Slots /\ devices[m] = d /\ (PosOf(n) # <<>> => dev[d].parent # Null)
    <3>1. "addressed" \in Early  BY DEF Early
    <3> QED  BY <1>1, <2>2, <2>3, <3>1 DEF KnowsAttach
  <2>6. Retouched(d, r) /\ r.number = m /\ r.status = "Addressed" /\ r.hub = dev[d].hub /\ r.maxChildren = dev[d].maxChildren
    <3>1. dev[d] \in DeviceType /\ dev[d].maxChildren <= PortCount[dev[d].pos] /\ dev[d].maxChildren \in Nat
      BY <2>2, <2>3, DeviceIs
    <3>2. m \in 0 .. MaxDevices  BY <2>5, BoundsAssumption DEF Slots
    <3>3. r \in DeviceType /\ r.pos = dev[d].pos /\ r.parent = dev[d].parent /\ r.port = dev[d].port /\ r.children = dev[d].children
          /\ r.number = m /\ r.status = "Addressed" /\ r.hub = dev[d].hub /\ r.maxChildren = dev[d].maxChildren
      BY <2>4, <3>1, <3>2 DEF DeviceType
    <3>4. dev' = [dev EXCEPT ![d] = r]  BY <2>1, <2>2, <2>3, <2>4 DEF SetHere
    <3>5. r.maxChildren >= dev[d].maxChildren  BY <3>1, <3>3
    <3>6. dev[d].pos = PosOf(n)  BY <2>2, <2>3
    <3> QED  BY <2>2, <2>3, <2>5, <3>1, <3>3, <3>4, <3>5, <3>6 DEF Retouched
  <2>7. r.status \in Done  BY <2>6 DEF Done
  <2> QED  BY <1>1, <1>3, <2>1, <2>3, <2>5, <2>6, <2>7, AttachLate
<1> QED  BY <1>2, <1>3

LEMMA ConfiguredKeeps == ASSUME TreeInv, Configured, NEW n, n = Len(frames) PROVE TreeInv'
<1>1. /\ frames # << >> /\ Top.proc = "Attach" /\ Top.at = "configured"
      /\ UNCHANGED <<devices, status, plugged, enabled, connChange, enableChange, gaveUp, hardware>>
  BY DEF Configured, At, hardware, counts
<1>2. CASE result # "ok"
  <2>1. Return("ok") /\ UNCHANGED dev  BY <1>2 DEF Configured
  <2>2. Quiet  BY <1>1, <2>1 DEF Quiet
  <2>3. Top.at \in Late  BY <1>1 DEF Late
  <2> QED  BY <1>1, <2>1, <2>2, <2>3, AttachReturnsQuiet
<1>3. CASE result = "ok"
  <2>1. SetHere([Here EXCEPT !.status = "Configured"]) /\ Goto("strings2") /\ UNCHANGED result
    BY <1>3 DEF Configured
  <2>2. /\ Types /\ TypeOK /\ Tree /\ Table /\ Top = frames[n] /\ KnowsAttach(n) /\ Top.dev \in Live /\ Top.dev \in DevIds
        /\ Here = dev[Top.dev] /\ Here.pos = PosOf(n)
    BY <1>1, AttachIs
  <2>3. PICK d : d = Top.dev  OBVIOUS
  <2>4. PICK r : r = [dev[d] EXCEPT !.status = "Configured"]  OBVIOUS
  <2>5. dev[d].number \in Slots /\ devices[dev[d].number] = d /\ (PosOf(n) # <<>> => dev[d].parent # Null)
    <3>1. "configured" \in Late  BY DEF Late
    <3>2. dev[d].number # 0 /\ (PosOf(n) # <<>> => dev[d].parent # Null)  BY <1>1, <2>2, <2>3, <3>1 DEF KnowsAttach
    <3> QED  BY <2>2, <2>3, <3>2 DEF Table, Numbered
  <2>6. Retouched(d, r) /\ r.number = dev[d].number /\ r.status = "Configured" /\ r.hub = dev[d].hub /\ r.maxChildren = dev[d].maxChildren
    <3>1. dev[d] \in DeviceType /\ dev[d].maxChildren <= PortCount[dev[d].pos] /\ dev[d].maxChildren \in Nat
      BY <2>2, <2>3, DeviceIs
    <3>3. r \in DeviceType /\ r.pos = dev[d].pos /\ r.parent = dev[d].parent /\ r.port = dev[d].port /\ r.children = dev[d].children
          /\ r.number = dev[d].number /\ r.status = "Configured" /\ r.hub = dev[d].hub /\ r.maxChildren = dev[d].maxChildren
      BY <2>4, <3>1 DEF DeviceType
    <3>4. dev' = [dev EXCEPT ![d] = r]  BY <2>1, <2>2, <2>3, <2>4 DEF SetHere
    <3>5. r.maxChildren >= dev[d].maxChildren  BY <3>1, <3>3
    <3>6. dev[d].pos = PosOf(n)  BY <2>2, <2>3
    <3> QED  BY <2>2, <2>3, <2>5, <3>1, <3>3, <3>4, <3>5, <3>6 DEF Retouched
  <2>7. r.status \in Done  BY <2>6 DEF Done
  <2> QED  BY <1>1, <1>3, <2>1, <2>3, <2>5, <2>6, <2>7, AttachLate
<1> QED  BY <1>2, <1>3

(* The first descriptor is read: the device is reset once more, by its     *)
(* hub, if it has one; it is never an orphan then.                         *)
LEMMA DescribedIs ==
  ASSUME TreeInv, Described, NEW n, n = Len(frames), result = "ok", NEW d, d = Top.dev
  PROVE  /\ frames # << >> /\ Top.proc = "Attach" /\ Top.at = "described"
         /\ UNCHANGED <<devices, status, plugged, enabled, connChange, enableChange, gaveUp, result>>
         /\ PosOf(n) # <<>> => dev[d].parent # Null /\ PosOf(n) \in plugged /\ Up(PosOf(n))
         /\ Bare(d) /\ Reports(PosOf(n)) /\ dev[d].number = 0 /\ Top.n \in Slots /\ devices[Top.n] = d /\ Top.n \in Nat
         /\ \E r : Retouched(d, r) /\ r.number = 0 /\ r.status = "Default" /\ r.hub = dev[d].hub /\ r.maxChildren = dev[d].maxChildren
         /\ \/ /\ dev[d].parent # Null
               /\ Call("rereset", Frame("PortReset", "set", dev[d].parent, dev[d].port))
               /\ dev[d].parent \in Live /\ dev[d].parent \in DevIds /\ dev[d].port \in 1 .. dev[dev[d].parent].maxChildren
               /\ dev[d].port \in PortNums /\ dev[d].port \in Nat
               /\ PosOf(n) = Append(dev[dev[d].parent].pos, dev[d].port) /\ PosOf(n) # << >>
               /\ Way(PosOf(n)) = Way(dev[dev[d].parent].pos) \cup {PosOf(n)} /\ PosOf(n) \notin Way(dev[dev[d].parent].pos)
               /\ dev[d].parent # d
            \/ Goto("address")
<1>1. /\ frames # << >> /\ Top.proc = "Attach" /\ Top.at = "described"
      /\ UNCHANGED <<devices, status, plugged, enabled, connChange, enableChange, gaveUp>>
  BY DEF Described, At, hardware, counts
<1>2. /\ Types /\ TypeOK /\ Tree /\ Top = frames[n] /\ KnowsAttach(n) /\ Top.dev \in Live /\ Top.dev \in DevIds
      /\ Here = dev[d] /\ Here.pos = PosOf(n)
  BY <1>1, AttachIs
<1>3. /\ PosOf(n) # <<>> => dev[d].parent # Null /\ PosOf(n) \in plugged /\ Up(PosOf(n))
      /\ Bare(d) /\ Reports(PosOf(n)) /\ dev[d].number = 0 /\ Top.n \in Slots /\ devices[Top.n] = d
  <2>1. "described" \in Early  BY DEF Early
  <2> QED  BY <1>1, <1>2, <2>1 DEF KnowsAttach
<1>4. dev[d].parent # Null =>
        /\ dev[d].parent \in Live /\ dev[d].parent \in DevIds /\ dev[d].port \in 1 .. dev[dev[d].parent].maxChildren
        /\ dev[d].port \in PortNums /\ dev[d].port \in Nat
        /\ PosOf(n) = Append(dev[dev[d].parent].pos, dev[d].port) /\ PosOf(n) # << >>
        /\ Way(PosOf(n)) = Way(dev[dev[d].parent].pos) \cup {PosOf(n)} /\ PosOf(n) \notin Way(dev[dev[d].parent].pos)
        /\ dev[d].parent # d /\ ~Orphan
  <2> SUFFICES ASSUME dev[d].parent # Null, NEW h, h = dev[d].parent, NEW i, i = dev[d].port
               PROVE  /\ h \in Live /\ h \in DevIds /\ i \in 1 .. dev[h].maxChildren
                      /\ i \in PortNums /\ i \in Nat
                      /\ PosOf(n) = Append(dev[h].pos, i) /\ PosOf(n) # << >>
                      /\ Way(PosOf(n)) = Way(dev[h].pos) \cup {PosOf(n)} /\ PosOf(n) \notin Way(dev[h].pos)
                      /\ h # d /\ ~Orphan
    OBVIOUS
  <2>1. h \in Live /\ i \in PortNums /\ dev[h].children[i] = d  BY <1>2 DEF Tree, Parents
  <2>2. d # Null  BY <1>2, DeviceIs
  <2>3. /\ dev[d].pos = Append(dev[h].pos, i) /\ dev[d].pos \in Ports /\ i \in 1 .. dev[h].maxChildren /\ i \in Nat
        /\ Way(dev[d].pos) = Way(dev[h].pos) \cup {dev[d].pos} /\ dev[d].pos \notin Way(dev[h].pos)
        /\ Len(dev[d].pos) = Len(dev[h].pos) + 1
    <3>1. TypeOK /\ Children /\ dev[h].children[i] # Null  BY <1>2, <2>1, <2>2 DEF Tree
    <3>2. LET c == dev[h].children[i] IN
          /\ c \in Live /\ dev[c].pos = Append(dev[h].pos, i) /\ dev[c].pos \in Ports
          /\ i \in 1 .. dev[h].maxChildren /\ i \in 1 .. PortCount[dev[h].pos] /\ i \in Nat
          /\ Way(dev[c].pos) = Way(dev[h].pos) \cup {dev[c].pos} /\ dev[c].pos \notin Way(dev[h].pos)
          /\ Len(dev[c].pos) = Len(dev[h].pos) + 1
      BY ONLY <2>1, <3>1, LinkIs, Zenon
    <3> QED  BY ONLY <2>1, <3>2
  <2>4. dev[d].pos = PosOf(n) /\ dev[d].pos # << >>  BY <1>2, <2>3, Zenon DEF Ports
  <2>5. h \in DevIds  BY <2>1, LiveIs
  <2>6. h # d
    <3>1. dev[d].pos \in Seq(Nat)  BY <1>2, DeviceIs
    <3>2. dev[d].pos \in Way(dev[d].pos)  BY <2>4, <3>1, WayEnds
    <3> QED  BY <2>3, <3>2, Zenon
  <2>7. dev[h].maxChildren \in Nat  BY <1>2, <2>5, DeviceIs
  <2>8. ~(i > dev[h].maxChildren)
    <3> SUFFICES ASSUME NEW m, m = dev[h].maxChildren, NEW j, j = i  PROVE ~(j > m)
      OBVIOUS
    <3>1. m \in Nat /\ j \in 1 .. m  BY <2>3, <2>7, Zenon
    <3> QED  BY ONLY <3>1
  <2>9. ~Orphan  BY <1>2, <2>1, <2>8 DEF Orphan
  <2> QED  BY <2>1, <2>3, <2>4, <2>5, <2>6, <2>9
<1>5. ~((Here.parent # Null /\ dev[Here.parent].hub) /\ Orphan)  BY <1>2, <1>4
<1>6. /\ SetHere([Here EXCEPT !.status = "Default"]) /\ UNCHANGED result
      /\ \/ dev[d].parent # Null /\ Call("rereset", Frame("PortReset", "set", dev[d].parent, dev[d].port))
         \/ Goto("address")
  BY <1>2, <1>5 DEF Described
<1>7. \E r : Retouched(d, r) /\ r.number = 0 /\ r.status = "Default" /\ r.hub = dev[d].hub /\ r.maxChildren = dev[d].maxChildren
  <2>1. PICK r : r = [dev[d] EXCEPT !.status = "Default"]  OBVIOUS
  <2>2. dev[d] \in DeviceType /\ dev[d].maxChildren <= PortCount[dev[d].pos] /\ dev[d].maxChildren \in Nat
    BY <1>2, DeviceIs
  <2>3. r \in DeviceType /\ r.pos = dev[d].pos /\ r.parent = dev[d].parent /\ r.port = dev[d].port /\ r.children = dev[d].children
        /\ r.number = dev[d].number /\ r.status = "Default" /\ r.hub = dev[d].hub /\ r.maxChildren = dev[d].maxChildren
    BY <2>1, <2>2 DEF DeviceType
  <2>4. dev' = [dev EXCEPT ![d] = r]  BY <1>2, <1>6, <2>1 DEF SetHere
  <2>5. r.maxChildren >= dev[d].maxChildren  BY <2>2, <2>3
  <2>6. Retouched(d, r)  BY <1>2, <1>3, <2>2, <2>3, <2>4, <2>5 DEF Retouched
  <2> QED  BY <1>3, <2>3, <2>6
<1>8. Top.n \in Nat  BY <1>3 DEF Slots
<1> QED  BY <1>1, <1>3, <1>4, <1>6, <1>7, <1>8

LEMMA DescribedGoes ==
  ASSUME TreeInv, Described, NEW n, n = Len(frames), result = "ok", Goto("address")
  PROVE  TreeInv'
<1>1. PICK d : d = Top.dev  OBVIOUS
<1>2. /\ frames # << >> /\ Top.proc = "Attach" /\ Top.at = "described"
      /\ UNCHANGED <<devices, status, plugged, enabled, connChange, enableChange, gaveUp, result>>
      /\ PosOf(n) # <<>> => dev[d].parent # Null /\ PosOf(n) \in plugged /\ Up(PosOf(n))
      /\ Bare(d) /\ Reports(PosOf(n)) /\ dev[d].number = 0 /\ Top.n \in Slots /\ devices[Top.n] = d
      /\ \E r : Retouched(d, r) /\ r.number = 0 /\ r.status = "Default" /\ r.hub = dev[d].hub /\ r.maxChildren = dev[d].maxChildren
  BY <1>1, DescribedIs
<1>3. PICK r : Retouched(d, r) /\ r.number = 0 /\ r.status = "Default" /\ r.hub = dev[d].hub /\ r.maxChildren = dev[d].maxChildren
  BY <1>2
<1>4. Types /\ TypeOK  BY <1>2, AttachIs
<1>5. "address" \in Early /\ "address" \notin Late /\ "address" \in Places[Top.proc]  BY <1>2 DEF Early, Late, Places
<1>6. PICK f \in FrameType : Goes(f) /\ f.proc = Top.proc /\ f.at = "address" /\ f.dev = Top.dev /\ f.port = Top.port /\ f.n = Top.n
  BY <1>2, <1>4, <1>5, GotoPick
<1>7. /\ frames'[n] = f /\ PosOf(n)' = PosOf(n) /\ dev'[d] = r
      /\ \A q : Up(q)' = Up(q) /\ Reports(q)' = Reports(q)
      /\ Bare(d)' <=> ~r.hub /\ r.maxChildren = 0
      /\ Open(n)' /\ AddressedIs(d)'
  <2>1. Top.at # "rereset" /\ f.at # "rereset" /\ f.at \in Early  BY <1>2, <1>5, <1>6
  <2> QED  BY <1>1, <1>2, <1>3, <1>6, <2>1, AttachTo
<1>8. KnowsAttach(n)'
  <2>1. Bare(d)'  BY <1>2, <1>3, <1>7 DEF Bare
  <2>2. Up(PosOf(n))' <=> Up(PosOf(n))  BY <1>7 DEF Up
  <2>3. Reports(PosOf(n))' <=> Reports(PosOf(n))  BY <1>7 DEF Reports
  <2>4. "address" \notin {"rereset", "begin", "described", "addressed", "described2", "end"}  OBVIOUS
  <2>5. frames'[n].proc = "Attach" /\ frames'[n].at = "address" /\ frames'[n].dev = d /\ frames'[n].n = Top.n
    BY <1>1, <1>2, <1>6, <1>7
  <2>6. devices' = devices /\ plugged' = plugged  BY <1>2
  <2>7. dev'[d].number = 0 /\ dev'[d].status = "Default" /\ dev'[d].parent = dev[d].parent  BY <1>3, <1>7 DEF Retouched
  <2> QED  BY <1>2, <1>5, <1>7, <2>1, <2>2, <2>3, <2>4, <2>5, <2>6, <2>7 DEF KnowsAttach
<1>9. Knows(n)'  BY <1>2, <1>6, <1>7, <1>8, KnowsIs
<1>10. ~r.hub /\ result' \in {"ok", "error", "disconnected"}  BY <1>2, <1>3 DEF Bare
<1>11. f.at \in Places[Top.proc] /\ Top.proc \in {"Attach", "HubAttach"} /\ Top.proc # "HubAttach"  BY <1>2, <1>5, <1>6
<1> QED  BY <1>1, <1>2, <1>3, <1>6, <1>7, <1>9, <1>10, <1>11, RetouchedGoes

LEMMA DescribedCalls ==
  ASSUME TreeInv, Described, NEW n, n = Len(frames), result = "ok", ~Goto("address")
  PROVE  TreeInv'
<1>1. PICK d, h, i : d = Top.dev /\ h = dev[d].parent /\ i = dev[d].port  OBVIOUS
<1>2. /\ frames # << >> /\ Top.proc = "Attach" /\ Top.at = "described"
      /\ UNCHANGED <<devices, status, plugged, enabled, connChange, enableChange, gaveUp, result>>
      /\ PosOf(n) # <<>> => h # Null /\ PosOf(n) \in plugged /\ Up(PosOf(n))
      /\ Bare(d) /\ Reports(PosOf(n)) /\ dev[d].number = 0 /\ Top.n \in Slots /\ devices[Top.n] = d /\ Top.n \in Nat
      /\ \E r : Retouched(d, r) /\ r.number = 0 /\ r.status = "Default" /\ r.hub = dev[d].hub /\ r.maxChildren = dev[d].maxChildren
      /\ h # Null
      /\ Call("rereset", Frame("PortReset", "set", h, i))
      /\ h \in Live /\ h \in DevIds /\ i \in 1 .. dev[h].maxChildren
      /\ i \in PortNums /\ i \in Nat
      /\ PosOf(n) = Append(dev[h].pos, i) /\ PosOf(n) # << >>
      /\ Way(PosOf(n)) = Way(dev[h].pos) \cup {PosOf(n)} /\ PosOf(n) \notin Way(dev[h].pos)
      /\ h # d
  BY <1>1, DescribedIs, Zenon
<1>3. PICK r : Retouched(d, r) /\ r.number = 0 /\ r.status = "Default" /\ r.hub = dev[d].hub /\ r.maxChildren = dev[d].maxChildren
  BY <1>2
<1>4. /\ Types /\ TypeOK /\ Tree /\ Stack /\ Top = frames[n] /\ n \in Nat \ {0} /\ n \in 1 .. Len(frames) /\ Open(n)
      /\ frames \in Seq(FrameType) /\ d \in Live
  BY <1>1, <1>2, AttachIs, InvIs, Zenon
<1>5. "rereset" \in Early /\ "rereset" \notin Late /\ "rereset" \in Places[Top.proc] /\ "PortReset" \in Procs /\ "set" \in Places["PortReset"]
  BY <1>2 DEF Early, Late, Places, Procs, OnPort
<1>6. PICK f \in FrameType, g \in FrameType :
        /\ Makes(f, g) /\ f.proc = Top.proc /\ f.at = "rereset" /\ f.dev = Top.dev /\ f.port = Top.port /\ f.n = Top.n
        /\ g.proc = "PortReset" /\ g.at = "set" /\ g.dev = h /\ g.port = i
  <2>1. h \in DevIds /\ i \in Nat /\ Call("rereset", Frame("PortReset", "set", h, i))  BY <1>2
  <2> QED  BY <1>2, <1>4, <1>5, <2>1, CallNewPick
<1>7. /\ Lower /\ frames'[n] = f /\ frames'[n + 1] = g /\ Len(frames') = n + 1 /\ frames' \in Seq(FrameType) /\ frames' # << >>
      /\ n # n + 1 /\ frames'[n].proc = "Attach" /\ frames'[n].at = "rereset" /\ frames'[n].dev = d /\ frames'[n].n = Top.n
      /\ frames'[n + 1].proc = "PortReset" /\ frames'[n + 1].at = "set" /\ frames'[n + 1].dev = h /\ frames'[n + 1].port = i
  BY <1>1, <1>2, <1>4, <1>6, Zenon DEF Makes
<1>8. /\ d \in DevIds /\ Live' = Live /\ dev'[d] = r /\ dev'[h] = dev[h]
      /\ dev'[d].pos = dev[d].pos /\ dev'[d].parent = dev[d].parent
  <2>1. /\ d \in DevIds /\ Live' = Live /\ dev'[d] = r /\ \A e \in DevIds : e # d => dev'[e] = dev[e]
        /\ \A e \in DevIds : dev'[e].pos = dev[e].pos /\ dev'[e].parent = dev[e].parent
    BY <1>3, <1>4, RetouchedIs
  <2> QED  BY <1>2, <2>1
<1>9. Holds
  <2>1. UNCHANGED <<devices, status, plugged, enabled, connChange, enableChange, gaveUp>> /\ result' \in {"ok", "error", "disconnected"}
    BY <1>2
  <2>2. Top.proc \in {"Attach", "HubAttach"} /\ r.number \in {0, dev[d].number}
        /\ (Top.proc = "HubAttach" => r.number = dev[d].number /\ r.status = dev[d].status)
    BY <1>2, <1>3
  <2> QED  BY <1>1, <1>2, <1>3, <1>7, <2>1, <2>2, RetouchedHolds, Zenon
<1>10. Elsewhere'
  <2>1. Stays(f)  BY <1>4, <1>6, BothStay
  <2>2. PosStay  BY <1>9 DEF Holds
  <2>3. /\ Len(frames') >= n - 1 /\ Len(frames') >= n /\ frames'[n].at \in Early
        /\ n # 1 \/ (frames' # << >> /\ frames'[1].proc = "Attach")
    BY <1>4, <1>5, <1>7
  <2>4. AddressedIs(d)'
    <3>1. /\ frames # << >> /\ Top.proc = "Attach" /\ d = Top.dev /\ PosStay /\ Lower /\ frames' \in Seq(FrameType)
          /\ Len(frames') >= n - 1 /\ (n # 1 \/ (frames' # << >> /\ frames'[1].proc = "Attach"))
          /\ Len(frames') >= n /\ frames'[n].proc = "Attach" /\ frames'[n].at \in Early /\ frames'[n].dev = d
      BY <1>1, <1>2, <1>7, <2>2, <2>3, Zenon
    <3> HIDE DEF PosStay, Lower
    <3> QED  BY <3>1, AttachAddressed
  <2>5. ~r.hub  BY <1>2, <1>3 DEF Bare
  <2>6. UNCHANGED <<plugged, enabled, connChange, enableChange, gaveUp>> /\ Top.proc \in {"Attach", "HubAttach"}  BY <1>2
  <2> QED  BY <1>1, <1>2, <1>3, <1>9, <2>1, <2>4, <2>5, <2>6, RetouchedElsewhere, Zenon
<1>11. /\ PosOf(n)' = PosOf(n) /\ PosOf(n + 1)' = dev[h].pos /\ PortOf(n + 1)' = PosOf(n)
  <2>1. dev'[frames'[n].dev].pos = dev[frames[n].dev].pos  BY <1>1, <1>4, <1>7, <1>8
  <2>2. PosOf(n + 1)' = dev[h].pos  BY <1>7, <1>8 DEF PosOf
  <2> QED  BY <1>2, <1>7, <2>1, <2>2 DEF PosOf, PortOf
<1>12. ~GotOK(n)' /\ ~GotError(n)'  BY <1>7 DEF GotOK, GotError, IsTop, Asking
<1>13. /\ Way(PosOf(n)) \subseteq enabled \ connChange
       /\ PosOf(n) \in plugged /\ PosOf(n) \notin connChange
  <2>1. ~Rereset(n)  BY <1>2, <1>4 DEF Rereset
  <2>2. Way(PosOf(n)) \subseteq enabled \ connChange  BY <1>4, <2>1 DEF Open, Settled
  <2> QED  BY <1>2, <2>2
<1>14. FrameOK(n + 1)'
  <2>1. h \in Live' /\ i \in 1 .. dev'[h].maxChildren /\ frames'[n + 1].at \in Places[frames'[n + 1].proc]
    BY <1>2, <1>5, <1>7, <1>8
  <2> QED  BY <1>7, <2>1 DEF FrameOK
<1>15. Calls(n)'  BY <1>7, <1>11 DEF Calls
<1>16. Open(n)'
  <2>1. Rereset(n)'  BY <1>7 DEF Rereset
  <2>2. Way(PosOf(n))' = Way(PosOf(n)) /\ PosOf(n)' = PosOf(n)  BY <1>11 DEF Way
  <2>3. enabled' = enabled /\ connChange' = connChange  BY <1>2
  <2> QED  BY <1>2, <1>13, <2>1, <2>2, <2>3 DEF Open
<1>17. Open(n + 1)'
  <2>1. ~Rereset(n + 1)'  BY <1>7 DEF Rereset
  <2>2. Settled(dev[h].pos)  BY <1>2, <1>13 DEF Settled
  <2>3. Way(PosOf(n + 1))' = Way(dev[h].pos)  BY <1>11 DEF Way
  <2>4. enabled' = enabled /\ connChange' = connChange  BY <1>2
  <2>5. Way(PosOf(n + 1))' \subseteq enabled' \ connChange'  BY <2>2, <2>3, <2>4 DEF Settled
  <2>6. Settled(PosOf(n + 1))'  BY <2>5 DEF Settled
  <2> QED  BY <2>1, <2>6 DEF Open
<1>18. Knows(n)'
  <2>1. Bare(d)'  BY <1>2, <1>3, <1>8 DEF Bare
  <2>2. Reports(PosOf(n))'  BY <1>2, <1>11 DEF Reports
  <2>3. dev'[d].number = 0 /\ dev'[d].status = "Default" /\ dev'[d].parent # Null  BY <1>1, <1>2, <1>3, <1>8, Zenon
  <2>4. devices' = devices /\ plugged' = plugged  BY <1>2
  <2>5. "rereset" \notin {"begin", "end"}  OBVIOUS
  <2>6. KnowsAttach(n)'  BY <1>2, <1>5, <1>7, <1>11, <1>12, <1>13, <2>1, <2>2, <2>3, <2>4, <2>5 DEF KnowsAttach
  <2> QED  BY <1>7, <2>6, KnowsIs
<1>19. Knows(n + 1)'
  <2>1. plugged' = plugged /\ connChange' = connChange  BY <1>2
  <2>2. KnowsReset(n + 1)'  BY <1>7, <1>11, <1>13, <2>1 DEF KnowsReset
  <2> QED  BY <1>7, <2>2, KnowsIs
<1>20. /\ Top.proc \notin {"Verify", "CheckConnection", "CheckForChange"} /\ f.at \in Places[f.proc]
       /\ f.proc # "HubAttach" /\ g.proc \in {"Verify", "PortReset"}
  BY <1>2, <1>5, <1>6
<1> QED  BY <1>2, <1>6, <1>9, <1>10, <1>14, <1>15, <1>16, <1>17, <1>18, <1>19, <1>20, MakesAnew

LEMMA DescribedKeeps == ASSUME TreeInv, Described, NEW n, n = Len(frames) PROVE TreeInv'
<1>1. CASE result # "ok"
  <2>1. /\ frames # << >> /\ Top.proc = "Attach" /\ Top.at = "described" /\ GiveUp
        /\ UNCHANGED <<devices, status, plugged, enabled, connChange, enableChange, gaveUp>>
    BY <1>1 DEF Described, At, hardware, counts
  <2> QED  BY <1>1, <2>1, GivenUp
<1>2. CASE result = "ok" /\ Goto("address")  BY <1>2, DescribedGoes
<1>3. CASE result = "ok" /\ ~Goto("address")  BY <1>3, DescribedCalls
<1> QED  BY <1>1, <1>2, <1>3

(* HubAttach: what is known where it is.                                   *)
LEMMA HubIs ==
  ASSUME TreeInv, frames # << >>, NEW n, n = Len(frames), Top.proc = "HubAttach", NEW d, d = Top.dev
  PROVE  /\ Types /\ TypeOK /\ Stack /\ n \in Nat \ {0} /\ n \in 1 .. Len(frames) /\ Top = frames[n] /\ frames[n].dev = d
         /\ d \in Live /\ d \in DevIds /\ Here = dev[d] /\ Here.pos = PosOf(n) /\ dev[d].pos = PosOf(n)
         /\ dev[d] \in DeviceType /\ dev[d].maxChildren \in Nat /\ dev[d].maxChildren <= PortCount[dev[d].pos]
         /\ dev[d].status \in Done
         /\ Top.at \in {"begin", "describe", "described"} => dev[d].maxChildren = 0 /\ Reports(PosOf(n))
         /\ Top.at # "port" => \A i \in PortNums : dev[d].children[i] = Null
         /\ Way(PosOf(n)) \subseteq enabled \ connChange /\ NotCleared
<1>1. /\ Types /\ TypeOK /\ Stack /\ n \in Nat \ {0} /\ n \in 1 .. Len(frames) /\ Top = frames[n]
      /\ Top.dev \in Live /\ Top.dev \in DevIds /\ Here = dev[frames[n].dev] /\ Here.pos = PosOf(n) /\ Knows(n) /\ Open(n)
  BY InvIs
<1>2. /\ dev[d].status \in Done
      /\ Top.at \in {"begin", "describe", "described"} => dev[d].maxChildren = 0 /\ Reports(PosOf(n))
      /\ Top.at # "port" => \A i \in PortNums : dev[d].children[i] = Null
  BY <1>1 DEF Knows, KnowsHub
<1>3. Way(PosOf(n)) \subseteq enabled \ connChange
  <2>1. ~Rereset(n)  BY <1>1 DEF Rereset
  <2> QED  BY <1>1, <2>1 DEF Open, Settled
<1>4. dev[d] \in DeviceType /\ dev[d].maxChildren \in Nat /\ dev[d].maxChildren <= PortCount[dev[d].pos]
  BY <1>1, DeviceIs
<1>5. NotCleared  BY DEF NotCleared
<1> QED  BY <1>1, <1>2, <1>3, <1>4, <1>5

(* The hub with its driver's fields set is the same device.                *)
HubAs(d, b, m) == [dev[d] EXCEPT !.hub = b, !.maxChildren = m]

LEMMA HubTouched ==
  ASSUME TreeInv, frames # << >>, NEW n, n = Len(frames), Top.proc = "HubAttach", NEW d, d = Top.dev,
         NEW b, b \in BOOLEAN, NEW m, m \in Nat, m >= dev[d].maxChildren, m <= PortCount[dev[d].pos],
         NEW r, r = HubAs(d, b, m), SetHere(r)
  PROVE  /\ Retouched(d, r) /\ r.number = dev[d].number /\ r.status = dev[d].status
         /\ r.hub = b /\ r.maxChildren = m
<1>1. d \in Live /\ dev[d] \in DeviceType  BY HubIs
<1>2. /\ r \in DeviceType /\ r.pos = dev[d].pos /\ r.parent = dev[d].parent /\ r.port = dev[d].port /\ r.children = dev[d].children
      /\ r.number = dev[d].number /\ r.status = dev[d].status /\ r.hub = b /\ r.maxChildren = m
  BY <1>1 DEF DeviceType, HubAs
<1>3. dev' = [dev EXCEPT ![d] = r]  BY DEF SetHere
<1>4. r.status # "Free"  BY <1>1, <1>2 DEF Live
<1> QED  BY <1>1, <1>2, <1>3, <1>4 DEF Retouched

(* A hub whose devices are all still to be reported has none on its ports, *)
(* and its ports' changes tell of them.                                    *)
LEMMA HubSees ==
  ASSUME TreeInv, frames # << >>, NEW n, n = Len(frames), Top.proc = "HubAttach", NEW d, d = Top.dev,
         Top.at \in {"begin", "describe", "described"},
         NEW r, Retouched(d, r), UNCHANGED <<plugged, connChange>>
  PROVE  SeenOf(d)'
<1>1. /\ TypeOK /\ d \in Live /\ d \in DevIds /\ dev[d].pos = PosOf(n) /\ Reports(PosOf(n))
      /\ \A i \in PortNums : dev[d].children[i] = Null
  BY HubIs
<1>2. PICK q : q = dev[d].pos  OBVIOUS
<1>3. q \in Positions /\ q \in Seq(Nat)  BY <1>1, <1>2, DeviceIs
<1>4. dev'[d].pos = q /\ dev'[d].children = dev[d].children /\ dev'[d].maxChildren <= PortCount[q] /\ dev'[d].maxChildren \in Nat
  <2>1. dev'[d].pos = q /\ dev'[d].children = dev[d].children /\ dev'[d].maxChildren <= PortCount[dev'[d].pos]
        /\ dev'[d] = r
    BY <1>1, <1>2, RetouchedIs
  <2>2. r.maxChildren \in Nat  BY DEF Retouched, DeviceType
  <2> QED  BY <2>1, <2>2
<1> SUFFICES ASSUME NEW i \in 1 .. dev'[d].maxChildren, NEW p, p = Append(q, i), p \notin connChange'
             PROVE  /\ dev'[d].children[i] # Null => p \in plugged'
                    /\ p \in plugged' /\ ~gaveUp' => dev'[d].children[i] # Null
  BY <1>4 DEF SeenOf
<1>5. i \in 1 .. PortCount[q]
  <2>1. PortCount[q] \in Nat  BY <1>3, PositionIs
  <2> QED  BY <1>4, <2>1
<1>6. i \in PortNums /\ p \in Below(q)  BY <1>3, <1>5, PortIs, BelowNext
<1>7. dev'[d].children[i] = Null  BY <1>1, <1>4, <1>6
<1>8. p \notin plugged'  BY <1>1, <1>2, <1>6 DEF Reports
<1> QED  BY <1>7, <1>8

LEMMA HubGoes ==
  ASSUME TreeInv, frames # << >>, NEW n, n = Len(frames), Top.proc = "HubAttach", NEW d, d = Top.dev,
         NEW r, Retouched(d, r), r.number = dev[d].number, r.status = dev[d].status,
         Top.at \in {"begin", "describe", "described"},
         NEW a \in {"describe", "status"}, Goto(a), a = "describe" => r.maxChildren = 0,
         UNCHANGED <<devices, status, plugged, enabled, connChange, enableChange, gaveUp, result>>
  PROVE  TreeInv'
<1>1. /\ Types /\ TypeOK /\ n \in Nat \ {0} /\ n \in 1 .. Len(frames) /\ Top = frames[n] /\ frames[n].dev = d
      /\ d \in Live /\ d \in DevIds /\ dev[d].pos = PosOf(n) /\ dev[d].status \in Done /\ Reports(PosOf(n))
      /\ \A i \in PortNums : dev[d].children[i] = Null
      /\ Way(PosOf(n)) \subseteq enabled \ connChange
  BY HubIs
<1>2. a \in Places[Top.proc] /\ a \in Places["HubAttach"]  BY DEF Places
<1>3. PICK f \in FrameType : Goes(f) /\ f.proc = Top.proc /\ f.at = a /\ f.dev = Top.dev /\ f.port = Top.port /\ f.n = Top.n
  BY <1>1, <1>2, GotoPick
<1>4. frames'[n] = f /\ Len(frames') = n  BY <1>1, <1>3 DEF Goes
<1>5. dev'[d] = r /\ dev'[d].pos = dev[d].pos /\ dev'[d].children = dev[d].children  BY <1>1, RetouchedIs
<1>6. PosOf(n)' = PosOf(n)  BY <1>1, <1>3, <1>4, <1>5 DEF PosOf
<1>7. SeenOf(d)'  BY <1>1, HubSees
<1>8. Open(n)'
  <2>1. ~Rereset(n)'  BY <1>3, <1>4 DEF Rereset
  <2>2. Way(PosOf(n))' = Way(PosOf(n))  BY <1>6 DEF Way
  <2>3. Settled(PosOf(n))'  BY <1>1, <2>2 DEF Settled
  <2> QED  BY <2>1, <2>3 DEF Open
<1>9. Knows(n)'
  <2>1. Reports(PosOf(n))'  BY <1>1, <1>6 DEF Reports
  <2>2. frames'[n].proc = "HubAttach" /\ frames'[n].at = a /\ frames'[n].dev = d  BY <1>3, <1>4
  <2>3. KnowsHub(n)'  BY <1>1, <1>5, <2>1, <2>2 DEF KnowsHub
  <2> QED  BY <2>2, <2>3, KnowsIs
<1>10. result' \in {"ok", "error", "disconnected"}  BY <1>1 DEF TypeOK
<1>11. /\ f.at \in Places[Top.proc] /\ f.proc = Top.proc /\ f.port = Top.port /\ Goes(f)
       /\ r.number \in {0, dev[d].number}
       /\ Top.proc \in {"Attach", "HubAttach"} /\ Top.proc # "Attach"
       /\ UNCHANGED <<devices, status, plugged, enabled, connChange, enableChange, gaveUp>>
  BY <1>2, <1>3
<1> QED  BY <1>7, <1>8, <1>9, <1>10, <1>11, RetouchedGoes

LEMMA HubReturns ==
  ASSUME TreeInv, frames # << >>, NEW n, n = Len(frames), Top.proc = "HubAttach", NEW d, d = Top.dev,
         NEW r, Retouched(d, r), r.number = dev[d].number, r.status = dev[d].status,
         r.hub => Top.at \in {"begin", "describe", "described"},
         Return("error"),
         UNCHANGED <<devices, status, plugged, enabled, connChange, enableChange, gaveUp>>
  PROVE  TreeInv'
<1>1. /\ Types /\ TypeOK /\ d \in DevIds  BY HubIs
<1>2. Returns /\ result' = "error"  BY <1>1, ReturnIs DEF Return
<1>3. r.hub => SeenOf(d)'  BY HubSees
<1>4. \A e \in DevIds : /\ dev'[e].pos = dev[e].pos /\ dev'[e].parent = dev[e].parent
                        /\ dev'[e].number = dev[e].number /\ dev'[e].status = dev[e].status
  <2>1. dev'[d] = r /\ \A e \in DevIds : e # d => dev'[e] = dev[e]  BY <1>1, RetouchedIs
  <2>2. \A e \in DevIds : dev'[e].pos = dev[e].pos /\ dev'[e].parent = dev[e].parent  BY <1>1, RetouchedIs
  <2> QED  BY <2>1, <2>2
<1>5. n # 1 => Knows(n - 1)'  BY <1>2, <1>4, HubCaller
<1>6. /\ r.number \in {0, dev[d].number} /\ result' \in {"ok", "error", "disconnected"}
      /\ Top.proc \in {"Attach", "HubAttach"} /\ Top.proc # "Attach"
  BY <1>2
<1> QED  BY <1>2, <1>3, <1>5, <1>6, RetouchedReturns

LEMMA BeginHubKeeps == ASSUME TreeInv, BeginHub, NEW n, n = Len(frames) PROVE TreeInv'
<1>1. /\ frames # << >> /\ Top.proc = "HubAttach" /\ Top.at = "begin"
      /\ UNCHANGED <<devices, status, plugged, enabled, connChange, enableChange, gaveUp, result>>
      /\ Goto("describe") /\ SetHere([Here EXCEPT !.hub = TRUE])
  BY DEF BeginHub, At, hardware, counts
<1>2. PICK d : d = Top.dev  OBVIOUS
<1>3. Here = dev[d] /\ dev[d] \in DeviceType /\ dev[d].maxChildren = 0 /\ 0 <= PortCount[dev[d].pos]
  BY <1>1, <1>2, HubIs
<1>4. PICK b, m, r : b = TRUE /\ m = 0 /\ r = HubAs(d, b, m)  OBVIOUS
<1>5. r = [Here EXCEPT !.hub = TRUE]
  <2>1. dev[d] = [dev[d] EXCEPT !.maxChildren = 0]  BY <1>3 DEF DeviceType
  <2> QED  BY <1>3, <1>4, <2>1 DEF DeviceType, HubAs
<1>6. /\ Retouched(d, r) /\ r.number = dev[d].number /\ r.status = dev[d].status /\ r.maxChildren = 0
  <2>1. SetHere(r)  BY <1>1, <1>5
  <2>2. m >= dev[d].maxChildren /\ m <= PortCount[dev[d].pos] /\ m \in Nat /\ b \in BOOLEAN  BY <1>3, <1>4
  <2>3. /\ TreeInv /\ frames # << >> /\ n = Len(frames) /\ Top.proc = "HubAttach" /\ d = Top.dev
        /\ b \in BOOLEAN /\ m \in Nat /\ m >= dev[d].maxChildren /\ m <= PortCount[dev[d].pos]
        /\ r = HubAs(d, b, m) /\ SetHere(r)
    BY <1>1, <1>2, <1>4, <2>1, <2>2
  <2>4. Retouched(d, r) /\ r.number = dev[d].number /\ r.status = dev[d].status /\ r.maxChildren = m
    BY ONLY <2>3, HubTouched
  <2> QED  BY <1>4, <2>4
<1> QED  BY <1>1, <1>2, <1>6, HubGoes

LEMMA HubDescribedKeeps == ASSUME TreeInv, HubDescribed, NEW n, n = Len(frames) PROVE TreeInv'
<1>1. /\ frames # << >> /\ Top.proc = "HubAttach" /\ Top.at = "described"
      /\ UNCHANGED <<devices, status, plugged, enabled, connChange, enableChange, gaveUp>>
  BY DEF HubDescribed, At, hardware, counts
<1>2. PICK m \in 0 .. PortCount[Here.pos] :
        /\ SetHere([Here EXCEPT !.maxChildren = m])
        /\ IF result = "ok" THEN m = PortCount[Here.pos] /\ Goto("status") /\ UNCHANGED result ELSE Return("error")
  BY DEF HubDescribed
<1>3. PICK d : d = Top.dev  OBVIOUS
<1>4. Here = dev[d] /\ dev[d] \in DeviceType /\ dev[d].maxChildren = 0 /\ TypeOK /\ d \in DevIds
  BY <1>1, <1>3, HubIs
<1>5. PICK b : b = dev[d].hub  OBVIOUS
<1>6. PICK r : r = HubAs(d, b, m)  OBVIOUS
<1>7. r = [Here EXCEPT !.maxChildren = m]
  <2>1. dev[d] = [dev[d] EXCEPT !.hub = b]  BY <1>4, <1>5 DEF DeviceType
  <2> QED  BY <1>4, <1>6, <2>1 DEF DeviceType, HubAs
<1>8. /\ Retouched(d, r) /\ r.number = dev[d].number /\ r.status = dev[d].status
  <2>1. SetHere(r)  BY <1>2, <1>7
  <2>2. b \in BOOLEAN  BY <1>4, <1>5 DEF DeviceType
  <2>3. PortCount[dev[d].pos] \in Nat  BY <1>4, DeviceIs
  <2>4. m \in Nat /\ m >= dev[d].maxChildren /\ m <= PortCount[dev[d].pos]  BY <1>2, <1>4, <2>3
  <2>5. /\ TreeInv /\ frames # << >> /\ n = Len(frames) /\ Top.proc = "HubAttach" /\ d = Top.dev
        /\ b \in BOOLEAN /\ m \in Nat /\ m >= dev[d].maxChildren /\ m <= PortCount[dev[d].pos]
        /\ r = HubAs(d, b, m) /\ SetHere(r)
    BY <1>1, <1>3, <1>6, <2>1, <2>2, <2>4
  <2> QED  BY ONLY <2>5, HubTouched
<1>9. CASE result = "ok"
  <2>1. Goto("status") /\ UNCHANGED result  BY <1>2, <1>9
  <2> QED  BY <1>1, <1>3, <1>8, <2>1, HubGoes
<1>10. CASE result # "ok"
  <2>1. Return("error")  BY <1>2, <1>10
  <2> QED  BY <1>1, <1>3, <1>8, <2>1, HubReturns
<1> QED  BY <1>9, <1>10

LEMMA HubStatusReadKeeps == ASSUME TreeInv, HubStatusRead, NEW n, n = Len(frames) PROVE TreeInv'
<1>1. /\ frames # << >> /\ Top.proc = "HubAttach" /\ Top.at \in {"got", "got_again"}
      /\ UNCHANGED <<devices, status, plugged, enabled, connChange, enableChange, gaveUp>>
      /\ UNCHANGED <<devices, status, hardware, counts>>
  BY DEF HubStatusRead, At, hardware, counts
<1>2. PICK d : d = Top.dev  OBVIOUS
<1>3. /\ Types /\ n \in Nat \ {0} /\ n \in 1 .. Len(frames) /\ Top = frames[n] /\ Here = dev[d] /\ dev[d] \in DeviceType /\ dev[d].status \in Done /\ TypeOK /\ d \in DevIds
      /\ (\A i \in PortNums : dev[d].children[i] = Null) /\ NotCleared
  BY <1>1, <1>2, HubIs
<1>4. ASSUME UNCHANGED dev  PROVE Quiet /\ Calm
  <2>1. Quiet  BY <1>1, <1>4 DEF Quiet, counts
  <2> QED  BY <2>1, StillIsCalm DEF Quiet
<1>5. ASSUME UNCHANGED <<dev, result>>, NEW a \in {"power", "port"}, Goto(a)  PROVE TreeInv'
  <2>1. a \in Places[Top.proc]  BY <1>1 DEF Places
  <2>2. /\ frames'[n].proc = Top.proc /\ frames'[n].at = a /\ frames'[n].dev = Top.dev
    BY <1>1, <1>3, <1>5, <2>1, GotoTo
  <2>3. Knows(n)'
    <3>1. KnowsHub(n)'  BY <1>1, <1>2, <1>3, <1>5, <2>2 DEF KnowsHub
    <3> QED  BY <1>1, <2>2, <3>1, KnowsIs
  <2>4. OffKept /\ result' \in {"ok", "error", "disconnected"}  BY <1>1, <1>3, <1>5 DEF OffKept, TypeOK
  <2>5. Quiet  BY <1>4, <1>5
  <2>6. Top.proc # "CheckForChange" /\ Top.proc # "Attach"  BY <1>1
  <2> QED  BY <1>1, <1>5, <2>1, <2>3, <2>4, <2>5, <2>6, GotoKeeps
<1>6. ASSUME UNCHANGED dev, Return("error")  PROVE TreeInv'
  <2>1. Returns  BY <1>1, <1>3, <1>6, ReturnIs DEF Return
  <2>2. n # 1 => Knows(n - 1)'  BY <1>1, <1>6, <2>1, HubCaller
  <2>3. LeavesWell  BY <1>1 DEF LeavesWell
  <2>4. Quiet  BY <1>4, <1>6
  <2> QED  BY <1>1, <1>3, <1>6, <2>2, <2>3, <2>4, ReturnQuiet
<1>7. ASSUME SetHere([Here EXCEPT !.hub = FALSE]), Return("error")  PROVE TreeInv'
  <2>1. PICK m : m = dev[d].maxChildren  OBVIOUS
  <2>2. PICK b, r : b = FALSE /\ r = HubAs(d, b, m)  OBVIOUS
  <2>3. r = [Here EXCEPT !.hub = FALSE]
    <3>1. dev[d] = [dev[d] EXCEPT !.maxChildren = m]  BY <1>3, <2>1 DEF DeviceType
    <3> QED  BY <1>3, <2>2, <3>1 DEF DeviceType, HubAs
  <2>4. m \in Nat /\ m >= dev[d].maxChildren /\ m <= PortCount[dev[d].pos] /\ b \in BOOLEAN
    <3>1. dev[d].maxChildren \in Nat /\ dev[d].maxChildren <= PortCount[dev[d].pos]  BY <1>3, DeviceIs
    <3>2. m \in Nat /\ m >= dev[d].maxChildren /\ m <= PortCount[dev[d].pos]  BY <2>1, <3>1
    <3>3. b \in BOOLEAN  BY <2>2, Zenon
    <3> QED  BY <3>2, <3>3
  <2>5. SetHere(r)  BY <1>7, <2>3
  <2>6. /\ TreeInv /\ frames # << >> /\ n = Len(frames) /\ Top.proc = "HubAttach" /\ d = Top.dev
        /\ b \in BOOLEAN /\ m \in Nat /\ m >= dev[d].maxChildren /\ m <= PortCount[dev[d].pos]
        /\ r = HubAs(d, b, m) /\ SetHere(r)
    BY <1>1, <1>2, <2>2, <2>4, <2>5
  <2>7. Retouched(d, r) /\ r.number = dev[d].number /\ r.status = dev[d].status /\ r.hub = b
    BY ONLY <2>6, HubTouched
  <2> QED  BY <1>1, <1>2, <1>7, <2>2, <2>7, HubReturns
<1> QED  BY <1>5, <1>6, <1>7 DEF HubStatusRead

(***************************************************************************)
(* Ports change only between the calls.                                    *)
(***************************************************************************)
LEMMA PortsHold ==
  ASSUME TreeInv, frames = << >>, UNCHANGED <<dev, devices, status, frames, result, gaveUp>>,
         plugged' \subseteq Ports, enabled' \subseteq plugged', connChange' \subseteq Ports, enableChange' \subseteq plugged',
         Off', Seen'
  PROVE  TreeInv'
<1>1. Types /\ TypeOK /\ Tree /\ Table /\ Elsewhere  BY DEF TreeInv, Types
<1>2. TypeOK'
  <2>1. dev' \in [DevIds -> DeviceType] /\ \A d \in DevIds : dev'[d].maxChildren <= PortCount[dev'[d].pos]
    BY <1>1 DEF TypeOK
  <2>2. devices' \in [Slots -> DevIds \cup {Null}]  BY <1>1 DEF TypeOK
  <2>3. status' \in [Ports -> [conn : BOOLEAN, connCh : BOOLEAN, en : BOOLEAN, enCh : BOOLEAN]]  BY <1>1 DEF TypeOK
  <2>4. result' \in {"ok", "error", "disconnected"}  BY <1>1 DEF TypeOK
  <2> QED  BY <2>1, <2>2, <2>3, <2>4 DEF TypeOK
<1>3. Len(frames') = 0 /\ 1 .. Len(frames') = {} /\ 1 .. Len(frames') - 1 = {}  OBVIOUS
<1>4. Types'  BY <1>1, <1>2, <1>3 DEF Types
<1>5. Tree' /\ Table' /\ Live' = Live
  <2>1. Live' = Live  BY DEF Live
  <2>2. Tree'  BY <1>1, <2>1 DEF Tree, Rooted, FreeIsNew, Children, OnePlace, Hooked, Parents, Parented
  <2>3. Table'  BY <1>1, <2>1 DEF Table, Numbered, OneSlot
  <2> QED  BY <2>1, <2>2, <2>3
<1>6. Stack'  BY <1>3 DEF Stack, First, Links, Climbs, Chain
<1>7. Paths' /\ Knowledge'  BY <1>3 DEF Paths, Knowledge
<1>8. Addressed'
  <2>1. \A d : InHand(d)' <=> InHand(d)  BY DEF InHand, PortOf, PosOf
  <2>2. \A d : EarlyNow(d)' <=> EarlyNow(d)  BY DEF EarlyNow
  <2> SUFFICES ASSUME NEW d \in Live  PROVE AddressedIs(d)'
    BY <1>5 DEF Addressed
  <2>3. AddressedIs(d)  BY <1>1 DEF Elsewhere, Addressed
  <2>4. ~InHand(dev[d].pos) /\ ~InHand(dev[d].pos)'  BY <1>3 DEF InHand
  <2> QED  BY <2>2, <2>3, <2>4 DEF AddressedIs
<1> QED  BY <1>4, <1>5, <1>6, <1>7, <1>8 DEF TreeInv, Elsewhere

(* Between the calls nothing is in hand and nothing was just cleared.      *)
LEMMA Idle ==
  ASSUME TreeInv, frames = << >>
  PROVE  /\ TypeOK /\ Tree /\ \A p : ~InHand(p) /\ ~Cleared(p)
         /\ \A d \in Live : LET q == dev[d].pos IN
              Way(q) \ {q} \subseteq enabled /\ q \notin enabled /\ q # <<>> => q \in connChange \cup enableChange
         /\ \A d \in Live : dev[d].hub /\ Way(dev[d].pos) \subseteq enabled =>
              \A i \in 1 .. dev[d].maxChildren :
                LET p == Append(dev[d].pos, i) IN
                p \notin connChange =>
                  /\ dev[d].children[i] # Null => p \in plugged
                  /\ p \in plugged /\ ~gaveUp => dev[d].children[i] # Null
<1>1. TypeOK /\ Tree /\ Off /\ Seen  BY DEF TreeInv, Types, Elsewhere
<1>2. \A p : ~InHand(p) /\ ~Cleared(p)
  <2>1. Len(frames) = 0 /\ 1 .. Len(frames) = {}  OBVIOUS
  <2> QED  BY <2>1 DEF InHand, Cleared
<1>3. ASSUME NEW d \in Live, NEW q, q = dev[d].pos, Way(q) \ {q} \subseteq enabled, q \notin enabled, q # <<>>
      PROVE  q \in connChange \cup enableChange
  BY <1>1, <1>2, <1>3 DEF Off
<1>4. ASSUME NEW d \in Live, dev[d].hub, Way(dev[d].pos) \subseteq enabled, NEW i \in 1 .. dev[d].maxChildren,
             NEW p, p = Append(dev[d].pos, i), p \notin connChange
      PROVE  /\ dev[d].children[i] # Null => p \in plugged
             /\ p \in plugged /\ ~gaveUp => dev[d].children[i] # Null
  BY <1>1, <1>2, <1>4 DEF Seen, SeenOf
<1> QED  BY <1>1, <1>2, <1>3, <1>4

LEMMA PlugKeeps == ASSUME TreeInv, frames = << >>, NEW p \in Ports, Plug(p) PROVE TreeInv'
<1>1. /\ UNCHANGED <<dev, devices, status, frames, result, gaveUp>>
      /\ plugged' = plugged \cup {p} /\ connChange' = connChange \cup {p} /\ enabled' = enabled /\ enableChange' = enableChange
  BY DEF Plug, MayChange
<1>2. TypeOK /\ Off /\ Seen  BY DEF TreeInv, Types, Elsewhere
<1>3. plugged' \subseteq Ports /\ enabled' \subseteq plugged' /\ connChange' \subseteq Ports /\ enableChange' \subseteq plugged'
  BY <1>1, <1>2 DEF TypeOK
<1>4. Live' = Live  BY <1>1 DEF Live
<1>5. Off'
  <2> SUFFICES ASSUME NEW d \in Live, NEW q, q = dev[d].pos, Way(q) \ {q} \subseteq enabled', q \notin enabled', q # <<>>
               PROVE  q \in connChange' \cup enableChange'
    BY <1>1, <1>4 DEF Off
  <2>1. q \in connChange \cup enableChange  BY <1>1, Idle
  <2> QED  BY <1>1, <2>1
<1>6. Seen'
  <2> SUFFICES ASSUME NEW d \in Live, dev[d].hub, Way(dev[d].pos) \subseteq enabled, NEW i \in 1 .. dev[d].maxChildren,
                      NEW q, q = Append(dev[d].pos, i), q \notin connChange'
               PROVE  /\ dev[d].children[i] # Null => q \in plugged'
                      /\ q \in plugged' /\ ~gaveUp => dev[d].children[i] # Null
    BY <1>1, <1>4 DEF Seen, SeenOf
  <2>1. q # p /\ q \notin connChange  BY <1>1
  <2>2. /\ dev[d].children[i] # Null => q \in plugged
        /\ q \in plugged /\ ~gaveUp => dev[d].children[i] # Null
    BY <2>1, Idle
  <2> QED  BY <1>1, <2>1, <2>2
<1> QED  BY <1>1, <1>3, <1>5, <1>6, PortsHold

LEMMA UnplugKeeps == ASSUME TreeInv, frames = << >>, NEW p \in Ports, Unplug(p) PROVE TreeInv'
<1>1. /\ UNCHANGED <<dev, devices, status, frames, result, gaveUp>>
      /\ plugged' = plugged \ ({p} \cup Below(p)) /\ enabled' = enabled \ ({p} \cup Below(p))
      /\ connChange' = (connChange \ Below(p)) \cup {p} /\ enableChange' = enableChange \ ({p} \cup Below(p))
  BY DEF Unplug, MayChange
<1>2. TypeOK /\ Tree  BY DEF TreeInv, Types
<1>3. plugged' \subseteq Ports /\ enabled' \subseteq plugged' /\ connChange' \subseteq Ports /\ enableChange' \subseteq plugged'
  BY <1>1, <1>2 DEF TypeOK
<1>4. Live' = Live  BY <1>1 DEF Live
<1>5. \A d \in Live : d \in DevIds /\ dev[d].pos \in Positions /\ (dev[d].pos # <<>> => dev[d].pos \in Ports)
  BY <1>2, LiveIs, DeviceIs DEF Ports
<1>6. Off'
  <2> SUFFICES ASSUME NEW d \in Live, NEW q, q = dev[d].pos, Way(q) \ {q} \subseteq enabled', q \notin enabled', q # <<>>
               PROVE  q \in connChange' \cup enableChange'
    BY <1>1, <1>4 DEF Off
  <2>1. CASE q = p  BY <1>1, <2>1
  <2>2. CASE q # p
    <3>1. q \in Ports  BY <1>5
    <3>2. q \notin Below(p)
      <4> SUFFICES ASSUME q \in Below(p)  PROVE FALSE
        OBVIOUS
      <4>1. p \in Way(q)  BY <3>1, BelowIs
      <4> QED  BY <1>1, <2>2, <4>1
    <3>3. Way(q) \ {q} \subseteq enabled /\ q \notin enabled  BY <1>1, <2>2, <3>2
    <3>4. q \in connChange \cup enableChange  BY <3>3, Idle
    <3> QED  BY <1>1, <2>2, <3>2, <3>4
  <2> QED  BY <2>1, <2>2
<1>7. Seen'
  <2> SUFFICES ASSUME NEW d \in Live, dev[d].hub, Way(dev[d].pos) \subseteq enabled', NEW i \in 1 .. dev[d].maxChildren,
                      NEW q, q = Append(dev[d].pos, i), q \notin connChange'
               PROVE  /\ dev[d].children[i] # Null => q \in plugged'
                      /\ q \in plugged' /\ ~gaveUp => dev[d].children[i] # Null
    BY <1>1, <1>4 DEF Seen, SeenOf
  <2>1. i \in 1 .. PortCount[dev[d].pos] /\ dev[d].pos \in Positions
    <3>1. d \in DevIds  BY <1>5
    <3>2. dev[d].maxChildren \in Nat /\ dev[d].maxChildren <= PortCount[dev[d].pos] /\ PortCount[dev[d].pos] \in Nat
      BY <1>2, <3>1, DeviceIs
    <3> QED  BY <1>5, <3>2
  <2>2. q \in Ports /\ Way(q) = Way(dev[d].pos) \cup {q}  BY <2>1, PortIs
  <2>3. q # p  BY <1>1
  <2>4. q \notin Below(p)
    <3> SUFFICES ASSUME q \in Below(p)  PROVE FALSE
      OBVIOUS
    <3>1. p \in Way(q)  BY <2>2, BelowIs
    <3>2. p \in Way(dev[d].pos)  BY <2>2, <2>3, <3>1
    <3> QED  BY <1>1, <3>2
  <2>5. q \notin connChange /\ Way(dev[d].pos) \subseteq enabled  BY <1>1, <2>4
  <2>6. /\ dev[d].children[i] # Null => q \in plugged
        /\ q \in plugged /\ ~gaveUp => dev[d].children[i] # Null
    BY <2>5, Idle
  <2> QED  BY <1>1, <2>3, <2>4, <2>6
<1> QED  BY <1>1, <1>3, <1>6, <1>7, PortsHold

LEMMA DisableKeeps == ASSUME TreeInv, frames = << >>, NEW p \in Ports, Disable(p) PROVE TreeInv'
<1>1. /\ UNCHANGED <<dev, devices, status, frames, result, gaveUp>> /\ p \in plugged
      /\ plugged' = plugged /\ connChange' = connChange /\ enabled' = enabled \ {p} /\ enableChange' = enableChange \cup {p}
  BY DEF Disable, MayChange
<1>2. TypeOK  BY DEF TreeInv, Types
<1>3. plugged' \subseteq Ports /\ enabled' \subseteq plugged' /\ connChange' \subseteq Ports /\ enableChange' \subseteq plugged'
  BY <1>1, <1>2 DEF TypeOK
<1>4. Live' = Live  BY <1>1 DEF Live
<1>5. Off'
  <2> SUFFICES ASSUME NEW d \in Live, NEW q, q = dev[d].pos, Way(q) \ {q} \subseteq enabled', q \notin enabled', q # <<>>
               PROVE  q \in connChange' \cup enableChange'
    BY <1>1, <1>4 DEF Off
  <2>1. CASE q = p  BY <1>1, <2>1
  <2>2. CASE q # p
    <3>1. Way(q) \ {q} \subseteq enabled /\ q \notin enabled  BY <1>1, <2>2
    <3>2. q \in connChange \cup enableChange  BY <3>1, Idle
    <3> QED  BY <1>1, <3>2
  <2> QED  BY <2>1, <2>2
<1>6. Seen'
  <2> SUFFICES ASSUME NEW d \in Live, dev[d].hub, Way(dev[d].pos) \subseteq enabled', NEW i \in 1 .. dev[d].maxChildren,
                      NEW q, q = Append(dev[d].pos, i), q \notin connChange'
               PROVE  /\ dev[d].children[i] # Null => q \in plugged'
                      /\ q \in plugged' /\ ~gaveUp => dev[d].children[i] # Null
    BY <1>1, <1>4 DEF Seen, SeenOf
  <2>1. q \notin connChange /\ Way(dev[d].pos) \subseteq enabled  BY <1>1
  <2>2. /\ dev[d].children[i] # Null => q \in plugged
        /\ q \in plugged /\ ~gaveUp => dev[d].children[i] # Null
    BY <2>1, Idle
  <2> QED  BY <1>1, <2>2
<1> QED  BY <1>1, <1>3, <1>5, <1>6, PortsHold

(***************************************************************************)
(* At first only the root hub is there, about to be attached.              *)
(***************************************************************************)
LEMMA InitTypes == ASSUME Init PROVE TypeOK /\ Live = {1} /\ 1 \in DevIds /\ 1 \in Slots
<1>1. 1 \in DevIds /\ 1 \in Slots /\ 1 \in 0 .. MaxDevices /\ 0 \in 0 .. MaxDevices
  <2>1. 1 \in Slots /\ 1 \in 0 .. MaxDevices /\ 0 \in 0 .. MaxDevices  BY BoundsAssumption DEF Slots
  <2>2. PICK d : d \in DevIds  BY BoundsAssumption
  <2>3. d \in 1 .. Cardinality(DevIds) /\ DevIds = 1 .. Cardinality(DevIds) /\ Cardinality(DevIds) \in Nat
    BY <2>2, BoundsAssumption, FS_CardinalityType
  <2>4. 1 \in 1 .. Cardinality(DevIds)  BY <2>3
  <2> QED  BY <2>1, <2>3, <2>4
<1>2. << >> \in Positions /\ PortCount[<< >>] \in Nat  BY TopologyAssumption
<1>3. Free \in DeviceType
  BY <1>1, <1>2 DEF Free, DeviceType
<1>4. [Free EXCEPT !.status = "Powered", !.number = 1] \in DeviceType
  BY <1>1, <1>3 DEF DeviceType
<1>5. dev \in [DevIds -> DeviceType]  BY <1>3, <1>4 DEF Init
<1>6. \A d \in DevIds : dev[d].maxChildren = 0 /\ dev[d].pos = << >>  BY DEF Init, Free
<1>7. \A d \in DevIds : dev[d].maxChildren <= PortCount[dev[d].pos]  BY <1>2, <1>6
<1>8. devices \in [Slots -> DevIds \cup {Null}]  BY <1>1 DEF Init
<1>9. status \in [Ports -> [conn : BOOLEAN, connCh : BOOLEAN, en : BOOLEAN, enCh : BOOLEAN]]
  <2>1. [conn |-> FALSE, connCh |-> FALSE, en |-> FALSE, enCh |-> FALSE] \in [conn : BOOLEAN, connCh : BOOLEAN, en : BOOLEAN, enCh : BOOLEAN]
    OBVIOUS
  <2> QED  BY <2>1 DEF Init
<1>10. plugged \subseteq Ports /\ enabled = {} /\ connChange = plugged /\ enableChange = {} /\ result = "ok"  BY DEF Init
<1>11. TypeOK  BY <1>5, <1>7, <1>8, <1>9, <1>10 DEF TypeOK
<1>12. Live = {1}  BY <1>1 DEF Init, Live, Free
<1> QED  BY <1>1, <1>11, <1>12

LEMMA InitIs ==
  ASSUME Init
  PROVE  /\ frames \in Seq(FrameType) /\ Len(frames) = 1 /\ frames # << >>
         /\ frames[1].proc = "Attach" /\ frames[1].at = "begin" /\ frames[1].dev = 1
         /\ dev[1].pos = << >> /\ dev[1].parent = Null /\ dev[1].number = 1 /\ dev[1].status = "Powered"
         /\ ~dev[1].hub /\ dev[1].maxChildren = 0 /\ \A i \in PortNums : dev[1].children[i] = Null
         /\ \A d \in DevIds \ {1} : dev[d] = Free
         /\ devices = [s \in Slots |-> IF s = 1 THEN 1 ELSE Null]
         /\ connChange = plugged /\ plugged \subseteq Ports
<1>1. 1 \in DevIds  BY InitTypes
<1>2. "Attach" \in Procs /\ "begin" \in Places["Attach"] /\ 0 \in Nat  BY DEF Procs, Places
<1>3. PICK f \in FrameType : /\ f = Frame("Attach", "begin", 1, 0)
                             /\ f.proc = "Attach" /\ f.at = "begin" /\ f.dev = 1
  BY <1>1, <1>2, NewFrameIs
<1>4. frames = <<f>>  BY <1>3 DEF Init
<1>5. frames \in Seq(FrameType) /\ Len(frames) = 1 /\ frames # << >> /\ frames[1] = f  BY <1>3, <1>4
<1>6. /\ dev[1].pos = << >> /\ dev[1].parent = Null /\ dev[1].number = 1 /\ dev[1].status = "Powered"
      /\ ~dev[1].hub /\ dev[1].maxChildren = 0 /\ \A i \in PortNums : dev[1].children[i] = Null
      /\ \A d \in DevIds \ {1} : dev[d] = Free
  BY <1>1 DEF Init, Free
<1>7. devices = [s \in Slots |-> IF s = 1 THEN 1 ELSE Null]  BY DEF Init
<1>8. connChange = plugged /\ plugged \subseteq Ports  BY DEF Init
<1> QED  BY <1>3, <1>5, <1>6, <1>7, <1>8

LEMMA InitTree == ASSUME Init PROVE Tree /\ Table
<1>1. /\ Live = {1} /\ 1 \in DevIds /\ 1 \in Slots  BY InitTypes
<1>2. /\ dev[1].pos = << >> /\ dev[1].parent = Null /\ dev[1].number = 1 /\ dev[1].status = "Powered"
      /\ \A i \in PortNums : dev[1].children[i] = Null
      /\ \A d \in DevIds \ {1} : dev[d] = Free
      /\ devices = [s \in Slots |-> IF s = 1 THEN 1 ELSE Null]
  BY InitIs
<1>3. Tree  BY <1>1, <1>2 DEF Tree, Rooted, FreeIsNew, Children, OnePlace, Hooked, Parents, Parented
<1>4. Numbered  BY <1>1, <1>2 DEF Numbered
<1>5. OneSlot  BY <1>1, <1>2 DEF OneSlot, Null
<1> QED  BY <1>3, <1>4, <1>5 DEF Table

LEMMA InitInv == ASSUME Init PROVE TreeInv
<1>1. TypeOK /\ Live = {1} /\ 1 \in DevIds /\ 1 \in Slots  BY InitTypes
<1>2. Tree /\ Table  BY InitTree
<1>3. /\ frames \in Seq(FrameType) /\ Len(frames) = 1 /\ frames # << >>
      /\ frames[1].proc = "Attach" /\ frames[1].at = "begin" /\ frames[1].dev = 1
      /\ dev[1].pos = << >> /\ dev[1].parent = Null /\ dev[1].number = 1 /\ dev[1].status = "Powered"
      /\ ~dev[1].hub /\ dev[1].maxChildren = 0
      /\ connChange = plugged /\ plugged \subseteq Ports
  BY InitIs
<1>4. \A k \in 1 .. Len(frames) : k = 1  BY <1>3
<1>5. PosOf(1) = << >>  BY <1>3 DEF PosOf
<1>6. "begin" \in Places["Attach"] /\ "begin" \notin Early \cup Late \cup {"end", "rereset", "described", "addressed", "described2"}
  BY DEF Places, Early, Late
<1>7. Types
  <2>1. FrameOK(1)  BY <1>1, <1>3, <1>6 DEF FrameOK, OnPort
  <2> QED  BY <1>1, <1>3, <1>4, <2>1 DEF Types
<1>8. Stack
  <2>1. First  BY <1>3 DEF First
  <2>2. Links  BY <1>3 DEF Links
  <2>3. Climbs  BY <1>3 DEF Climbs
  <2>4. Chain
    <3> SUFFICES ASSUME NEW j \in 1 .. Len(frames), NEW k \in 1 .. Len(frames)  PROVE Way(PosOf(j)) \subseteq Way(PosOf(k))
      BY DEF Chain
    <3> QED  BY <1>4
  <2> QED  BY <2>1, <2>2, <2>3, <2>4 DEF Stack
<1>9. Paths
  <2>1. ~Rereset(1)  BY <1>3 DEF Rereset
  <2>2. Open(1)  BY <1>5, <2>1, WayOfNothing DEF Open, Settled
  <2> QED  BY <1>4, <2>2 DEF Paths
<1>10. Knowledge
  <2>1. KnowsAttach(1)  BY <1>3, <1>5, <1>6 DEF KnowsAttach, Bare, Reports
  <2>2. Knows(1)  BY <1>3, <2>1 DEF Knows, KnowsCheck, KnowsChanged, KnowsReset, KnowsHub, KnowsWalk
  <2> QED  BY <1>4, <2>2 DEF Knowledge
<1>11. Elsewhere
  <2>1. Off  BY <1>1, <1>3 DEF Off
  <2>2. Seen  BY <1>1, <1>3 DEF Seen, SeenOf
  <2>3. Addressed  BY <1>1, <1>3 DEF Addressed, AddressedIs
  <2> QED  BY <2>1, <2>2, <2>3 DEF Elsewhere
<1> QED  BY <1>1, <1>2, <1>7, <1>8, <1>9, <1>10, <1>11 DEF TreeInv

(* A step that changes nothing.                                            *)
LEMMA StillKeeps == ASSUME TreeInv, UNCHANGED vars PROVE TreeInv'
<1>1. /\ UNCHANGED <<dev, devices, status, plugged, enabled, connChange, enableChange, frames, result, gaveUp>>
      /\ Types /\ Tree /\ Table /\ Stack /\ Paths /\ Knowledge /\ Elsewhere
  BY DEF vars, hardware, counts, TreeInv
<1>2. Live' = Live  BY <1>1 DEF Live
<1>3. Types'  BY <1>1, <1>2 DEF Types, TypeOK, FrameOK
<1>4. Tree'  BY <1>1, <1>2 DEF Tree, Rooted, FreeIsNew, Children, OnePlace, Hooked, Parents, Parented
<1>5. Table'  BY <1>1, <1>2 DEF Table, Numbered, OneSlot
<1>6. \A k : PosOf(k)' = PosOf(k) /\ PortOf(k)' = PortOf(k) /\ On(k)' = On(k)  BY <1>1 DEF PosOf, PortOf, On
<1>7. Stack'
  <2>1. First'  BY <1>1 DEF Stack, First
  <2>2. Links'
    <3>1. \A k : Asked(k)' <=> Asked(k)  BY <1>1 DEF Asked
    <3>2. \A k : Calls(k)' <=> Calls(k)
      <4> SUFFICES ASSUME NEW k  PROVE Calls(k)' <=> Calls(k)
        OBVIOUS
      <4>1. /\ PosOf(k)' = PosOf(k) /\ PortOf(k)' = PortOf(k) /\ PosOf(k + 1)' = PosOf(k + 1) /\ PortOf(k + 1)' = PortOf(k + 1)
            /\ (Asked(k)' <=> Asked(k)) /\ frames' = frames
        BY <1>1, <1>6, <3>1
      <4> QED  BY ONLY <4>1, Zenon DEF Calls
    <3> QED  BY <1>1, <3>2 DEF Stack, Links
  <2>3. Climbs'  BY <1>1 DEF Stack, Climbs, Climbing
  <2>4. Chain'
    <3>1. \A k : Way(PosOf(k))' = Way(PosOf(k))  BY <1>1 DEF PosOf, Way
    <3>2. \A k : Down(k)' <=> Down(k)  BY <1>1 DEF Down, Climbing
    <3> QED  BY <1>1, <3>1, <3>2 DEF Stack, Chain
  <2> QED  BY <2>1, <2>2, <2>3, <2>4 DEF Stack
<1>8. Paths'  BY <1>1 DEF Paths, Open, Rereset, Settled, PosOf, Way
<1>9. Knowledge'
  <2> SUFFICES ASSUME NEW k \in 1 .. Len(frames)  PROVE Knows(k)'
    BY <1>1 DEF Knowledge
  <2>1. Knows(k)  BY <1>1 DEF Knowledge
  <2>2. KnowsCheck(k)'  BY <1>1, <2>1 DEF Knows, KnowsCheck, IsTop, Asking, GotOK, Fresh, PortStatus, On, PosOf, PortOf
  <2>3. KnowsChanged(k)'
    BY <1>1, <2>1, Zenon DEF Knows, KnowsChanged, IsTop, Asking, GotOK, GotError, Fresh, PortStatus, Up, Bare, Reports, On, PosOf, PortOf
  <2>4. KnowsReset(k)'
    BY <1>1, <2>1 DEF Knows, KnowsReset, IsTop, Asking, GotOK, GotError, Fresh, PortStatus, Up, Reports, PosOf, PortOf
  <2>5. KnowsAttach(k)'  BY <1>1, <2>1 DEF Knows, KnowsAttach, IsTop, Asking, GotOK, GotError, Up, Bare, Reports, PosOf
  <2>6. KnowsHub(k)'  BY <1>1, <2>1 DEF Knows, KnowsHub, Reports, PosOf
  <2>7. KnowsWalk(k)'  BY <1>1, <2>1 DEF Knows, KnowsWalk, IsTop, GotOK, On, PosOf, PortOf
  <2> QED  BY <2>2, <2>3, <2>4, <2>5, <2>6, <2>7 DEF Knows
<1>10. Elsewhere'
  <2>1. Off'  BY <1>1, <1>2 DEF Elsewhere, Off, InHand, Cleared, PortOf, PosOf, Way
  <2>2. Seen'
    <3>1. \A p : InHand(p)' <=> InHand(p)  BY <1>1, <1>6 DEF InHand
    <3>2. ASSUME NEW d \in Live, SeenOf(d)  PROVE SeenOf(d)'  BY <1>1, <3>1, <3>2 DEF SeenOf, Way
    <3> QED  BY <1>1, <1>2, <3>2 DEF Elsewhere, Seen
  <2>3. Addressed'  BY <1>1, <1>2 DEF Elsewhere, Addressed, AddressedIs, EarlyNow, InHand, PortOf, PosOf
  <2> QED  BY <2>1, <2>2, <2>3 DEF Elsewhere
<1> QED  BY <1>3, <1>4, <1>5, <1>7, <1>8, <1>9, <1>10 DEF TreeInv

(***************************************************************************)
(* What the invariant says of the tree.                                    *)
(***************************************************************************)
LEMMA OneEarly ==
  ASSUME TreeInv, NEW j \in 1 .. Len(frames), NEW k \in 1 .. Len(frames), j < k,
         frames[j].proc = "Attach", frames[j].at \in Early
  PROVE  frames[k].proc # "Attach"
<1>1. Types /\ Stack /\ Links /\ Climbs /\ frames \in Seq(FrameType) /\ Len(frames) \in Nat  BY DEF TreeInv, Stack, Types
<1>2. j + 1 \in 1 .. Len(frames) /\ j \in 1 .. Len(frames) - 1 /\ j \in Nat  BY <1>1
<1>3. frames[j + 1].proc \in {"Verify", "CheckConnection", "ConnectionChanged", "PortReset", "Attach", "HubAttach", "CheckForChange"}
  BY <1>1, <1>2, PlaceIs DEF FrameType, OnPort
<1>4. Calls(j)  BY <1>1, <1>2 DEF Links
<1>5. frames[j + 1].proc \in {"Verify", "PortReset"}  BY <1>3, <1>4 DEF Calls, Early
<1>6. CASE k = j + 1  BY <1>5, <1>6
<1>7. CASE k # j + 1
  <2>1. j + 1 < k  BY <1>2, <1>7
  <2>2. Climbing(j + 1)  BY <1>5 DEF Climbing
  <2>3. frames[k].proc \in {"Verify", "CheckConnection"}  BY <1>1, <1>2, <2>1, <2>2 DEF Climbs
  <2> QED  BY <2>3
<1> QED  BY <1>6, <1>7

LEMMA InvUnique == ASSUME TreeInv PROVE UniqueAddress
<1>1. Types /\ TypeOK /\ Table /\ Addressed /\ frames \in Seq(FrameType) /\ Len(frames) \in Nat
  BY DEF TreeInv, Types, Elsewhere
<1> SUFFICES ASSUME NEW d \in Live, NEW e \in Live, d # e, dev[d].number = dev[e].number  PROVE FALSE
  BY DEF UniqueAddress
<1>2. CASE dev[d].number # 0  BY <1>1, <1>2 DEF Table, Numbered
<1>3. CASE dev[d].number = 0
  <2>1. EarlyNow(d) /\ EarlyNow(e)  BY <1>1, <1>3 DEF Addressed, AddressedIs
  <2>2. PICK j \in 1 .. Len(frames) : frames[j].proc = "Attach" /\ frames[j].at \in Early /\ frames[j].dev = d
    BY <2>1 DEF EarlyNow
  <2>3. PICK k \in 1 .. Len(frames) : frames[k].proc = "Attach" /\ frames[k].at \in Early /\ frames[k].dev = e
    BY <2>1 DEF EarlyNow
  <2>4. j < k \/ k < j \/ j = k  BY <1>1
  <2>5. ~(j < k) /\ ~(k < j)  BY <2>2, <2>3, OneEarly
  <2> QED  BY <2>2, <2>3, <2>4, <2>5
<1> QED  BY <1>2, <1>3

LEMMA InvTable == ASSUME TreeInv PROVE TableAgrees
<1>1. Numbered /\ OneSlot  BY DEF TreeInv, Table
<1>2. \A d \in Live : dev[d].number # 0 => devices[dev[d].number] = d  BY <1>1 DEF Numbered
<1>3. ASSUME ~gaveUp, NEW d \in Live  PROVE Cardinality({s \in Slots : devices[s] = d}) = 1
  <2>1. PICK s \in Slots : devices[s] = d  BY <1>1, <1>3 DEF OneSlot
  <2>2. d # Null
    <3>1. TypeOK  BY DEF TreeInv, Types
    <3> QED  BY <3>1, LiveIs, DeviceIs
  <2>3. {t \in Slots : devices[t] = d} = {s}  BY <1>1, <1>3, <2>1, <2>2 DEF OneSlot
  <2> QED  BY <2>3, FS_Singleton
<1>4. ~gaveUp => \A s \in Slots : devices[s] \in Live \cup {Null}  BY <1>1 DEF OneSlot
<1> QED  BY <1>2, <1>3, <1>4 DEF TableAgrees

LEMMA InvTree == ASSUME TreeInv PROVE TreeAgrees
<1>1. TypeOK /\ Tree /\ Children /\ Parents /\ Parented /\ OnePlace  BY DEF TreeInv, Types, Tree
<1>2. ASSUME NEW d \in Live, NEW i \in PortNums, NEW c, c = dev[d].children[i], c # Null
      PROVE  /\ c \in Live /\ dev[c].pos = Append(dev[d].pos, i)
             /\ dev[c].status # "Attached" => dev[c].parent = d /\ dev[c].port = i
  <2>1. /\ c \in Live /\ dev[c].pos = Append(dev[d].pos, i) /\ dev[c].pos \in Ports /\ i \in Nat
    BY <1>1, <1>2, LinkIs
  <2>2. ASSUME dev[c].status # "Attached"  PROVE dev[c].parent = d /\ dev[c].port = i
    <3>1. PICK e, j : e = dev[c].parent /\ j = dev[c].port  OBVIOUS
    <3>2. dev[c].pos # << >>  BY <2>1 DEF Ports
    <3>3. e \in Live /\ j \in PortNums /\ dev[e].children[j] = c /\ c # Null
      <4>1. e # Null  BY <1>1, <2>1, <2>2, <3>1, <3>2 DEF Parented
      <4> QED  BY <1>1, <1>2, <2>1, <3>1, <4>1 DEF Parents
    <3>4. dev[c].pos = Append(dev[e].pos, j) /\ j \in Nat  BY <1>1, <3>3, LinkIs
    <3>5. dev[d].pos \in Positions /\ dev[e].pos \in Positions  BY <1>1, <3>3, LiveIs, DeviceIs
    <3>6. dev[d].pos = dev[e].pos /\ i = j  BY ONLY <2>1, <3>4, <3>5, SamePort
    <3>7. d = e  BY <1>1, <3>3, <3>6 DEF OnePlace
    <3> QED  BY <3>1, <3>6, <3>7
  <2> QED  BY <2>1, <2>2
<1>3. \A c \in Live : dev[c].parent # Null => dev[c].parent \in Live /\ dev[dev[c].parent].children[dev[c].port] = c
  BY <1>1 DEF Parents
<1> QED  BY <1>2, <1>3 DEF TreeAgrees

LEMMA InvSound == ASSUME TreeInv PROVE TreeSound
<1>1. TypeOK /\ Types  BY DEF TreeInv, Types
<1>2. NoFurtherRequests
  <2> SUFFICES ASSUME Sending  PROVE Top.dev \in Live
    BY DEF NoFurtherRequests
  <2> QED  BY <1>1, TopIs DEF Sending
<1> QED  BY <1>1, <1>2, InvUnique, InvTable, InvTree DEF TreeSound

LEMMA InvDone == ASSUME TreeInv PROVE PassDone
<1> SUFFICES ASSUME frames = << >>  PROVE PassDone
  BY DEF PassDone, PassSeesAll, SettledDevices
<1>1. TypeOK /\ Tree /\ (\A p : ~InHand(p)) /\ Addressed  BY Idle DEF TreeInv, Elsewhere
<1>2. PassSeesAll
  <2> SUFFICES ASSUME NEW d \in Live, dev[d].hub, Reachable(dev[d].pos), NEW i \in 1 .. dev[d].maxChildren,
                      NEW p, p = Append(dev[d].pos, i), p \notin connChange
               PROVE  /\ dev[d].children[i] # Null => p \in plugged
                      /\ p \in plugged /\ ~gaveUp => dev[d].children[i] # Null
    BY DEF PassSeesAll
  <2>1. dev[d].pos \in Positions  BY <1>1, LiveIs, DeviceIs
  <2>2. Way(dev[d].pos) \subseteq enabled  BY <2>1, ReachableIs
  <2> QED  BY <2>2, Idle
<1>3. SettledDevices
  <2> SUFFICES ASSUME NEW d \in Live
               PROVE  \/ dev[d].status \in {"Addressed", "Configured"}
                      \/ (dev[d].status = "Attached" /\ dev[d].parent = Null)
    BY DEF SettledDevices
  <2>1. AddressedIs(d)  BY <1>1 DEF Addressed
  <2> QED  BY <1>1, <2>1 DEF AddressedIs, Done
<1> QED  BY <1>2, <1>3 DEF PassDone

(***************************************************************************)
(* Every step keeps the invariant.                                         *)
(***************************************************************************)
(* The table has room for a new device: there is a free slot, or memory    *)
(* runs out first, or no device was given up and memory is no larger.      *)
Roomy == FreeSlots # {} \/ Live = DevIds \/ (~gaveUp /\ Cardinality(DevIds) <= MaxDevices)

(* While nothing was given up every slot taken is a device's, and no       *)
(* device has two.                                                         *)
LEMMA RoomIs == ASSUME TreeInv, Roomy PROVE Live # DevIds => FreeSlots # {}
<1> SUFFICES ASSUME Live # DevIds, FreeSlots = {}, ~gaveUp, Cardinality(DevIds) <= MaxDevices  PROVE FALSE
  BY DEF Roomy
<1>1. /\ \A s \in Slots : devices[s] \in Live \cup {Null}
      /\ \A s, t \in Slots : devices[s] = devices[t] /\ devices[s] # Null => s = t
  BY DEF TreeInv, Table, OneSlot
<1>2. \A s \in Slots : devices[s] # Null  BY DEF FreeSlots
<1>3. devices \in [Slots -> Live]
  <2>1. devices \in [Slots -> DevIds \cup {Null}]  BY DEF TreeInv, Types, TypeOK
  <2> QED  BY <1>1, <1>2, <2>1
<1>4. devices \in Injection(Slots, Live)  BY <1>1, <1>2, <1>3 DEF Injection, IsInjective
<1>5. IsFiniteSet(DevIds) /\ Live \in SUBSET DevIds /\ Cardinality(DevIds) \in Nat /\ MaxDevices \in Nat
  BY LiveIs, BoundsAssumption, FS_CardinalityType
<1>6. /\ IsFiniteSet(Live) /\ Cardinality(Live) <= Cardinality(DevIds) /\ Cardinality(Live) # Cardinality(DevIds)
      /\ Cardinality(Live) \in Nat
  BY <1>5, FS_Subset, FS_CardinalityType
<1>7. Cardinality(Slots) <= Cardinality(Live)  BY <1>4, <1>6, FS_Injection
<1>8. Cardinality(Slots) = MaxDevices
  <2>1. Cardinality(1 .. MaxDevices) = IF 1 > MaxDevices THEN 0 ELSE MaxDevices - 1 + 1
    BY <1>5, FS_Interval
  <2> QED  BY <1>5, <2>1, BoundsAssumption DEF Slots
<1> QED  BY <1>5, <1>6, <1>7, <1>8

LEMMA PortsKeep ==
  ASSUME Survives, TreeInv, NEW p \in Ports, Plug(p) \/ Unplug(p) \/ Disable(p)
  PROVE  TreeInv'
<1>1. frames = << >>  BY DEF Survives, Plug, Unplug, Disable, MayChange
<1> QED  BY <1>1, PlugKeeps, UnplugKeeps, DisableKeeps

LEMMA StepKeeps == ASSUME Survives, TreeInv, Roomy, Steps PROVE TreeInv'
<1>1. PICK n : n = Len(frames)  OBVIOUS
<1>2. CASE Answer  BY <1>1, <1>2, AnswerKeeps
<1>3. CASE Fail  BY <1>1, <1>3, FailKeeps
<1>4. CASE VerifyCheck \/ VerifyChecked  BY <1>1, <1>4, VerifyCheckKeeps, VerifyCheckedKeeps
<1>5. CASE CheckConnection  BY <1>1, <1>5, CheckConnectionKeeps
<1>6. CASE PortReset  BY <1>1, <1>6, PortResetKeeps
<1>7. CASE StatusRead \/ DropOld \/ ResetNew
  BY <1>1, <1>7, StatusReadKeeps, DropOldKeeps, ResetNewKeeps
<1>8. CASE AllocateNew  BY <1>1, <1>8, RoomIs, AllocateNewKeeps
<1>9. CASE AttachNew \/ NewAttached  BY <1>1, <1>9, AttachNewKeeps, NewAttachedKeeps
<1>10. CASE BeginAttach \/ Described \/ ResetAgain \/ WasAddressed
  BY <1>1, <1>10, BeginAttachKeeps, DescribedKeeps, ResetAgainKeeps, WasAddressedKeeps
<1>11. CASE DescribedAgain \/ Configured \/ StartDriver \/ EndAttach
  BY <1>1, <1>11, DescribedAgainKeeps, ConfiguredKeeps, StartDriverKeeps, EndAttachKeeps
<1>12. CASE BeginHub \/ HubDescribed \/ HubStatusRead \/ HubAttachPort
  BY <1>1, <1>12, BeginHubKeeps, HubDescribedKeeps, HubStatusReadKeeps, HubAttachPortKeeps
<1>13. CASE CheckForChangePort \/ CheckForChangeBelow
  BY <1>1, <1>13, CheckForChangePortKeeps, CheckForChangeBelowKeeps
<1> QED  BY <1>2, <1>3, <1>4, <1>5, <1>6, <1>7, <1>8, <1>9, <1>10, <1>11, <1>12, <1>13 DEF Steps

LEMMA NextKeeps == ASSUME Survives, TreeInv, Roomy, [Next]_vars PROVE TreeInv'
<1>1. CASE Steps  BY <1>1, StepKeeps
<1>2. CASE StartPass  BY <1>2, StartPassKeeps
<1>3. ASSUME NEW p \in Ports, Plug(p) \/ Unplug(p) \/ Disable(p)  PROVE TreeInv'  BY <1>3, PortsKeep
<1>4. CASE UNCHANGED vars  BY <1>4, StillKeeps
<1> QED  BY <1>1, <1>2, <1>3, <1>4 DEF Next

LEMMA InvHolds == ASSUME Survives PROVE Spec /\ []Roomy => []TreeInv
<1>1. Init => TreeInv  BY InitInv
<1>2. TreeInv /\ Roomy /\ [Next]_vars => TreeInv'  BY NextKeeps
<1> QED  BY <1>1, <1>2, PTL DEF Spec

(* Whatever comes and goes between the calls and whichever requests fail,  *)
(* the table, the tree and the calls under way agree on which devices      *)
(* there are: no two answer to one number, Devices has each under its own, *)
(* links of the tree agree both ways, and nothing is asked of a device     *)
(* that was freed.                                                         *)
THEOREM TreeIsSound == ASSUME Survives PROVE Spec /\ []Roomy => []TreeSound
<1>1. TreeInv => TreeSound  BY InvSound
<1> QED  BY <1>1, InvHolds, PTL

(* When no call is under way, every hub has a device on just the ports     *)
(* where one is plugged, unless one was given up, and none is half         *)
(* attached.                                                               *)
THEOREM PassesAreDone == ASSUME Survives PROVE Spec /\ []Roomy => []PassDone
<1>1. TreeInv => PassDone  BY InvDone
<1> QED  BY <1>1, InvHolds, PTL
=============================================================================
