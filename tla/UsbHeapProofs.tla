---------------------------- MODULE UsbHeapProofs ----------------------------
(***************************************************************************)
(* Theorems about the USB heap, for tables and heaps of any size: callers  *)
(* never share a byte, and the table is sound.                             *)
(*                                                                         *)
(* The code walks linked lists; HeapInv says what it walks on.  There are  *)
(* a sequence s of entries that the list in use runs through (UsedList),   *)
(* for each a place o that does not wrap where the address does (InOrder), *)
(* the sums q of the lengths so far (Summed), a sequence r of the entries  *)
(* given back, which ends where the table was never used (GivenBack), and  *)
(* for each holder an entry of its own (Owned), which a free may exchange  *)
(* for another: it takes the first at the address, whoever it was made     *)
(* for.                                                                    *)
(*                                                                         *)
(* The heap's end does not stop an allocation behind the last one (usb-    *)
(* mem.c:93), so addresses walk on and wrap around.  What keeps the last   *)
(* from running into the first is that gaps are smaller than what did not  *)
(* fit in them: all in use lie within NumEntries * HeapSize addresses.     *)
(***************************************************************************)
EXTENDS UsbHeap, FiniteSetTheorems, SequenceTheorems, TLAPS

Taken(n, s) == {s[i] : i \in 1 .. n}

UsedList(n, s) ==
  /\ n \in Nat /\ s \in [1 .. n -> Entries]
  /\ \A i, j \in 1 .. n : s[i] = s[j] => i = j
  /\ firstAllocation = IF n = 0 THEN End ELSE s[1]
  /\ \A i \in 1 .. n : entry[s[i]].next = IF i = n THEN End ELSE s[i + 1]

InOrder(n, s, o) ==
  /\ o \in [1 .. n -> Nat]
  /\ \A i \in 1 .. n : entry[s[i]].address = o[i] % W
  /\ \A i, j \in 1 .. n : i < j => o[i] + entry[s[i]].length <= o[j]
  /\ \A i, j \in 1 .. n : o[j] + entry[s[j]].length <= o[i] + NumEntries * HeapSize

Summed(n, s, q) ==
  /\ q \in [0 .. n -> Nat] /\ q[0] = 0
  /\ \A i \in 1 .. n : q[i] = q[i - 1] + entry[s[i]].length
  /\ allocated = q[n] /\ allocated <= HeapSize

GivenBack(n, s, m, r) ==
  /\ m \in Nat /\ r \in [0 .. m -> Entries \cup {End}]
  /\ r[0] = Fresh /\ (firstFree = Null => m = 0)
  /\ \A i \in 0 .. m - 1 : r[i] < r[m] /\ r[i] \notin Taken(n, s) /\ entry[r[i]].next = r[i + 1]
  /\ \A i, j \in 0 .. m - 1 : r[i] = r[j] => i = j
  /\ \A e \in Entries : e >= r[m] => entry[e].next = Null /\ e \notin Taken(n, s)
  /\ \A e \in Entries : e < r[m] => e \in Taken(n, s) \/ \E i \in 0 .. m - 1 : r[i] = e

Owned(n, s, M) ==
  /\ M \in [held -> Taken(n, s)]
  /\ \A h, k \in held : M[h] = M[k] => h = k
  /\ \A e \in Taken(n, s) : \E h \in held : M[h] = e
  /\ \A h \in held : entry[M[h]].address = h.address /\ h.size <= entry[M[h]].length

Types ==
  /\ entry \in [Entries -> [length : 0 .. HeapSize, address : Addr, next : Links]]
  /\ firstFree \in Links
  /\ held \subseteq [address : Addr, size : Requests, copy : 1 .. NumEntries]

Described(n, s) ==
  /\ UsedList(n, s)
  /\ \E o \in [1 .. n -> Nat] : InOrder(n, s, o)
  /\ \E q \in [0 .. n -> Nat] : Summed(n, s, q)
  /\ \E m \in Nat : \E r \in [0 .. m -> Entries \cup {End}] : GivenBack(n, s, m, r)
  /\ \E M \in [held -> Taken(n, s)] : Owned(n, s, M)

HeapInv == Types /\ \E n \in Nat : \E s \in [1 .. n -> Entries] : Described(n, s)

-----------------------------------------------------------------------------
(* Numbers.                                                                *)
(* A set of naturals has a least element.                                  *)
LEMMA LeastNatural ==
  ASSUME NEW S \in SUBSET Nat, S # {}
  PROVE  \E m \in S : \A n \in S : m <= n
<1>1. PICK m \in S : \A n \in S : ~(<<n, m>> \in OpToRel(<, Nat))
  BY NatLessThanWellFounded, WFMin
<1>2. \A n \in S : ~(n < m)
  BY <1>1 DEF OpToRel
<1> QED
  BY <1>2

LEMMA Multiples ==
  ASSUME NEW c \in Nat
  PROVE  /\ \A k \in Int : k >= 1 => k * c >= c
         /\ \A k \in Int : k <= -1 => k * c <= -c
         /\ \A j, k \in Nat : j <= k => j * c <= k * c
         /\ \A k \in Int : (k + 1) * c = k * c + c
OBVIOUS

(* uint32_t.                                                               *)
LEMMA Remainder ==
  ASSUME NEW q \in Int, NEW b \in 0 .. W - 1, NEW x \in Int, x = q * W + b
  PROVE  x % W = b
<1>0. W \in Nat \ {0}
  BY UsbHeapAssumption
<1> DEFINE p == x \div W
           c == x % W
<1>1. x = p * W + c /\ p \in Int /\ c \in 0 .. W - 1
  BY <1>0
<1> HIDE DEF p, c
<1>2. (q - p) * W = c - b
  BY <1>0, <1>1
<1>3. q = p
  <2>1. CASE q - p >= 1
    BY <1>0, <1>1, <1>2, <2>1, Multiples
  <2>2. CASE q - p <= -1
    BY <1>0, <1>1, <1>2, <2>2, Multiples
  <2> QED
    BY <1>1, <2>1, <2>2
<1> QED
  BY <1>0, <1>1, <1>3 DEF c

LEMMA Wrapped ==
  ASSUME NEW z \in 0 .. W - 1
  PROVE  z % W = z /\ (z + W) % W = z /\ (z - W) % W = z
<1>1. W \in Nat \ {0}
  BY UsbHeapAssumption
<1>2. z = 0 * W + z /\ z + W = 1 * W + z /\ z - W = (-1) * W + z
  BY <1>1
<1> QED
  BY <1>1, <1>2, Remainder

LEMMA ModType ==
  ASSUME NEW x \in Int
  PROVE  x % W \in 0 .. W - 1 /\ x % W \in Addr
<1>1. W \in Nat \ {0}
  BY UsbHeapAssumption
<1> QED
  BY <1>1 DEF Addr

(* An address that is less than W further on.                              *)
LEMMA FurtherOn ==
  ASSUME NEW x \in Nat, NEW d \in 0 .. W - 1
  PROVE  /\ (x + d) % W = ((x % W) + d) % W
         /\ (x + d) % W = (x % W) + d \/ (x + d) % W = (x % W) + d - W
<1>0. W \in Nat \ {0}
  BY UsbHeapAssumption
<1> DEFINE p == x \div W
           a == x % W
<1>1. x = p * W + a /\ p \in Int /\ a \in 0 .. W - 1
  BY <1>0
<1> HIDE DEF p, a
<1>2. CASE a + d < W
  <2>1. x + d = p * W + (a + d) /\ a + d \in 0 .. W - 1
    BY <1>0, <1>1, <1>2
  <2>2. (x + d) % W = a + d /\ (a + d) % W = a + d
    BY <1>1, <2>1, Remainder, Wrapped
  <2> QED
    BY <2>2 DEF a
<1>3. CASE a + d >= W
  <2> DEFINE z == a + d - W
  <2>1. x + d = (p + 1) * W + z /\ z \in 0 .. W - 1 /\ a + d = z + W
    BY <1>0, <1>1, <1>3, Multiples
  <2> HIDE DEF z
  <2>2. (x + d) % W = z /\ (z + W) % W = z
    BY <1>1, <2>1, Remainder, Wrapped
  <2> QED
    BY <2>1, <2>2, <1>0, <1>1 DEF a
<1> QED
  BY <1>0, <1>1, <1>2, <1>3

-----------------------------------------------------------------------------
(* Lists.                                                                  *)
LEMMA ListFits ==
  ASSUME NEW n \in Nat, NEW s \in [1 .. n -> Entries], \A i, j \in 1 .. n : s[i] = s[j] => i = j
  PROVE  n <= NumEntries
<1>1. NumEntries \in Nat
  BY UsbHeapAssumption
<1>2. s \in Injection(1 .. n, Entries)
  BY DEF Injection, IsInjective
<1>3. IsFiniteSet(Entries) /\ Cardinality(Entries) = NumEntries /\ Cardinality(1 .. n) = n
  BY <1>1, FS_Interval DEF Entries
<1> QED
  BY <1>2, <1>3, FS_Injection

LEMMA NoEntry == Null \notin Entries /\ End \notin Entries /\ NumEntries \in Nat \ {0}
BY UsbHeapAssumption DEF Null, End, Entries

(* The walk of the code along a list that s describes meets s.             *)
LEMMA ListFromIs ==
  ASSUME NEW first, NEW n \in 0 .. NumEntries, NEW s \in [1 .. n -> Entries],
         n = 0 => first \notin Entries,
         n > 0 => first = s[1] /\ entry[s[n]].next \notin Entries,
         \A i \in 1 .. n - 1 : entry[s[i]].next = s[i + 1]
  PROVE  ListFrom(first) = s
<1> DEFINE G(f) == [k \in 1 .. NumEntries |->
                      IF k = 1 THEN first
                      ELSE IF f[k-1] \in Entries THEN entry[f[k-1]].next ELSE End]
           g == [k \in 1 .. NumEntries |->
                   IF k <= n THEN s[k]
                   ELSE IF k = 1 THEN first
                   ELSE IF k = n + 1 THEN entry[s[n]].next ELSE End]
<1>0. NumEntries \in Nat \ {0} /\ End \notin Entries
  BY NoEntry
<1>1. \A k \in 1 .. NumEntries : g[k] \in Entries <=> k <= n
  BY <1>0
<1>2. g = G(g)
  <2>1. ASSUME NEW k \in 1 .. NumEntries
        PROVE  g[k] = IF k = 1 THEN first ELSE IF g[k-1] \in Entries THEN entry[g[k-1]].next ELSE End
    <3>1. CASE k = 1
      BY <1>0, <3>1
    <3>2. CASE k # 1 /\ k <= n
      <4>1. k - 1 \in 1 .. n - 1 /\ k - 1 \in 1 .. NumEntries /\ (k - 1) + 1 = k
        BY <1>0, <3>2
      <4>2. g[k-1] = s[k-1] /\ g[k] = s[k] /\ g[k-1] \in Entries
        BY <3>2, <4>1
      <4> QED
        BY <3>2, <4>1, <4>2
    <3>3. CASE k # 1 /\ k = n + 1
      <4>1. k - 1 = n /\ n \in 1 .. n /\ k - 1 \in 1 .. NumEntries
        BY <1>0, <3>3
      <4>2. g[k-1] = s[n] /\ g[k] = entry[s[n]].next /\ g[k-1] \in Entries
        BY <3>3, <4>1
      <4> QED
        BY <3>3, <4>2
    <3>4. CASE k # 1 /\ k > n + 1
      <4>1. k - 1 \in 1 .. NumEntries /\ k - 1 > n /\ ~(k <= n) /\ k # n + 1
        BY <1>0, <3>4
      <4>2. g[k-1] \notin Entries
        BY <1>1, <4>1
      <4>3. g[k] = End
        BY <3>4, <4>1
      <4> QED
        BY <3>4, <4>2, <4>3
    <3> QED
      BY <3>1, <3>2, <3>3, <3>4
  <2> HIDE DEF g
  <2>2. g = [k \in 1 .. NumEntries |-> g[k]]
    BY DEF g
  <2> QED
    BY <2>1, <2>2
<1>3. ASSUME NEW f, f = G(f)
      PROVE  f = g
  <2>1. f = [k \in 1 .. NumEntries |-> f[k]] /\ g = [k \in 1 .. NumEntries |-> g[k]]
    BY <1>3
  <2>2. /\ \A k \in 1 .. NumEntries :
             f[k] = IF k = 1 THEN first ELSE IF f[k-1] \in Entries THEN entry[f[k-1]].next ELSE End
        /\ \A k \in 1 .. NumEntries :
             g[k] = IF k = 1 THEN first ELSE IF g[k-1] \in Entries THEN entry[g[k-1]].next ELSE End
    BY <1>2, <1>3
  <2> DEFINE Differ == {k \in 1 .. NumEntries : f[k] # g[k]}
  <2> HIDE DEF g
  <2>3. ASSUME Differ # {} PROVE FALSE
    <3>0. Differ \in SUBSET Nat
      BY <1>0
    <3>1. PICK k \in Differ : \A j \in Differ : k <= j
      BY <2>3, <3>0, LeastNatural
    <3>2. k \in 1 .. NumEntries /\ f[k] # g[k] /\ k # 1
      BY <2>2, <3>1
    <3>3. k - 1 \in 1 .. NumEntries /\ f[k-1] = g[k-1]
      BY <1>0, <3>1, <3>2
    <3> QED
      BY <2>2, <3>2, <3>3
  <2>4. \A k \in 1 .. NumEntries : f[k] = g[k]
    BY <2>3
  <2> QED
    BY <2>1, <2>4
<1> DEFINE met == {k \in 1 .. NumEntries : g[k] \in Entries}
<1>4. ListFrom(first) = [k \in 1 .. Cardinality(met) |-> g[k]]
  <2> DEFINE node == CHOOSE f : f = G(f)
  <2>1. node = g
    BY <1>2, <1>3
  <2>2. ListFrom(first) = [k \in 1 .. Cardinality({k \in 1 .. NumEntries : node[k] \in Entries}) |-> node[k]]
    BY DEF ListFrom
  <2> HIDE DEF node, g
  <2> QED
    BY <2>1, <2>2
<1>5. Cardinality(met) = n
  <2>1. met = 1 .. n
    BY <1>0, <1>1
  <2>2. Cardinality(1 .. n) = n
    BY FS_Interval
  <2> HIDE DEF met
  <2> QED
    BY <2>1, <2>2
<1>6. \A k \in 1 .. n : g[k] = s[k]
  BY <1>0
<1> HIDE DEF g, met
<1> QED
  BY <1>4, <1>5, <1>6

LEMMA UsedIs ==
  ASSUME NEW n, NEW s, UsedList(n, s)
  PROVE  /\ Used = s /\ DOMAIN Used = 1 .. n /\ Len(Used) = n
         /\ n \in 0 .. NumEntries /\ (Used = << >> <=> n = 0)
<1>1. n \in Nat /\ s \in [1 .. n -> Entries] /\ n <= NumEntries
  BY ListFits DEF UsedList
<1>2. Used = s
  <2>1. n = 0 => firstAllocation \notin Entries
    BY NoEntry DEF UsedList
  <2>2. n > 0 => firstAllocation = s[1] /\ entry[s[n]].next \notin Entries
    BY NoEntry DEF UsedList
  <2>3. \A i \in 1 .. n - 1 : entry[s[i]].next = s[i + 1]
    BY DEF UsedList
  <2>4. n \in 0 .. NumEntries
    BY <1>1, NoEntry
  <2> QED
    BY <1>1, <2>1, <2>2, <2>3, <2>4, ListFromIs DEF Used
<1>3. s \in Seq(Entries)
  BY <1>1, SeqDef
<1>4. DOMAIN s = 1 .. n /\ Len(s) = n
  BY <1>1, <1>3
<1> QED
  BY <1>1, <1>2, <1>3, <1>4, NoEntry

-----------------------------------------------------------------------------
(* MemoryAllocate.  An entry goes into the list behind the i-th.           *)
With(g, n, i, x) == [j \in 1 .. n + 1 |-> IF j <= i THEN g[j] ELSE IF j = i + 1 THEN x ELSE g[j - 1]]

LEMMA WithIs ==
  ASSUME NEW n \in Nat, NEW i \in 0 .. n, NEW S, NEW g \in [1 .. n -> S], NEW x \in S
  PROVE  /\ With(g, n, i, x) \in [1 .. n + 1 -> S]
         /\ \A j \in 1 .. i : With(g, n, i, x)[j] = g[j]
         /\ With(g, n, i, x)[i + 1] = x
         /\ \A j \in i + 2 .. n + 1 : With(g, n, i, x)[j] = g[j - 1] /\ j - 1 \in i + 1 .. n
BY DEF With

(* What the two ways of MemoryAllocate have in common.                     *)
Inserts(n, s, i, f, size, address) ==
  /\ i \in 0 .. n /\ f \in Entries /\ f \notin Taken(n, s)
  /\ entry'[f].length = size /\ entry'[f].address = address
  /\ entry'[f].next = IF i = n THEN End ELSE s[i + 1]
  /\ i # 0 => entry'[s[i]].next = f
  /\ \A e \in Entries \ {f} : entry'[e].length = entry[e].length /\ entry'[e].address = entry[e].address
  /\ \A e \in Entries \ {f} : i = 0 \/ e # s[i] => entry'[e].next = entry[e].next
  /\ firstAllocation' = IF i = 0 THEN f ELSE firstAllocation

LEMMA ListInserted ==
  ASSUME NEW n, NEW s, UsedList(n, s), NEW i, NEW f, NEW size, NEW address, Inserts(n, s, i, f, size, address)
  PROVE  UsedList(n + 1, With(s, n, i, f))' /\ Taken(n + 1, With(s, n, i, f)) = Taken(n, s) \cup {f}
<1> DEFINE t == With(s, n, i, f)
<1>1. /\ n \in Nat /\ s \in [1 .. n -> Entries] /\ i \in 0 .. n /\ f \in Entries
      /\ \A j \in 1 .. n : s[j] # f /\ s[j] \in Entries
  BY DEF UsedList, Inserts, Taken
<1>2. /\ t \in [1 .. n + 1 -> Entries]
      /\ \A j \in 1 .. i : t[j] = s[j]
      /\ t[i + 1] = f
      /\ \A j \in i + 2 .. n + 1 : t[j] = s[j - 1] /\ j - 1 \in i + 1 .. n
  BY <1>1, WithIs
<1> HIDE DEF t
<1>3. \A j \in 1 .. n + 1 : j \in 1 .. i \/ j = i + 1 \/ j \in i + 2 .. n + 1
  BY <1>1
<1>4. ASSUME NEW j \in 1 .. n + 1, NEW k \in 1 .. n + 1, t[j] = t[k]
      PROVE  j = k
  <2>1. \A h \in 1 .. n + 1 : t[h] = f => h = i + 1
    BY <1>1, <1>2, <1>3
  <2>2. \A g, h \in 1 .. n : s[g] = s[h] => g = h
    BY DEF UsedList
  <2>3. CASE j = i + 1 \/ k = i + 1
    BY <1>2, <1>4, <2>1, <2>3
  <2>4. CASE j \in 1 .. i /\ k \in 1 .. i
    BY <1>1, <1>2, <1>4, <2>2, <2>4
  <2>5. CASE j \in i + 2 .. n + 1 /\ k \in i + 2 .. n + 1
    <3>1. j - 1 = k - 1
      BY <1>1, <1>2, <1>4, <2>2, <2>5
    <3> QED
      BY <3>1
  <2>6. CASE j \in 1 .. i /\ k \in i + 2 .. n + 1
    <3>1. j = k - 1
      BY <1>1, <1>2, <1>4, <2>2, <2>6
    <3> QED
      BY <1>1, <2>6, <3>1
  <2>7. CASE k \in 1 .. i /\ j \in i + 2 .. n + 1
    <3>1. k = j - 1
      BY <1>1, <1>2, <1>4, <2>2, <2>7
    <3> QED
      BY <1>1, <2>7, <3>1
  <2> QED
    BY <1>3, <2>3, <2>4, <2>5, <2>6, <2>7
<1>5. firstAllocation' = t[1]
  <2>1. CASE i = 0
    BY <1>2, <2>1 DEF Inserts
  <2>2. CASE i # 0
    <3>1. t[1] = s[1] /\ n # 0
      BY <1>1, <1>2, <2>2
    <3> QED
      BY <2>2, <3>1 DEF Inserts, UsedList
  <2> QED
    BY <2>1, <2>2
<1>6. ASSUME NEW j \in 1 .. n + 1
      PROVE  entry'[t[j]].next = IF j = n + 1 THEN End ELSE t[j + 1]
  <2>1. \A k \in 1 .. n : entry[s[k]].next = IF k = n THEN End ELSE s[k + 1]
    BY DEF UsedList
  <2>2. CASE j \in 1 .. i /\ j # i
    <3>1. t[j] = s[j] /\ t[j + 1] = s[j + 1] /\ s[j] # s[i] /\ j \in 1 .. n /\ i \in 1 .. n /\ j # n /\ j # n + 1
      BY <1>1, <1>2, <2>2 DEF UsedList
    <3>2. entry'[s[j]].next = entry[s[j]].next
      BY <1>1, <3>1 DEF Inserts
    <3> QED
      BY <2>1, <3>1, <3>2
  <2>3. CASE j \in 1 .. i /\ j = i
    <3>1. t[j] = s[i] /\ t[j + 1] = f /\ i # 0 /\ j # n + 1
      BY <1>1, <1>2, <2>3
    <3> QED
      BY <3>1 DEF Inserts
  <2>4. CASE j = i + 1
    <3>1. CASE i = n
      BY <1>2, <2>4, <3>1 DEF Inserts
    <3>2. CASE i # n
      <4>1. j + 1 \in i + 2 .. n + 1 /\ (j + 1) - 1 = i + 1 /\ j # n + 1
        BY <1>1, <2>4, <3>2
      <4>2. t[j + 1] = s[i + 1]
        BY <1>2, <4>1
      <4> QED
        BY <1>2, <2>4, <3>2, <4>1, <4>2 DEF Inserts
    <3> QED
      BY <3>1, <3>2
  <2>5. CASE j \in i + 2 .. n + 1
    <3>1. t[j] = s[j - 1] /\ j - 1 \in i + 1 .. n /\ j - 1 \in 1 .. n /\ (i \in 1 .. n \/ i = 0)
      BY <1>1, <1>2, <2>5
    <3>2. i = 0 \/ s[j - 1] # s[i]
      BY <1>1, <3>1 DEF UsedList
    <3>3. entry'[s[j - 1]].next = entry[s[j - 1]].next
      BY <1>1, <3>1, <3>2 DEF Inserts
    <3>4. CASE j = n + 1
      BY <1>1, <2>1, <3>1, <3>3, <3>4
    <3>5. CASE j # n + 1
      <4>1. j + 1 \in i + 2 .. n + 1 /\ (j + 1) - 1 = j /\ (j - 1) + 1 = j /\ j - 1 # n
        BY <1>1, <2>5, <3>5
      <4>2. t[j + 1] = s[j]
        BY <1>2, <4>1
      <4> QED
        BY <2>1, <3>1, <3>3, <3>5, <4>1, <4>2
    <3> QED
      BY <3>4, <3>5
  <2> QED
    BY <1>3, <2>2, <2>3, <2>4, <2>5
<1>7. UsedList(n + 1, t)'
  <2>1. n + 1 \in Nat /\ n + 1 # 0
    BY <1>1
  <2> HIDE DEF Entries
  <2>2. t \in [1 .. n + 1 -> Entries'] /\ Entries' = Entries /\ End' = End
    BY <1>2 DEF Entries, End
  <2> QED
    BY <1>4, <1>5, <1>6, <2>1, <2>2 DEF UsedList
<1>8. Taken(n + 1, t) = Taken(n, s) \cup {f}
  <2>1. ASSUME NEW e \in Taken(n + 1, t) PROVE e \in Taken(n, s) \cup {f}
    <3>1. PICK j \in 1 .. n + 1 : t[j] = e
      BY DEF Taken
    <3> QED
      BY <1>1, <1>2, <1>3, <3>1 DEF Taken
  <2>2. ASSUME NEW e \in Taken(n, s) \cup {f} PROVE e \in Taken(n + 1, t)
    <3>1. CASE e = f
      BY <1>1, <1>2, <3>1 DEF Taken
    <3>2. CASE e \in Taken(n, s)
      <4>1. PICK j \in 1 .. n : s[j] = e
        BY <3>2 DEF Taken
      <4>2. CASE j <= i
        BY <1>1, <1>2, <4>1, <4>2 DEF Taken
      <4>3. CASE j > i
        <5>1. j + 1 \in i + 2 .. n + 1 /\ j + 1 \in 1 .. n + 1 /\ (j + 1) - 1 = j
          BY <1>1, <4>1, <4>3
        <5>2. t[j + 1] = e
          BY <1>2, <4>1, <5>1
        <5> QED
          BY <5>1, <5>2 DEF Taken
      <4> QED
        BY <1>1, <4>2, <4>3
    <3> QED
      BY <2>2, <3>1, <3>2
  <2> QED
    BY <2>1, <2>2
<1> QED
  BY <1>7, <1>8 DEF t


(* ... and takes its place among the addresses.                            *)
LEMMA OrderInserted ==
  ASSUME NEW n, NEW s, UsedList(n, s), NEW o, InOrder(n, s, o), Types,
         NEW i, NEW f, NEW size \in 0 .. HeapSize, NEW x \in Nat, Inserts(n, s, i, f, size, x % W),
         \A j \in 1 .. i : o[j] + entry[s[j]].length <= x,
         \A j \in i + 1 .. n : x + size <= o[j],
         \A j \in 1 .. n : x + size <= o[j] + NumEntries * HeapSize
                           /\ o[j] + entry[s[j]].length <= x + NumEntries * HeapSize
  PROVE  InOrder(n + 1, With(s, n, i, f), With(o, n, i, x))'
<1> DEFINE t == With(s, n, i, f)
           p == With(o, n, i, x)
           H == NumEntries * HeapSize
<1>1. /\ n \in Nat /\ s \in [1 .. n -> Entries] /\ i \in 0 .. n /\ f \in Entries
      /\ o \in [1 .. n -> Nat]
      /\ \A j \in 1 .. n : s[j] # f /\ s[j] \in Entries
  BY DEF UsedList, Inserts, Taken, InOrder
<1>2. /\ t \in [1 .. n + 1 -> Entries]
      /\ \A j \in 1 .. i : t[j] = s[j]
      /\ t[i + 1] = f
      /\ \A j \in i + 2 .. n + 1 : t[j] = s[j - 1] /\ j - 1 \in i + 1 .. n
  <2>1. n \in Nat /\ i \in 0 .. n /\ s \in [1 .. n -> Entries] /\ f \in Entries
    BY <1>1
  <2> HIDE DEF Entries
  <2> QED
    BY <2>1, WithIs
<1>3. /\ p \in [1 .. n + 1 -> Nat]
      /\ \A j \in 1 .. i : p[j] = o[j]
      /\ p[i + 1] = x
      /\ \A j \in i + 2 .. n + 1 : p[j] = o[j - 1] /\ j - 1 \in i + 1 .. n
  <2>1. n \in Nat /\ i \in 0 .. n /\ o \in [1 .. n -> Nat] /\ x \in Nat
    BY <1>1
  <2> QED
    BY <2>1, WithIs
<1>4. H \in Nat /\ size <= H
  BY UsbHeapAssumption, Multiples
<1> HIDE DEF t, p, H
<1>5. \A j \in 1 .. n + 1 : j \in 1 .. i \/ j = i + 1 \/ j \in i + 2 .. n + 1
  BY <1>1
<1>6. /\ \A j \in 1 .. n : entry'[s[j]].length = entry[s[j]].length
                           /\ entry'[s[j]].address = entry[s[j]].address
                           /\ entry[s[j]].length \in Nat
      /\ entry'[f].length = size /\ entry'[f].address = x % W
  BY <1>1 DEF Inserts, Types
<1>7. \A j \in 1 .. n : entry[s[j]].address = o[j] % W
  BY DEF InOrder
<1>8. \A j, k \in 1 .. n : j < k => o[j] + entry[s[j]].length <= o[k]
  BY DEF InOrder
<1>9. \A j, k \in 1 .. n : o[k] + entry[s[k]].length <= o[j] + H
  BY DEF InOrder, H
<1>10. \A j \in 1 .. n : x + size <= o[j] + H /\ o[j] + entry[s[j]].length <= x + H
  BY DEF H
(* The places of the list in use, before and after.                        *)
<1>11. ASSUME NEW j \in 1 .. n + 1, j # i + 1
       PROVE  \E k \in 1 .. n : /\ t[j] = s[k] /\ p[j] = o[k] /\ k = IF j <= i THEN j ELSE j - 1
  <2>1. CASE j \in 1 .. i
    <3>1. j \in 1 .. n /\ j <= i /\ t[j] = s[j] /\ p[j] = o[j]
      BY <1>1, <1>2, <1>3, <2>1
    <3> QED
      BY <3>1
  <2>2. CASE j \in i + 2 .. n + 1
    <3>1. j - 1 \in 1 .. n /\ j - 1 \in i + 1 .. n /\ ~(j <= i)
      BY <1>1, <2>2
    <3>2. t[j] = s[j - 1] /\ p[j] = o[j - 1] /\ j > i
      BY <1>1, <1>2, <1>3, <2>2
    <3> QED
      BY <3>1, <3>2
  <2> QED
    BY <1>5, <1>11, <2>1, <2>2
<1>12. \A j \in 1 .. n + 1 : entry'[t[j]].address = p[j] % W
  <2> TAKE j \in 1 .. n + 1
  <2>1. CASE j = i + 1
    BY <1>2, <1>3, <1>6, <2>1
  <2>2. CASE j # i + 1
    <3>1. PICK k \in 1 .. n : t[j] = s[k] /\ p[j] = o[k]
      BY <1>11, <2>2
    <3> QED
      BY <1>6, <1>7, <3>1
  <2> QED
    BY <2>1, <2>2
<1>13. ASSUME NEW j \in 1 .. n + 1, NEW k \in 1 .. n + 1, j < k
       PROVE  p[j] + entry'[t[j]].length <= p[k]
  <2>1. CASE j # i + 1 /\ k # i + 1
    <3>1. PICK a \in 1 .. n : t[j] = s[a] /\ p[j] = o[a] /\ a = IF j <= i THEN j ELSE j - 1
      BY <1>11, <2>1
    <3>2. PICK b \in 1 .. n : t[k] = s[b] /\ p[k] = o[b] /\ b = IF k <= i THEN k ELSE k - 1
      BY <1>11, <2>1
    <3>3. a < b
      BY <1>1, <1>13, <2>1, <3>1, <3>2
    <3>4. o[a] + entry[s[a]].length <= o[b]
      BY <1>8, <3>3
    <3>5. entry'[t[j]].length = entry[s[a]].length
      BY <1>6, <3>1
    <3>6. p[j] = o[a] /\ p[k] = o[b]
      BY <3>1, <3>2
    <3>7. o[a] + entry'[t[j]].length <= o[b]
      BY <3>4, <3>5
    <3> QED
      BY <3>6, <3>7
  <2>2. CASE j = i + 1
    <3>0. k \in i + 2 .. n + 1
      BY <1>1, <1>13, <2>2
    <3>1. PICK b \in i + 1 .. n : p[k] = o[b]
      BY <1>3, <3>0
    <3> QED
      BY <1>2, <1>3, <1>6, <2>2, <3>1
  <2>3. CASE k = i + 1
    <3>1. j \in 1 .. i /\ j \in 1 .. n
      BY <1>1, <1>13, <2>3
    <3> QED
      BY <1>2, <1>3, <1>6, <2>3, <3>1
  <2> QED
    BY <2>1, <2>2, <2>3
<1>14. ASSUME NEW j \in 1 .. n + 1, NEW k \in 1 .. n + 1
       PROVE  p[k] + entry'[t[k]].length <= p[j] + H
  <2>1. CASE j # i + 1 /\ k # i + 1
    <3>1. PICK a \in 1 .. n : p[j] = o[a]
      BY <1>11, <2>1
    <3>2. PICK b \in 1 .. n : t[k] = s[b] /\ p[k] = o[b]
      BY <1>11, <2>1
    <3> QED
      BY <1>6, <1>9, <3>1, <3>2
  <2>2. CASE j = i + 1 /\ k # i + 1
    <3>1. PICK b \in 1 .. n : t[k] = s[b] /\ p[k] = o[b]
      BY <1>11, <2>2
    <3> QED
      BY <1>3, <1>6, <1>10, <2>2, <3>1
  <2>3. CASE j # i + 1 /\ k = i + 1
    <3>1. PICK a \in 1 .. n : p[j] = o[a]
      BY <1>11, <2>3
    <3> QED
      BY <1>2, <1>3, <1>6, <1>10, <2>3, <3>1
  <2>4. CASE j = i + 1 /\ k = i + 1
    BY <1>2, <1>3, <1>4, <1>6, <2>4
  <2> QED
    BY <2>1, <2>2, <2>3, <2>4
<1>15. n + 1 \in Nat /\ p \in [1 .. n + 1 -> Nat]
  BY <1>1, <1>3
<1>16. InOrder(n + 1, t, p)'
  BY <1>12, <1>13, <1>14, <1>15 DEF InOrder, H
<1> QED
  BY <1>16 DEF t, p

(* What RoomBehind computes modulo W is the gap to the next.               *)
LEMMA RoomBetween ==
  ASSUME NEW n, NEW s, UsedList(n, s), NEW o, InOrder(n, s, o), Types,
         NEW i \in 1 .. n - 1, NEW size \in 0 .. HeapSize
  PROVE  RoomBehind(i, size) <=> o[i] + entry[s[i]].length + size <= o[i + 1]
<1> DEFINE a == entry[s[i]].address
           b == entry[s[i + 1]].address
           l == entry[s[i]].length
           d == o[i + 1] - o[i]
<1>1. /\ n \in Nat /\ i \in 1 .. n /\ i + 1 \in 1 .. n /\ i < i + 1 /\ i # n
      /\ s[i] \in Entries /\ s[i + 1] \in Entries
  BY DEF UsedList
<1>2. /\ o[i] \in Nat /\ o[i + 1] \in Nat /\ a = o[i] % W /\ b = o[i + 1] % W
      /\ o[i] + l <= o[i + 1] /\ o[i + 1] + entry[s[i + 1]].length <= o[i] + NumEntries * HeapSize
  BY <1>1 DEF InOrder
<1>3. l \in Nat /\ entry[s[i + 1]].length \in Nat /\ a \in 0 .. W - 1 /\ b \in 0 .. W - 1
  BY <1>1 DEF Types, Addr
<1>4. NumEntries * HeapSize \in Nat /\ NumEntries * HeapSize < W /\ W \in Nat \ {0}
  BY UsbHeapAssumption
<1>5. RoomBehind(i, size) <=> (b - a - l) % W >= size
  <2>1. Used = s /\ Len(Used) = n
    BY UsedIs
  <2>2. entry[s[i]].next = s[i + 1]
    BY <1>1 DEF UsedList
  <2> QED
    BY <1>1, <2>1, <2>2 DEF RoomBehind
<1> HIDE DEF a, b, l
<1>6. d \in 0 .. W - 1 /\ o[i + 1] = o[i] + d /\ d - l \in 0 .. W - 1
  BY <1>2, <1>3, <1>4
<1>7. b = a + d \/ b = a + d - W
  BY <1>2, <1>6, FurtherOn
<1>8. (b - a - l) % W = d - l
  <2>1. CASE b = a + d
    <3>1. b - a - l = d - l
      BY <1>2, <1>3, <2>1
    <3> QED
      BY <1>6, <3>1, Wrapped
  <2>2. CASE b = a + d - W
    <3>1. b - a - l = (d - l) - W
      BY <1>2, <1>3, <1>4, <2>2
    <3> QED
      BY <1>6, <3>1, Wrapped
  <2> QED
    BY <1>7, <2>1, <2>2
<1> QED
  BY <1>2, <1>3, <1>5, <1>8 DEF l

LEMMA Products ==
  ASSUME NEW k \in Nat, NEW c \in Nat, NEW d \in Nat, c <= d
  PROVE  k * c \in Nat /\ k * c <= k * d
<1>1. k * (d - c) >= 0 /\ k * d = k * c + k * (d - c) /\ k * c \in Nat
  OBVIOUS
<1> QED
  BY <1>1

(* Behind the last there is room, whatever the code computes for it, when  *)
(* no gap before it has room.                                              *)
LEMMA RoomAtEnd ==
  ASSUME NEW n, NEW s, UsedList(n, s), NEW o, InOrder(n, s, o), NEW q, Summed(n, s, q), Types,
         NEW size \in 0 .. HeapSize, allocated + size <= HeapSize, n # 0,
         \A i \in 1 .. n - 1 : ~RoomBehind(i, size)
  PROVE  o[n] + entry[s[n]].length + size <= o[1] + NumEntries * HeapSize
<1>0. /\ NumEntries \in Nat \ {0} /\ HeapSize \in Nat /\ n \in Nat /\ n \in 1 .. n /\ 1 \in 1 .. n
      /\ n <= NumEntries /\ size \in Nat /\ allocated \in Nat
      /\ q \in [0 .. n -> Nat] /\ q[0] = 0 /\ q[n] = allocated
  <2>1. NumEntries \in Nat \ {0} /\ HeapSize \in Nat
    BY UsbHeapAssumption
  <2>2. n \in 0 .. NumEntries
    BY UsedIs
  <2>3. q \in [0 .. n -> Nat] /\ q[0] = 0 /\ q[n] = allocated
    BY DEF Summed
  <2>4. n \in 1 .. n /\ 1 \in 1 .. n /\ n \in 0 .. n
    BY <2>1, <2>2
  <2> QED
    BY <2>1, <2>2, <2>3, <2>4
<1>1. \A i \in 1 .. n : o[i] \in Nat /\ entry[s[i]].length \in Nat /\ q[i] = q[i-1] + entry[s[i]].length
  <2> TAKE i \in 1 .. n
  <2>1. s[i] \in Entries
    BY DEF UsedList
  <2> QED
    BY <2>1 DEF InOrder, Types, Summed
<1>2. \A i \in 1 .. n - 1 : o[i + 1] < o[i] + entry[s[i]].length + size
  <2> TAKE i \in 1 .. n - 1
  <2>1. i \in 1 .. n /\ i + 1 \in 1 .. n
    BY <1>0
  <2>2. ~(o[i] + entry[s[i]].length + size <= o[i + 1])
    BY RoomBetween
  <2>3. o[i] \in Nat /\ o[i + 1] \in Nat /\ entry[s[i]].length \in Nat
    BY <1>1, <2>1
  <2> QED
    BY <1>0, <2>2, <2>3
<1> DEFINE Far == {i \in 1 .. n : ~(o[i] <= o[1] + q[i - 1] + (i - 1) * size)}
<1>3. ASSUME Far # {} PROVE FALSE
  <2>0. Far \in SUBSET Nat
    BY <1>0
  <2>1. PICK i \in Far : \A j \in Far : i <= j
    BY <1>3, <2>0, LeastNatural
  <2>2. i \in 1 .. n /\ ~(o[i] <= o[1] + q[i - 1] + (i - 1) * size)
    BY <2>1
  <2>3. i # 1
    BY <1>0, <1>1, <2>2
  <2> DEFINE j == i - 1
  <2>4. /\ j \in 1 .. n - 1 /\ j \in 1 .. n /\ j \in Nat /\ j - 1 \in 0 .. n /\ i = j + 1 /\ ~(i <= j)
    BY <1>0, <2>2, <2>3
  <2> HIDE DEF j
  <2>5. o[j] <= o[1] + q[j - 1] + (j - 1) * size
    BY <2>1, <2>4
  <2>6. o[i] < o[j] + entry[s[j]].length + size /\ q[j] = q[j - 1] + entry[s[j]].length
    BY <1>1, <1>2, <2>4
  <2> DEFINE u == (j - 1) * size
             v == (i - 1) * size
  <2>7. v = u + size /\ u \in Int
    BY <1>0, <2>4
  <2>8. q[j] \in Nat /\ q[j - 1] \in Nat /\ o[i] \in Nat /\ o[j] \in Nat /\ o[1] \in Nat /\ q[i - 1] = q[j]
    BY <1>0, <1>1, <2>2, <2>4
  <2>9. entry[s[j]].length \in Nat
    BY <1>1, <2>4
  <2>a. o[j] <= o[1] + q[j - 1] + u
    BY <2>5
  <2>b. size \in Nat
    OBVIOUS
  <2> HIDE DEF u, v
  <2>10. o[i] <= o[1] + q[i - 1] + v
    BY <2>a, <2>b, <2>6, <2>7, <2>8, <2>9
  <2> QED
    BY <2>2, <2>10 DEF v
<1>4. o[n] <= o[1] + q[n - 1] + (n - 1) * size
  BY <1>0, <1>3
<1> DEFINE u == (n - 1) * size
           v == (n - 1) * HeapSize
           H == NumEntries * HeapSize
<1>5. (n - 1) * size <= (n - 1) * HeapSize /\ (n - 1) * size \in Nat
  BY <1>0, Products
<1>6. n * HeapSize <= NumEntries * HeapSize /\ n * HeapSize = (n - 1) * HeapSize + HeapSize
  BY <1>0, Multiples
<1>7. o[n] \in Nat /\ o[1] \in Nat /\ q[n - 1] \in Nat /\ q[n] = q[n - 1] + entry[s[n]].length
      /\ entry[s[n]].length \in Nat
  BY <1>0, <1>1
<1>8. o[n] <= o[1] + q[n - 1] + u /\ u <= v /\ u \in Nat /\ v \in Nat
  BY <1>0, <1>4, <1>5
<1>9. v + HeapSize <= H /\ H \in Nat
  BY <1>0, <1>6
<1>10. size \in Nat /\ allocated \in Nat /\ q[n] = allocated /\ HeapSize \in Nat
  BY <1>0
<1> HIDE DEF u, v, H
<1>11. o[n] + entry[s[n]].length + size <= o[1] + H
  BY <1>7, <1>8, <1>9, <1>10
<1> QED
  BY <1>11 DEF H

(* The count.                                                              *)
LEMMA SumInserted ==
  ASSUME NEW n, NEW s, UsedList(n, s), NEW q, Summed(n, s, q), Types,
         NEW i, NEW f, NEW size \in 0 .. HeapSize, NEW address, Inserts(n, s, i, f, size, address),
         allocated' = allocated + size, allocated + size <= HeapSize
  PROVE  \E p \in [0 .. n + 1 -> Nat] : Summed(n + 1, With(s, n, i, f), p)'
<1> DEFINE t == With(s, n, i, f)
           p == [j \in 0 .. n + 1 |-> IF j <= i THEN q[j] ELSE q[j - 1] + size]
<1>1. /\ n \in Nat /\ s \in [1 .. n -> Entries] /\ i \in 0 .. n /\ f \in Entries /\ size \in Nat
      /\ q \in [0 .. n -> Nat] /\ q[0] = 0 /\ q[n] = allocated
      /\ \A j \in 1 .. n : s[j] # f /\ s[j] \in Entries
  <2>1. size \in Nat
    BY UsbHeapAssumption
  <2>2. q \in [0 .. n -> Nat] /\ q[0] = 0 /\ q[n] = allocated
    BY DEF Summed
  <2>3. n \in Nat /\ s \in [1 .. n -> Entries] /\ i \in 0 .. n /\ f \in Entries
    BY DEF UsedList, Inserts
  <2>4. \A j \in 1 .. n : s[j] # f /\ s[j] \in Entries
    BY <2>3 DEF Inserts, Taken
  <2> QED
    BY <2>1, <2>2, <2>3, <2>4
<1>2. /\ t \in [1 .. n + 1 -> Entries]
      /\ \A j \in 1 .. i : t[j] = s[j]
      /\ t[i + 1] = f
      /\ \A j \in i + 2 .. n + 1 : t[j] = s[j - 1] /\ j - 1 \in i + 1 .. n
  <2> HIDE DEF Entries
  <2> QED
    BY <1>1, WithIs
<1>3. \A j \in 1 .. n : q[j] = q[j - 1] + entry[s[j]].length
  BY DEF Summed
<1>4. /\ \A j \in 1 .. n : entry'[s[j]].length = entry[s[j]].length /\ entry[s[j]].length \in Nat
      /\ entry'[f].length = size
  BY <1>1 DEF Inserts, Types
<1> HIDE DEF t
<1>5. ASSUME NEW j \in 0 .. n + 1
      PROVE  p[j] \in Nat
  <2>1. CASE j <= i
    BY <1>1, <2>1
  <2>2. CASE ~(j <= i)
    <3>1. j - 1 \in 0 .. n
      BY <1>1, <2>2
    <3> QED
      BY <1>1, <2>2, <3>1
  <2> QED
    BY <2>1, <2>2
<1>6. p \in [0 .. n + 1 -> Nat]
  BY <1>5
<1>7. /\ \A j \in 0 .. i : j \in 0 .. n /\ p[j] = q[j]
      /\ \A j \in i + 1 .. n + 1 : j - 1 \in 0 .. n /\ p[j] = q[j - 1] + size
  BY <1>1
<1> HIDE DEF p
<1>8. ASSUME NEW j \in 1 .. n + 1
      PROVE  p[j] = p[j - 1] + entry'[t[j]].length
  <2>1. CASE j \in 1 .. i
    <3>1. j \in 0 .. i /\ j - 1 \in 0 .. i /\ j \in 1 .. n
      BY <1>1, <2>1
    <3>2. p[j] = q[j] /\ p[j - 1] = q[j - 1] /\ t[j] = s[j]
      BY <1>2, <1>7, <2>1, <3>1
    <3> QED
      BY <1>3, <1>4, <3>1, <3>2
  <2>2. CASE j = i + 1
    <3>1. i \in 0 .. i /\ j \in i + 1 .. n + 1 /\ j - 1 = i
      BY <1>1, <2>2
    <3>2. p[j] = q[i] + size /\ p[j - 1] = q[i] /\ t[j] = f
      BY <1>2, <1>7, <2>2, <3>1
    <3> QED
      BY <1>4, <3>2
  <2>3. CASE j \in i + 2 .. n + 1
    <3>1. j \in i + 1 .. n + 1 /\ j - 1 \in i + 1 .. n + 1 /\ j - 1 \in 1 .. n /\ (j - 1) - 1 \in 0 .. n /\ j - 1 \in 0 .. n
      BY <1>1, <2>3
    <3>2. p[j] = q[j - 1] + size /\ p[j - 1] = q[(j - 1) - 1] + size /\ t[j] = s[j - 1]
      BY <1>2, <1>7, <2>3, <3>1
    <3>3. q[j - 1] = q[(j - 1) - 1] + entry[s[j - 1]].length
      BY <1>3, <3>1
    <3>4. q[(j - 1) - 1] \in Nat /\ entry'[s[j - 1]].length = entry[s[j - 1]].length /\ entry[s[j - 1]].length \in Nat
      BY <1>1, <1>4, <3>1
    <3>5. size \in Nat
      BY <1>1
    <3> QED
      BY <3>2, <3>3, <3>4, <3>5
  <2> QED
    BY <1>1, <2>1, <2>2, <2>3
<1>9. p[0] = 0 /\ p[n + 1] = allocated'
  <2>1. 0 \in 0 .. i /\ n + 1 \in i + 1 .. n + 1 /\ (n + 1) - 1 = n
    BY <1>1
  <2>2. p[0] = q[0] /\ p[n + 1] = q[n] + size
    BY <1>7, <2>1
  <2> QED
    BY <1>1, <2>2
<1>10. allocated' <= HeapSize
  OBVIOUS
<1>11. Summed(n + 1, t, p)'
  BY <1>6, <1>8, <1>9, <1>10 DEF Summed
<1> QED
  BY <1>6, <1>11 DEF t

(* The entry comes from those given back, or else is the first one never   *)
(* used.                                                                   *)
LEMMA FreshGoes ==
  ASSUME NEW n, NEW s, NEW m, NEW r, GivenBack(n, s, m, r), NEW T,
         NEW i, NEW size, NEW address, Inserts(n, s, i, Fresh, size, address),
         \A j \in 1 .. n : s[j] \in Entries, i # 0 => s[i] \in Taken(n, s), NEW u, NEW l,
         Taken(u, l) = Taken(n, s) \cup {Fresh},
         firstFree' = AfterFresh
  PROVE  \E k \in Nat : \E p \in [0 .. k -> Entries \cup {End}] : GivenBack(u, l, k, p)'
<1> DEFINE f == Fresh
<1>0. /\ NumEntries \in Nat \ {0} /\ Entries = 1 .. NumEntries /\ End = NumEntries + 1 /\ Null = 0
      /\ f \in Entries /\ f \notin Taken(n, s) /\ r[0] = f
      /\ m \in Nat /\ r \in [0 .. m -> Entries \cup {End}]
  BY UsbHeapAssumption DEF Entries, End, Null, Inserts, GivenBack
<1>1. \A e \in Entries \ {f} : e \notin Taken(n, s) => entry'[e].next = entry[e].next
  BY DEF Inserts
<1>2. /\ \A j \in 0 .. m - 1 : r[j] < r[m] /\ r[j] \notin Taken(n, s) /\ entry[r[j]].next = r[j + 1]
      /\ \A j, k \in 0 .. m - 1 : r[j] = r[k] => j = k
      /\ \A e \in Entries : e >= r[m] => entry[e].next = Null /\ e \notin Taken(n, s)
      /\ \A e \in Entries : e < r[m] => e \in Taken(n, s) \/ \E j \in 0 .. m - 1 : r[j] = e
  BY DEF GivenBack
<1>3. \A j \in 0 .. m : r[j] \in 1 .. NumEntries + 1
  BY <1>0
<1> HIDE DEF f
<1>4. CASE m = 0
  <2> DEFINE k == 0
  <2>0. PICK p : p = [j \in 0 .. k |-> f + 1]
    OBVIOUS
  <2>1. firstFree' = f + 1
    <3>1. entry[f].next = Null
      BY <1>0, <1>2, <1>4
    <3> QED
      BY <1>0, <3>1 DEF AfterFresh, f
  <2>2. p \in [0 .. k -> Entries \cup {End}] /\ p[0] = f + 1 /\ p[k] = f + 1
    BY <1>0, <2>0
  <2>3. Fresh' = f + 1 /\ firstFree' # Null
    BY <1>0, <2>1 DEF Fresh
  <2>4. ASSUME NEW e \in Entries, e >= f + 1
        PROVE  entry'[e].next = Null /\ e \notin Taken(u, l)
    <3>1. e # f /\ e >= r[m]
      BY <1>0, <1>4, <2>4
    <3> QED
      BY <1>1, <1>2, <3>1 DEF f
  <2>5. ASSUME NEW e \in Entries, e < f + 1
        PROVE  e \in Taken(u, l)
    <3>1. e = f \/ e < r[m]
      BY <1>0, <1>4, <2>5
    <3>2. e < r[m] => e \in Taken(n, s)
      BY <1>2, <1>4
    <3> QED
      BY <3>1, <3>2 DEF f
  <2>6. k \in Nat /\ \A j \in 0 .. k - 1 : FALSE
    OBVIOUS
  <2>11. p \in [0 .. k -> Entries \cup {End}]
    BY <2>2
  <2> HIDE DEF k
  <2>7. Entries' = Entries /\ End' = End /\ Null' = Null
    BY DEF Entries, End, Null
  <2>9. \A e \in Entries : (e >= p[k] => entry'[e].next = Null /\ e \notin Taken(u, l))
                            /\ (e < p[k] => e \in Taken(u, l))
    BY <2>2, <2>4, <2>5
  <2>10. p[0] = Fresh'
    BY <2>2, <2>3
  <2>8. GivenBack(u, l, k, p)'
    <3>1. \A e \in Entries' : e >= p[k] => entry'[e].next = Null' /\ e \notin Taken(u, l)
      BY <2>7, <2>9
    <3>2. \A e \in Entries' : e < p[k] => e \in Taken(u, l) \/ \E j \in 0 .. k - 1 : p[j] = e
      BY <2>7, <2>9
    <3>3. p \in [0 .. k -> Entries' \cup {End'}] /\ (firstFree' = Null' => k = 0)
      BY <2>3, <2>7, <2>11
    <3>4. /\ \A j \in 0 .. k - 1 : p[j] < p[k] /\ p[j] \notin Taken(u, l) /\ entry'[p[j]].next = p[j + 1]
          /\ \A j, h \in 0 .. k - 1 : p[j] = p[h] => j = h
      BY <2>6
    <3>5. k \in Nat /\ p[0] = Fresh'
      BY <2>6, <2>10
    <3> QED
      BY <3>1, <3>2, <3>3, <3>4, <3>5 DEF GivenBack, Taken
  <2>12. k \in Nat
    BY <2>6
  <2> QED
    BY <2>8, <2>11, <2>12
<1>5. CASE m # 0
  <2> DEFINE k == m - 1
             p == [j \in 0 .. k |-> r[j + 1]]
  <2>1. k \in Nat /\ 0 \in 0 .. m - 1 /\ k + 1 = m
    BY <1>0, <1>5
  <2>2. \A j \in 0 .. k : j + 1 \in 0 .. m /\ p[j] = r[j + 1]
    BY <1>0, <2>1
  <2>3. p \in [0 .. k -> Entries \cup {End}]
    BY <1>0, <2>1
  <2> HIDE DEF p, k
  <2>4. p[0] = r[1] /\ p[k] = r[m] /\ r[1] \in 1 .. NumEntries + 1
    BY <1>0, <1>3, <2>1, <2>2
  <2>5. firstFree' = p[0] /\ Fresh' = p[0] /\ firstFree' # Null
    <3>1. entry[f].next = r[1]
      BY <1>0, <1>2, <2>1
    <3>2. firstFree' = p[0]
      BY <1>0, <2>4, <3>1 DEF AfterFresh, f
    <3> QED
      BY <1>0, <2>4, <3>2 DEF Fresh
  <2>6. ASSUME NEW j \in 0 .. k - 1
        PROVE  p[j] < p[k] /\ p[j] \notin Taken(u, l) /\ entry'[p[j]].next = p[j + 1]
    <3>1. j + 1 \in 0 .. m - 1 /\ j + 1 # 0 /\ j \in 0 .. k /\ j + 1 \in 0 .. k /\ j + 1 \in 0 .. m
      BY <1>0, <2>1
    <3>2. p[j] = r[j + 1] /\ p[j + 1] = r[(j + 1) + 1]
      BY <2>2, <3>1
    <3>3. p[j] < p[k] /\ p[j] \notin Taken(n, s) /\ entry[p[j]].next = p[j + 1]
      BY <1>2, <2>4, <3>1, <3>2
    <3>4. p[j] # f
      BY <1>0, <1>2, <2>1, <3>1, <3>2
    <3>5. p[j] \in Entries
      BY <1>0, <1>3, <2>4, <3>1, <3>2, <3>3
    <3> QED
      BY <1>1, <3>3, <3>4, <3>5 DEF f
  <2>7. ASSUME NEW j \in 0 .. k - 1, NEW h \in 0 .. k - 1, p[j] = p[h]
        PROVE  j = h
    <3>1. j + 1 \in 0 .. m - 1 /\ h + 1 \in 0 .. m - 1 /\ r[j + 1] = r[h + 1]
      BY <1>0, <2>1, <2>2, <2>7
    <3>2. j + 1 = h + 1
      BY <1>2, <3>1
    <3> QED
      BY <2>1, <3>2
  <2>8. ASSUME NEW e \in Entries, e >= p[k]
        PROVE  entry'[e].next = Null /\ e \notin Taken(u, l)
    <3>1. r[0] < r[m]
      BY <1>2, <2>1
    <3>2. e # f /\ e >= r[m]
      BY <1>0, <1>3, <2>4, <2>8, <3>1
    <3> QED
      BY <1>1, <1>2, <3>2 DEF f
  <2>9. ASSUME NEW e \in Entries, e < p[k]
        PROVE  e \in Taken(u, l) \/ \E j \in 0 .. k - 1 : p[j] = e
    <3>1. CASE e \in Taken(n, s) \/ e = f
      BY <3>1 DEF f
    <3>2. CASE e \notin Taken(n, s) /\ e # f
      <4>1. PICK j \in 0 .. m - 1 : r[j] = e
        BY <1>2, <2>4, <2>9, <3>2
      <4>2. j # 0 /\ j - 1 \in 0 .. k - 1 /\ j - 1 \in 0 .. k /\ (j - 1) + 1 = j
        BY <1>0, <2>1, <3>2, <4>1
      <4>3. p[j - 1] = e
        BY <2>2, <4>1, <4>2
      <4> QED
        BY <4>2, <4>3
    <3> QED
      BY <3>1, <3>2
  <2>10. Entries' = Entries /\ End' = End /\ Null' = Null
    BY DEF Entries, End, Null
  <2> DEFINE K == k
  <2>11. GivenBack(u, l, k, p)'
    BY <2>1, <2>3, <2>5, <2>6, <2>7, <2>8, <2>9, <2>10 DEF GivenBack, Taken
  <2> QED
    BY <2>1, <2>3, <2>11
<1> QED
  BY <1>4, <1>5

(* The caller gets what no other has.                                      *)
LEMMA CopyIsNew ==
  ASSUME NEW n, NEW s, UsedList(n, s), NEW M, Owned(n, s, M), Types,
         NEW f \in Entries, f \notin Taken(n, s), NEW address, NEW size
  PROVE  /\ NewCopy(address, size) \in 1 .. NumEntries
         /\ Block(address, size, NewCopy(address, size)) \notin held
<1> DEFINE New == {c \in 1 .. NumEntries : Block(address, size, c) \notin held}
<1>0. NumEntries \in Nat /\ Taken(n, s) \subseteq Entries \ {f}
  BY NoEntry DEF UsedList, Taken
<1>1. ASSUME New = {} PROVE FALSE
  <2> DEFINE g == [c \in 1 .. NumEntries |-> M[Block(address, size, c)]]
  <2>1. \A c \in 1 .. NumEntries : Block(address, size, c) \in held
    BY <1>1
  <2>2. \A c \in 1 .. NumEntries : g[c] \in Taken(n, s)
    BY <2>1 DEF Owned
  <2>3. ASSUME NEW b \in 1 .. NumEntries, NEW c \in 1 .. NumEntries, g[b] = g[c]
        PROVE  b = c
    <3>1. Block(address, size, b) = Block(address, size, c)
      BY <2>1, <2>3 DEF Owned
    <3> QED
      BY <3>1 DEF Block
  <2>4. g \in [1 .. NumEntries -> Entries \ {f}]
    BY <1>0, <2>2
  <2> HIDE DEF g
  <2>5. g \in Injection(1 .. NumEntries, Entries \ {f})
    BY <2>3, <2>4 DEF Injection, IsInjective
  <2>6. /\ IsFiniteSet(Entries) /\ Cardinality(Entries) = NumEntries
        /\ Cardinality(1 .. NumEntries) = NumEntries
    BY <1>0, FS_Interval DEF Entries
  <2>7. IsFiniteSet(Entries \ {f}) /\ Cardinality(Entries \ {f}) = NumEntries - 1
    BY <2>6, FS_RemoveElement
  <2>8. Cardinality(1 .. NumEntries) <= Cardinality(Entries \ {f})
    BY <2>5, <2>7, FS_Injection
  <2> QED
    BY <1>0, <2>6, <2>7, <2>8
<1>2. New \in SUBSET Nat
  BY <1>0
<1>3. PICK c \in New : \A b \in New : c <= b
  BY <1>1, <1>2, LeastNatural
<1>4. /\ c \in 1 .. NumEntries /\ Block(address, size, c) \notin held
      /\ \A b \in 1 .. c - 1 : Block(address, size, b) \in held
  BY <1>0, <1>3
<1> QED
  BY <1>4 DEF NewCopy

LEMMA OwnerAdded ==
  ASSUME NEW n, NEW s, UsedList(n, s), NEW M, Owned(n, s, M), Types,
         NEW i, NEW f, NEW size \in 0 .. HeapSize, NEW address \in Addr, Inserts(n, s, i, f, size, address),
         NEW u, NEW l, Taken(u, l) = Taken(n, s) \cup {f},
         NEW asked \in Requests, asked <= size, held' = Held(address, asked)
  PROVE  /\ \E N \in [held' -> Taken(u, l)] : Owned(u, l, N)'
         /\ held' \subseteq [address : Addr, size : Requests, copy : 1 .. NumEntries]
<1>0. f \in Entries /\ f \notin Taken(n, s) /\ Taken(n, s) \subseteq Entries
  BY DEF Inserts, UsedList, Taken
<1>1. PICK b : b = Block(address, asked, NewCopy(address, asked))
  OBVIOUS
<1>2. /\ b \notin held /\ b \in [address : Addr, size : Requests, copy : 1 .. NumEntries]
      /\ b.address = address /\ b.size = asked
  BY <1>0, <1>1, CopyIsNew DEF Block
<1>3. held' = held \cup {b}
  BY <1>1 DEF Held
<1>4. PICK N : N = [h \in held' |-> IF h = b THEN f ELSE M[h]]
  OBVIOUS
<1>5. /\ M \in [held -> Taken(n, s)]
      /\ \A h, k \in held : M[h] = M[k] => h = k
      /\ \A e \in Taken(n, s) : \E h \in held : M[h] = e
      /\ \A h \in held : entry[M[h]].address = h.address /\ h.size <= entry[M[h]].length
  BY DEF Owned
<1>6. /\ N[b] = f /\ b \in held'
      /\ \A h \in held : h \in held' /\ N[h] = M[h] /\ N[h] \in Taken(n, s) /\ N[h] # f /\ M[h] \in Entries \ {f}
  BY <1>0, <1>2, <1>3, <1>4, <1>5
<1>7. \A h \in held' : h = b \/ h \in held
  BY <1>3
<1>8. \A h \in held' : N[h] \in Taken(u, l)
  BY <1>6, <1>7
<1>9. N \in [held' -> Taken(u, l)]
  BY <1>4, <1>8
<1>10. \A h, k \in held' : N[h] = N[k] => h = k
  BY <1>5, <1>6, <1>7
<1>11. \A e \in Taken(u, l) : \E h \in held' : N[h] = e
  BY <1>5, <1>6
<1>12. ASSUME NEW h \in held'
       PROVE  entry'[N[h]].address = h.address /\ h.size <= entry'[N[h]].length
  <2>1. CASE h = b
    BY <1>2, <1>6, <2>1 DEF Inserts
  <2>2. CASE h \in held
    <3>1. entry'[M[h]].length = entry[M[h]].length /\ entry'[M[h]].address = entry[M[h]].address
      BY <1>6, <2>2 DEF Inserts
    <3> QED
      BY <1>5, <1>6, <2>2, <3>1
  <2> QED
    BY <1>7, <2>1, <2>2
<1>13. Owned(u, l, N)'
  BY <1>9, <1>10, <1>11, <1>12 DEF Owned, Taken
<1>14. held' \subseteq [address : Addr, size : Requests, copy : 1 .. NumEntries]
  BY <1>2, <1>3 DEF Types
<1> QED
  BY <1>9, <1>13, <1>14

LEMMA InsertKeeps ==
  ASSUME NEW n, NEW s, UsedList(n, s), NEW o, InOrder(n, s, o), NEW q, Summed(n, s, q),
         NEW m, NEW r, GivenBack(n, s, m, r), NEW M, Owned(n, s, M), Types,
         NEW asked \in Requests, NEW size \in 0 .. HeapSize, asked <= size,
         NEW i, NEW x \in Nat, Inserts(n, s, i, Fresh, size, x % W),
         \A j \in 1 .. i : o[j] + entry[s[j]].length <= x,
         \A j \in i + 1 .. n : x + size <= o[j],
         \A j \in 1 .. n : x + size <= o[j] + NumEntries * HeapSize
                           /\ o[j] + entry[s[j]].length <= x + NumEntries * HeapSize,
         entry' \in [Entries -> [length : 0 .. HeapSize, address : Addr, next : Links]],
         firstFree' = AfterFresh, allocated' = allocated + size, allocated + size <= HeapSize,
         held' = Held(x % W, asked)
  PROVE  HeapInv'
<1> DEFINE u == n + 1
<1>0. PICK f : f = Fresh
  OBVIOUS
<1>1. PICK t : t = With(s, n, i, f)
  OBVIOUS
<1>2. Inserts(n, s, i, f, size, x % W)
  BY <1>0
<1>3. UsedList(u, t)' /\ Taken(u, t) = Taken(n, s) \cup {f}
  BY <1>1, <1>2, ListInserted
<1>4. InOrder(u, t, With(o, n, i, x))'
  BY <1>1, <1>2, OrderInserted
<1>5. \E p \in [0 .. u -> Nat] : Summed(u, t, p)'
  BY <1>1, <1>2, SumInserted
<1>6. \A j \in 1 .. n : s[j] \in Entries
  BY DEF UsedList
<1>7. i # 0 => s[i] \in Taken(n, s)
  BY DEF Inserts, Taken, UsedList
<1>8. \E k \in Nat : \E p \in [0 .. k -> Entries \cup {End}] : GivenBack(u, t, k, p)'
  BY <1>0, <1>3, <1>6, <1>7, FreshGoes
<1>9. x % W \in Addr
  BY ModType
<1>10. /\ \E N \in [held' -> Taken(u, t)] : Owned(u, t, N)'
       /\ held' \subseteq [address : Addr, size : Requests, copy : 1 .. NumEntries]
  BY <1>2, <1>3, <1>9, OwnerAdded
<1>11. firstFree' \in Links
  <2>0. f \in Entries
    BY <1>2 DEF Inserts
  <2>1. f + 1 <= NumEntries => f + 1 \in Entries
    BY <2>0, NoEntry DEF Entries
  <2>2. entry[f].next \in Links
    <3> HIDE DEF Entries, Links, Addr
    <3> QED
      BY <2>0 DEF Types
  <2> HIDE DEF Entries, End, Null
  <2>3. firstFree' = entry[f].next \/ (f + 1 <= NumEntries /\ firstFree' = f + 1) \/ firstFree' = End
    BY <1>0 DEF AfterFresh
  <2> QED
    BY <2>1, <2>2, <2>3 DEF Links
<1> HIDE DEF u
<1>12. Entries' = Entries /\ End' = End /\ Links' = Links /\ Addr' = Addr
  BY DEF Entries, End, Null, Links, Addr
<1>13. u \in Nat /\ t \in [1 .. u -> Entries]
  BY <1>3, <1>12 DEF UsedList
<1>14. \E p \in [1 .. u -> Nat] : InOrder(u, t, p)'
  BY <1>4 DEF InOrder
<1>15. Described(u, t)'
  <2> HIDE DEF Entries, End
  <2>1. Taken(u, t)' = Taken(u, t)
    BY DEF Taken
  <2> QED
    BY <1>3, <1>5, <1>8, <1>10, <1>12, <1>14, <2>1 DEF Described
<1>16. Types'
  BY <1>10, <1>11, <1>12 DEF Types
<1> QED
  BY <1>12, <1>13, <1>15, <1>16 DEF HeapInv

-----------------------------------------------------------------------------
(* The actions.                                                            *)
LEMMA Rounding ==
  ASSUME NEW asked \in Nat
  PROVE  RoundUp8(asked) \in Nat /\ asked <= RoundUp8(asked) /\ RoundUp8(asked) <= asked + 7
<1>1. asked % 8 \in 0 .. 7 /\ (8 - (asked % 8)) % 8 \in 0 .. 7
  OBVIOUS
<1> QED
  BY <1>1 DEF RoundUp8

(* The count does not wrap: a request that is not refused fits.            *)
LEMMA SizeFits ==
  ASSUME NEW asked \in Requests, ~OutOfMemory(RoundUp8(asked)), allocated \in 0 .. HeapSize
  PROVE  /\ RoundUp8(asked) \in 0 .. HeapSize /\ asked <= RoundUp8(asked)
         /\ allocated + RoundUp8(asked) <= HeapSize
<1>1. /\ HeapSize \in Nat /\ W \in Nat /\ asked \in 0 .. W - HeapSize - 8 /\ asked \in Nat
  BY UsbHeapAssumption
<1> DEFINE size == RoundUp8(asked)
<1>2. size \in Nat /\ asked <= size /\ size <= asked + 7
  BY <1>1, Rounding
<1>3. ~((allocated + size) % W > HeapSize)
  BY DEF OutOfMemory
<1> HIDE DEF size
<1>4. allocated + size \in 0 .. W - 1 /\ allocated \in Nat
  BY <1>1, <1>2
<1>5. (allocated + size) % W = allocated + size
  BY <1>4, Wrapped
<1> QED
  BY <1>1, <1>2, <1>3, <1>4, <1>5 DEF size

LEMMA FreshIs ==
  ASSUME NEW n, NEW s, NEW m, NEW r, GivenBack(n, s, m, r), Fresh # End
  PROVE  Fresh \in Entries /\ Fresh \notin Taken(n, s)
<1>1. Fresh \in Entries /\ m \in Nat /\ r[0] = Fresh
  <2>1. m \in Nat /\ r \in [0 .. m -> Entries \cup {End}] /\ r[0] = Fresh
    BY DEF GivenBack
  <2> HIDE DEF Entries, End, Fresh
  <2> QED
    BY <2>1
<1>2. CASE m = 0
  <2>1. Fresh >= r[m]
    BY <1>1, <1>2 DEF Entries
  <2> QED
    BY <1>1, <2>1 DEF GivenBack
<1>3. CASE m # 0
  <2>1. 0 \in 0 .. m - 1
    BY <1>1, <1>3
  <2> QED
    BY <1>1, <2>1 DEF GivenBack
<1> QED
  BY <1>2, <1>3

LEMMA Further ==
  /\ \A a, b, c, h \in Int : a <= b + h /\ b <= c => a <= c + h
  /\ \A a, b, c \in Int : a <= b /\ b <= c => a <= c
  /\ \A a, b, c \in Nat : a + b <= c => a <= c
  /\ \A a, b \in Nat : a + b \in Int /\ a \in Int
OBVIOUS

LEMMA AllocateKeeps ==
  ASSUME HeapInv, NEW asked \in Requests, MemoryAllocate(asked)
  PROVE  HeapInv'
<1> DEFINE H == NumEntries * HeapSize
<1>a. PICK n \in Nat : \E s \in [1 .. n -> Entries] : Described(n, s)
  BY DEF HeapInv
<1>1. PICK s \in [1 .. n -> Entries] : Described(n, s)
  BY <1>a
<1>2. /\ UsedList(n, s) /\ Types
      /\ \E o \in [1 .. n -> Nat] : InOrder(n, s, o)
      /\ \E q \in [0 .. n -> Nat] : Summed(n, s, q)
      /\ \E m \in Nat : \E r \in [0 .. m -> Entries \cup {End}] : GivenBack(n, s, m, r)
      /\ \E M \in [held -> Taken(n, s)] : Owned(n, s, M)
  BY <1>1 DEF Described, HeapInv
<1>3. PICK o \in [1 .. n -> Nat] : InOrder(n, s, o)
  BY <1>2
<1>4. PICK q \in [0 .. n -> Nat] : Summed(n, s, q)
  BY <1>2
<1>b. PICK m \in Nat : \E r \in [0 .. m -> Entries \cup {End}] : GivenBack(n, s, m, r)
  BY <1>2
<1>5. PICK r \in [0 .. m -> Entries \cup {End}] : GivenBack(n, s, m, r)
  BY <1>b
<1>6. PICK M \in [held -> Taken(n, s)] : Owned(n, s, M)
  BY <1>2
<1>7. PICK size : size = RoundUp8(asked)
  OBVIOUS
<1>8. /\ ~OutOfMemory(size)
      /\ \/ Used = <<>> /\ InsertFirst(size)
         \/ \E i \in Roomy(size) : (\A j \in Roomy(size) : i <= j) /\ InsertBehind(i, size)
      /\ firstFree' = AfterFresh
      /\ allocated' = allocated + size
      /\ held' = Held(entry'[Fresh].address, asked)
  BY <1>7 DEF MemoryAllocate
<1>9. size \in 0 .. HeapSize /\ asked <= size /\ allocated + size <= HeapSize
  <2>1. q[n] = allocated /\ allocated <= HeapSize /\ n \in 0 .. n
    BY <1>4 DEF Summed
  <2>2. allocated \in 0 .. HeapSize
    BY <1>4, <2>1, UsbHeapAssumption
  <2> QED
    BY <1>7, <1>8, <2>2, SizeFits
<1>10. Fresh \in Entries /\ Fresh \notin Taken(n, s)
  BY <1>5, <1>8, FreshIs DEF OutOfMemory
<1>11. Used = s /\ DOMAIN Used = 1 .. n /\ (Used = << >> <=> n = 0) /\ n \in Nat
  BY <1>2, UsedIs
<1>12. /\ W \in Nat \ {0} /\ HeapBase \in 0 .. W - 1 /\ HeapBase \in Nat /\ HeapSize \in Nat /\ HeapSize < W
       /\ H \in Nat /\ size <= H /\ HeapBase % W = HeapBase
  <2>1. HeapBase \in 0 .. W - 1 /\ W \in Nat \ {0} /\ HeapSize \in Nat /\ HeapSize < W
    BY UsbHeapAssumption DEF HeapEnd
  <2>2. HeapSize <= H /\ H \in Nat
    BY UsbHeapAssumption, Multiples
  <2>3. HeapBase % W = HeapBase
    BY <2>1, Wrapped
  <2>4. HeapBase \in Nat
    BY UsbHeapAssumption
  <2> HIDE DEF H
  <2>5. size <= H
    BY <1>9, <2>1, <2>2
  <2> QED
    BY <2>1, <2>2, <2>3, <2>4, <2>5
<1> HIDE DEF H
<1>16. \A j \in 1 .. n : entry[s[j]].address = o[j] % W
  BY <1>3 DEF InOrder
<1>13. \A j \in 1 .. n : /\ s[j] \in Entries /\ o[j] \in Nat
                         /\ entry[s[j]].length \in 0 .. HeapSize /\ entry[s[j]].length \in Nat
                         /\ s[j] # Fresh
  <2> TAKE j \in 1 .. n
  <2>1. s[j] \in Entries
    OBVIOUS
  <2>2. entry[s[j]].length \in 0 .. HeapSize
    BY <1>2, <2>1 DEF Types
  <2> QED
    BY <1>10, <1>12, <2>1, <2>2 DEF Taken
<1>14. CASE n = 0
  <2>1. InsertFirst(size)
    BY <1>8, <1>11, <1>14 DEF Roomy
  <2>2. /\ entry' = [entry EXCEPT ![Fresh] = [length |-> size, address |-> HeapBase, next |-> End]]
        /\ firstAllocation' = Fresh
    BY <2>1 DEF InsertFirst
  <2>3. DOMAIN entry = Entries /\ entry \in [Entries -> [length : 0 .. HeapSize, address : Addr, next : Links]]
    BY <1>2 DEF Types
  <2>4. entry'[Fresh] = [length |-> size, address |-> HeapBase, next |-> End]
        /\ \A e \in Entries \ {Fresh} : entry'[e] = entry[e]
    BY <1>10, <2>2, <2>3
  <2>5. Inserts(n, s, 0, Fresh, size, HeapBase)
    BY <1>10, <1>14, <2>2, <2>4 DEF Inserts
  <2>6. entry' \in [Entries -> [length : 0 .. HeapSize, address : Addr, next : Links]]
    <3>1. [length |-> size, address |-> HeapBase, next |-> End] \in [length : 0 .. HeapSize, address : Addr, next : Links]
      BY <1>9, <1>12 DEF Links, Addr
    <3> HIDE DEF Entries, Links, Addr, End
    <3> QED
      BY <2>2, <2>3, <3>1
  <2>7. held' = Held(HeapBase, asked)
    BY <1>8, <2>4
  <2>8. \A j \in 1 .. n : FALSE
    BY <1>14
  <2>9. HeapBase \in Nat /\ HeapBase % W = HeapBase /\ 0 .. n = {0} /\ \A j \in 1 .. 0 : FALSE
    BY <1>12, <1>14
  <2>10. Inserts(n, s, 0, Fresh, size, HeapBase % W) /\ held' = Held(HeapBase % W, asked)
    BY <2>5, <2>7, <2>9
  <2>11. \A j \in 0 + 1 .. n : FALSE
    BY <1>14
  <2> QED
    BY <1>2, <1>3, <1>4, <1>5, <1>6, <1>8, <1>9, <2>6, <2>8, <2>9, <2>10, <2>11, InsertKeeps
<1>15. CASE n # 0
  <2>1. PICK i \in Roomy(size) : (\A j \in Roomy(size) : i <= j) /\ InsertBehind(i, size)
    BY <1>8, <1>11, <1>15
  <2>2. i \in 1 .. n /\ i # 0 /\ i \in 0 .. n /\ RoomBehind(i, size)
        /\ \A j \in 1 .. n : RoomBehind(j, size) => i <= j
    BY <1>11, <2>1 DEF Roomy
  <2> DEFINE l == entry[s[i]].length
  <2>3. PICK x : x = o[i] + l
    OBVIOUS
  <2>4. x \in Nat /\ l \in 0 .. HeapSize /\ l \in 0 .. W - 1
    <3>1. o[i] \in Nat /\ l \in 0 .. HeapSize /\ l \in Nat
      BY <1>13, <2>2
    <3> HIDE DEF l
    <3> QED
      BY <1>12, <2>3, <3>1
  <2>x. o[i] <= x /\ x \in Int
    <3>1. o[i] \in Nat /\ l \in Nat
      BY <1>13, <2>2
    <3> HIDE DEF l
    <3> QED
      BY <2>3, <3>1
  <2>5. x % W = (entry[s[i]].address + l) % W
    <3>1. o[i] \in Nat /\ entry[s[i]].address = o[i] % W
      BY <1>13, <1>16, <2>2
    <3> HIDE DEF l
    <3>2. (o[i] + l) % W = ((o[i] % W) + l) % W
      BY <2>4, <3>1, FurtherOn
    <3> QED
      BY <2>3, <3>1, <3>2
  <2>6. /\ entry' = [entry EXCEPT
               ![Fresh] = [length |-> size, address |-> x % W, next |-> entry[s[i]].next],
               ![s[i]].next = Fresh]
        /\ firstAllocation' = firstAllocation
    BY <1>11, <2>1, <2>5 DEF InsertBehind
  <2>7. DOMAIN entry = Entries /\ entry \in [Entries -> [length : 0 .. HeapSize, address : Addr, next : Links]]
    BY <1>2 DEF Types
  <2>8. s[i] \in Entries /\ s[i] # Fresh
    BY <1>13, <2>2
  <2>9. /\ entry'[Fresh] = [length |-> size, address |-> x % W, next |-> entry[s[i]].next]
        /\ entry'[s[i]] = [entry[s[i]] EXCEPT !.next = Fresh]
        /\ \A e \in Entries \ {Fresh} : e # s[i] => entry'[e] = entry[e]
    BY <1>10, <2>6, <2>7, <2>8
  <2>10. entry[s[i]] \in [length : 0 .. HeapSize, address : Addr, next : Links]
    BY <2>7, <2>8
  <2>11. /\ entry'[s[i]].length = entry[s[i]].length /\ entry'[s[i]].address = entry[s[i]].address
         /\ entry'[s[i]].next = Fresh
    BY <2>9, <2>10
  <2>12. entry[s[i]].next = IF i = n THEN End ELSE s[i + 1]
    BY <1>2, <2>2 DEF UsedList
  <2>13. Inserts(n, s, i, Fresh, size, x % W)
    <3>1. \A e \in Entries \ {Fresh} : entry'[e].length = entry[e].length /\ entry'[e].address = entry[e].address
      BY <2>9, <2>11
    <3>2. \A e \in Entries \ {Fresh} : i = 0 \/ e # s[i] => entry'[e].next = entry[e].next
      BY <2>2, <2>9
    <3>3. /\ entry'[Fresh].length = size /\ entry'[Fresh].address = x % W
          /\ entry'[Fresh].next = IF i = n THEN End ELSE s[i + 1]
      BY <2>9, <2>12
    <3> QED
      BY <1>10, <2>2, <2>6, <2>11, <3>1, <3>2, <3>3 DEF Inserts
  <2>14. entry' \in [Entries -> [length : 0 .. HeapSize, address : Addr, next : Links]]
    <3>1. Fresh \in Links
      BY <1>10 DEF Links
    <3>2. x % W \in Addr
      BY <2>4, ModType
    <3> HIDE DEF Entries, Links, Addr, End, Fresh
    <3>3. entry'[Fresh] \in [length : 0 .. HeapSize, address : Addr, next : Links]
      BY <1>9, <2>9, <2>10, <3>2
    <3>4. entry'[s[i]] \in [length : 0 .. HeapSize, address : Addr, next : Links]
      BY <2>9, <2>10, <3>1
    <3>5. \A e \in Entries : entry'[e] \in [length : 0 .. HeapSize, address : Addr, next : Links]
      BY <2>7, <2>9, <3>3, <3>4
    <3>6. entry' = [e \in Entries |-> entry'[e]]
      BY <2>6, <2>7
    <3> QED
      BY <3>5, <3>6
  <2>15. held' = Held(x % W, asked)
    BY <1>8, <2>9
  <2> HIDE DEF l
  <2>16. \A j, k \in 1 .. n : j < k => o[j] + entry[s[j]].length <= o[k]
    BY <1>3 DEF InOrder
  <2>17. \A j, k \in 1 .. n : o[k] + entry[s[k]].length <= o[j] + H
    BY <1>3 DEF InOrder, H
  <2>18. \A j \in 1 .. i : o[j] + entry[s[j]].length <= x
    <3> TAKE j \in 1 .. i
    <3>1. j \in 1 .. n
      BY <1>11, <2>2
    <3>2. CASE j = i
      BY <2>3, <3>2 DEF l
    <3>3. CASE j < i
      <4>1. o[j] + entry[s[j]].length <= o[i]
        BY <2>2, <2>16, <3>1, <3>3
      <4>2. o[i] \in Int /\ o[i] <= x /\ x \in Int
        BY <1>13, <2>2, <2>x
      <4>3. o[j] + entry[s[j]].length \in Int
        BY <1>13, <3>1
      <4> QED
        BY <4>1, <4>2, <4>3, Further
    <3> QED
      BY <2>2, <3>2, <3>3
  <2>19. i # n => i + 1 \in 1 .. n /\ x + size <= o[i + 1]
    <3>1. SUFFICES ASSUME i # n PROVE i + 1 \in 1 .. n /\ x + size <= o[i + 1]
      OBVIOUS
    <3>2. i \in 1 .. n - 1 /\ i + 1 \in 1 .. n
      BY <1>11, <2>2, <3>1
    <3>3. o[i] + entry[s[i]].length + size <= o[i + 1]
      BY <1>2, <1>3, <1>9, <2>2, <3>2, RoomBetween
    <3> QED
      BY <2>3, <3>2, <3>3 DEF l
  <2>20. i = n => 1 \in 1 .. n /\ x + size <= o[1] + H
    <3>1. SUFFICES ASSUME i = n PROVE 1 \in 1 .. n /\ x + size <= o[1] + H
      OBVIOUS
    <3>2. \A j \in 1 .. n - 1 : ~RoomBehind(j, size)
      BY <1>11, <2>2, <3>1
    <3>3. o[n] + entry[s[n]].length + size <= o[1] + NumEntries * HeapSize
      BY <1>2, <1>3, <1>4, <1>9, <1>15, <3>2, RoomAtEnd
    <3> QED
      BY <1>11, <1>15, <2>3, <3>1, <3>3 DEF l, H
  <2>21. \A j \in i + 1 .. n : x + size <= o[j]
    <3> TAKE j \in i + 1 .. n
    <3>1. j \in 1 .. n /\ i # n /\ (j = i + 1 \/ i + 1 < j)
      BY <1>11, <2>2
    <3>2. CASE j = i + 1
      BY <2>19, <3>1, <3>2
    <3>3. CASE i + 1 < j
      <4>1. o[i + 1] + entry[s[i + 1]].length <= o[j]
        BY <2>16, <2>19, <3>1, <3>3
      <4>2. o[i + 1] \in Nat /\ entry[s[i + 1]].length \in Nat /\ o[j] \in Nat /\ size \in Nat
        BY <1>9, <1>13, <2>19, <3>1
      <4>3. x + size <= o[i + 1]
        BY <2>19, <3>1
      <4>4. o[i + 1] <= o[j]
        BY <4>1, <4>2, Further
      <4>5. x + size \in Int /\ o[i + 1] \in Int /\ o[j] \in Int
        BY <2>4, <4>2
      <4> QED
        BY <4>3, <4>4, <4>5, Further
    <3> QED
      BY <3>1, <3>2, <3>3
  <2>22. ASSUME NEW j \in 1 .. n
         PROVE  x + size <= o[j] + H /\ o[j] + entry[s[j]].length <= x + H
    <3>0. o[j] \in Nat /\ o[i] \in Nat /\ entry[s[j]].length \in Nat /\ size \in Nat /\ H \in Nat
      <4>1. o[j] \in Nat /\ o[i] \in Nat /\ entry[s[j]].length \in Nat
        BY <1>13, <2>2
      <4> QED
        BY <1>9, <1>12, <4>1
    <3>a. o[j] + entry[s[j]].length <= o[i] + H /\ o[i] <= x
      <4>1. o[j] + entry[s[j]].length <= o[i] + H
        BY <2>2, <2>17
      <4> QED
        BY <2>x, <4>1
    <3>b. o[j] + entry[s[j]].length <= x + H
      <4>1. o[j] + entry[s[j]].length \in Int /\ o[i] \in Int /\ x \in Int /\ H \in Int
        <5>1. o[j] \in Nat /\ entry[s[j]].length \in Nat /\ o[i] \in Nat /\ H \in Nat
          BY <3>0
        <5> QED
          BY <2>x, <5>1, Further
      <4> QED
        BY <3>a, <4>1, Further
    <3>1. CASE i = n
      <4>1. 1 = j \/ o[1] + entry[s[1]].length <= o[j]
        BY <2>16, <2>20, <3>1
      <4>2. o[1] \in Nat /\ entry[s[1]].length \in Nat
        BY <1>13, <2>20, <3>1
      <4>3. o[1] <= o[j]
        BY <3>0, <4>1, <4>2
      <4>4. x + size <= o[j] + H
        BY <2>4, <2>20, <3>0, <3>1, <4>2, <4>3
      <4> QED
        BY <3>b, <4>4
    <3>2. CASE i # n
      <4>1. o[i + 1] + entry[s[i + 1]].length <= o[j] + H
        BY <2>17, <2>19, <3>2
      <4>2. o[i + 1] \in Nat /\ entry[s[i + 1]].length \in Nat
        BY <1>13, <2>19, <3>2
      <4>3. x + size <= o[j] + H
        <5>1. x + size <= o[i + 1]
          BY <2>19, <3>2
        <5>2. o[i + 1] <= o[j] + H
          BY <3>0, <4>1, <4>2
        <5>3. x + size \in Int /\ o[i + 1] \in Int /\ o[j] + H \in Int
          BY <2>4, <3>0, <4>2
        <5> QED
          BY <5>1, <5>2, <5>3, Further
      <4> QED
        BY <3>b, <4>3
    <3> QED
      BY <3>1, <3>2
  <2>23. \A j \in 1 .. n : x + size <= o[j] + NumEntries * HeapSize
                           /\ o[j] + entry[s[j]].length <= x + NumEntries * HeapSize
    BY <2>22 DEF H
  <2> QED
    BY <1>2, <1>3, <1>4, <1>5, <1>6, <1>8, <1>9, <2>4, <2>13, <2>14, <2>15, <2>18, <2>21, <2>23, InsertKeeps
<1> QED
  BY <1>14, <1>15

LEMMA RefuseKeeps ==
  ASSUME HeapInv, NEW asked \in Requests, RefuseAllocate(asked)
  PROVE  HeapInv'
<1>a. PICK n \in Nat : \E s \in [1 .. n -> Entries] : Described(n, s)
  BY DEF HeapInv
<1>1. PICK s \in [1 .. n -> Entries] : Described(n, s)
  BY <1>a
<1>b. PICK m \in Nat : \E r \in [0 .. m -> Entries \cup {End}] : GivenBack(n, s, m, r)
  BY <1>1 DEF Described
<1>2. PICK r \in [0 .. m -> Entries \cup {End}] : GivenBack(n, s, m, r)
  BY <1>b
<1>3. /\ firstFree' = Fresh /\ entry' = entry /\ firstAllocation' = firstAllocation
      /\ allocated' = allocated /\ held' = held
  BY DEF RefuseAllocate
<1>4. Fresh \in Entries \cup {End} /\ Fresh # Null /\ Fresh \in Links
  <2>1. r[0] = Fresh /\ 0 \in 0 .. m
    BY <1>2 DEF GivenBack
  <2>2. Fresh \in Entries \cup {End}
    BY <2>1
  <2>3. Null \notin Entries \cup {End}
    BY NoEntry DEF Null, End
  <2> QED
    BY <2>2, <2>3 DEF Links
<1>5. Fresh' = Fresh /\ firstFree' # Null'
  BY <1>3, <1>4 DEF Fresh, Null
<1>6. GivenBack(n, s, m, r)'
  BY <1>2, <1>3, <1>5 DEF GivenBack, Taken, Entries, End, Null
<1>7. Described(n, s)'
  <2>1. UsedList(n, s)' /\ \A o : InOrder(n, s, o)' = InOrder(n, s, o)
    BY <1>1, <1>3 DEF Described, UsedList, InOrder, Entries, End
  <2>2. \A q : Summed(n, s, q)' = Summed(n, s, q)
    BY <1>3 DEF Summed
  <2>3. \A M : Owned(n, s, M)' = Owned(n, s, M)
    BY <1>3 DEF Owned, Taken
  <2>4. Taken(n, s)' = Taken(n, s) /\ Entries' = Entries /\ End' = End
    BY DEF Taken, Entries, End
  <2> HIDE DEF Entries, End
  <2> QED
    BY <1>1, <1>3, <1>6, <2>1, <2>2, <2>3, <2>4 DEF Described
<1>8. Types'
  BY <1>3, <1>4 DEF HeapInv, Types, Entries, End, Null, Links, Addr
<1> QED
  BY <1>7, <1>8 DEF HeapInv, Entries

-----------------------------------------------------------------------------
(* MemoryDeallocate.  The i-th entry leaves the list.                      *)
Without(g, n, i) == [j \in 1 .. n - 1 |-> IF j < i THEN g[j] ELSE g[j + 1]]

Removes(n, s, i) ==
  /\ i \in 1 .. n
  /\ \A e \in Entries : entry'[e].length = entry[e].length /\ entry'[e].address = entry[e].address
  /\ entry'[s[i]].next = firstFree
  /\ i # 1 => entry'[s[i - 1]].next = entry[s[i]].next
  /\ \A e \in Entries \ {s[i]} : i = 1 \/ e # s[i - 1] => entry'[e].next = entry[e].next
  /\ firstAllocation' = IF i = 1 THEN entry[s[i]].next ELSE firstAllocation

LEMMA WithoutIs ==
  ASSUME NEW n \in Nat, NEW i \in 1 .. n, NEW S, NEW g \in [1 .. n -> S]
  PROVE  /\ Without(g, n, i) \in [1 .. n - 1 -> S]
         /\ \A j \in 1 .. i - 1 : Without(g, n, i)[j] = g[j] /\ j \in 1 .. n
         /\ \A j \in i .. n - 1 : Without(g, n, i)[j] = g[j + 1] /\ j + 1 \in 1 .. n
         /\ \A j \in 1 .. n - 1 : j \in 1 .. i - 1 \/ j \in i .. n - 1
<1>1. \A j \in 1 .. n - 1 : j \in 1 .. n /\ j + 1 \in 1 .. n
  OBVIOUS
<1>2. Without(g, n, i) \in [1 .. n - 1 -> S]
  BY <1>1 DEF Without
<1>3. \A j \in 1 .. i - 1 : Without(g, n, i)[j] = g[j] /\ j \in 1 .. n
  BY DEF Without
<1>4. \A j \in i .. n - 1 : Without(g, n, i)[j] = g[j + 1] /\ j + 1 \in 1 .. n
  BY DEF Without
<1> QED
  BY <1>2, <1>3, <1>4

LEMMA ListRemoved ==
  ASSUME NEW n, NEW s, UsedList(n, s), NEW i, Removes(n, s, i)
  PROVE  /\ UsedList(n - 1, Without(s, n, i))'
         /\ Taken(n, s) = Taken(n - 1, Without(s, n, i)) \cup {s[i]}
         /\ s[i] \notin Taken(n - 1, Without(s, n, i))
<1> DEFINE t == Without(s, n, i)
           u == n - 1
<1>0. n \in Nat /\ i \in 1 .. n /\ s \in [1 .. n -> Entries] /\ u \in Nat
  BY DEF UsedList, Removes
<1>1. /\ t \in [1 .. u -> Entries]
      /\ \A j \in 1 .. i - 1 : t[j] = s[j] /\ j \in 1 .. n
      /\ \A j \in i .. u : t[j] = s[j + 1] /\ j + 1 \in 1 .. n
      /\ \A j \in 1 .. u : j \in 1 .. i - 1 \/ j \in i .. u
  <2> HIDE DEF Entries
  <2> QED
    BY <1>0, WithoutIs
<1>2. /\ \A j, k \in 1 .. n : s[j] = s[k] => j = k
      /\ \A j \in 1 .. n : entry[s[j]].next = (IF j = n THEN End ELSE s[j + 1]) /\ s[j] \in Entries
  BY DEF UsedList
<1> HIDE DEF t
<1>3. ASSUME NEW j \in 1 .. u, NEW k \in 1 .. u, t[j] = t[k]
      PROVE  j = k
  <2>1. CASE j \in 1 .. i - 1 /\ k \in 1 .. i - 1
    BY <1>1, <1>2, <1>3, <2>1
  <2>2. CASE j \in i .. u /\ k \in i .. u
    <3>1. j + 1 = k + 1
      BY <1>1, <1>2, <1>3, <2>2
    <3> QED
      BY <3>1
  <2>3. CASE j \in 1 .. i - 1 /\ k \in i .. u
    <3>1. j = k + 1
      BY <1>1, <1>2, <1>3, <2>3
    <3> QED
      BY <1>0, <2>3, <3>1
  <2>4. CASE j \in i .. u /\ k \in 1 .. i - 1
    <3>1. j + 1 = k
      BY <1>1, <1>2, <1>3, <2>4
    <3> QED
      BY <1>0, <2>4, <3>1
  <2> QED
    BY <1>1, <2>1, <2>2, <2>3, <2>4
<1>4. firstAllocation' = IF u = 0 THEN End ELSE t[1]
  <2>1. firstAllocation = s[1] /\ 1 \in 1 .. n
    BY <1>0 DEF UsedList
  <2>2. CASE i = 1
    <3>1. firstAllocation' = IF 1 = n THEN End ELSE s[2]
      BY <1>2, <2>1, <2>2 DEF Removes
    <3>2. n # 1 => t[1] = s[2]
      BY <1>0, <1>1, <2>2
    <3> QED
      BY <1>0, <3>1, <3>2
  <2>3. CASE i # 1
    <3>1. u # 0 /\ t[1] = s[1]
      BY <1>0, <1>1, <2>3
    <3> QED
      BY <2>1, <2>3, <3>1 DEF Removes
  <2> QED
    BY <2>2, <2>3
<1>5. ASSUME NEW j \in 1 .. u
      PROVE  entry'[t[j]].next = IF j = u THEN End ELSE t[j + 1]
  <2>1. CASE j \in 1 .. i - 1 /\ j # i - 1
    <3>1. /\ j \in 1 .. n /\ j # n /\ j + 1 \in 1 .. i - 1 /\ j # u /\ i \in 1 .. n /\ i - 1 \in 1 .. n
          /\ j # i
      BY <1>0, <2>1
    <3>2. t[j] = s[j] /\ t[j + 1] = s[j + 1] /\ s[j] # s[i] /\ s[j] # s[i - 1] /\ s[j] \in Entries
      BY <1>1, <1>2, <2>1, <3>1
    <3>3. entry'[s[j]].next = entry[s[j]].next
      BY <3>2 DEF Removes
    <3> QED
      BY <1>2, <3>1, <3>2, <3>3
  <2>2. CASE j = i - 1
    <3>1. j \in 1 .. i - 1 /\ i # 1 /\ i \in 1 .. n
      BY <1>0, <2>2
    <3>2. t[j] = s[i - 1] /\ entry'[s[i - 1]].next = entry[s[i]].next
      BY <1>1, <2>2, <3>1 DEF Removes
    <3>3. entry[s[i]].next = IF i = n THEN End ELSE s[i + 1]
      BY <1>2, <3>1
    <3>4. CASE i = n
      BY <1>0, <2>2, <3>2, <3>3, <3>4
    <3>5. CASE i # n
      <4>1. i \in i .. u /\ j # u /\ j + 1 = i
        BY <1>0, <2>2, <3>5
      <4>2. t[j + 1] = s[i + 1]
        BY <1>1, <4>1
      <4> QED
        BY <3>2, <3>3, <3>5, <4>1, <4>2
    <3> QED
      BY <3>4, <3>5
  <2>3. CASE j \in i .. u
    <3>1. j + 1 \in 1 .. n /\ j + 1 # i /\ (i = 1 \/ (i - 1 \in 1 .. n /\ j + 1 # i - 1))
      BY <1>0, <2>3
    <3>2. t[j] = s[j + 1] /\ s[j + 1] # s[i] /\ (i = 1 \/ s[j + 1] # s[i - 1]) /\ s[j + 1] \in Entries
      BY <1>0, <1>1, <1>2, <2>3, <3>1
    <3>3. entry'[s[j + 1]].next = entry[s[j + 1]].next
      BY <3>2 DEF Removes
    <3>4. entry[s[j + 1]].next = IF j + 1 = n THEN End ELSE s[(j + 1) + 1]
      BY <1>2, <3>1
    <3>5. CASE j = u
      BY <1>0, <3>2, <3>3, <3>4, <3>5
    <3>6. CASE j # u
      <4>1. j + 1 \in i .. u /\ j + 1 # n
        BY <1>0, <2>3, <3>6
      <4>2. t[j + 1] = s[(j + 1) + 1]
        BY <1>1, <4>1
      <4> QED
        BY <3>2, <3>3, <3>4, <3>6, <4>1, <4>2
    <3> QED
      BY <3>5, <3>6
  <2> QED
    BY <1>1, <2>1, <2>2, <2>3
<1>6. UsedList(u, t)'
  <2>1. Entries' = Entries /\ End' = End
    BY DEF Entries, End
  <2> HIDE DEF u, Entries, End
  <2> QED
    BY <1>0, <1>1, <1>3, <1>4, <1>5, <2>1 DEF UsedList
<1>7. \A j \in 1 .. u : t[j] # s[i]
  <2> TAKE j \in 1 .. u
  <2>1. CASE j \in 1 .. i - 1
    <3>1. j \in 1 .. n /\ j # i
      BY <1>0, <2>1
    <3> QED
      BY <1>0, <1>1, <1>2, <2>1, <3>1
  <2>2. CASE j \in i .. u
    <3>1. j + 1 \in 1 .. n /\ j + 1 # i
      BY <1>0, <2>2
    <3> QED
      BY <1>0, <1>1, <1>2, <2>2, <3>1
  <2> QED
    BY <1>1, <2>1, <2>2
<1>8. Taken(n, s) = Taken(u, t) \cup {s[i]}
  <2>1. ASSUME NEW e \in Taken(n, s) PROVE e \in Taken(u, t) \cup {s[i]}
    <3>1. PICK j \in 1 .. n : s[j] = e
      BY DEF Taken
    <3>2. CASE j < i
      <4>1. j \in 1 .. i - 1 /\ j \in 1 .. u
        BY <1>0, <3>2
      <4> QED
        BY <1>1, <3>1, <4>1 DEF Taken
    <3>3. CASE j > i
      <4>1. j - 1 \in i .. u /\ j - 1 \in 1 .. u /\ (j - 1) + 1 = j
        BY <1>0, <3>3
      <4>2. t[j - 1] = e
        BY <1>1, <3>1, <4>1
      <4> QED
        BY <4>1, <4>2 DEF Taken
    <3> QED
      BY <1>0, <3>1, <3>2, <3>3
  <2>2. ASSUME NEW e \in Taken(u, t) \cup {s[i]} PROVE e \in Taken(n, s)
    <3>1. CASE e = s[i]
      BY <1>0, <3>1 DEF Taken
    <3>2. CASE e \in Taken(u, t)
      <4>1. PICK j \in 1 .. u : t[j] = e
        BY <3>2 DEF Taken
      <4> QED
        BY <1>1, <4>1 DEF Taken
    <3> QED
      BY <2>2, <3>1, <3>2
  <2> QED
    BY <2>1, <2>2
<1>9. s[i] \notin Taken(u, t)
  BY <1>7 DEF Taken
<1> QED
  BY <1>6, <1>8, <1>9 DEF t

LEMMA OrderRemoved ==
  ASSUME NEW n, NEW s, UsedList(n, s), NEW o, InOrder(n, s, o), NEW i, Removes(n, s, i)
  PROVE  InOrder(n - 1, Without(s, n, i), Without(o, n, i))'
<1> DEFINE t == Without(s, n, i)
           p == Without(o, n, i)
           u == n - 1
<1>0. n \in Nat /\ i \in 1 .. n /\ s \in [1 .. n -> Entries] /\ o \in [1 .. n -> Nat] /\ u \in Int
  BY DEF UsedList, Removes, InOrder
<1>1. /\ \A j \in 1 .. i - 1 : t[j] = s[j] /\ j \in 1 .. n
      /\ \A j \in i .. u : t[j] = s[j + 1] /\ j + 1 \in 1 .. n
      /\ \A j \in 1 .. u : j \in 1 .. i - 1 \/ j \in i .. u
  <2> HIDE DEF Entries
  <2> QED
    BY <1>0, WithoutIs
<1>2. /\ p \in [1 .. u -> Nat]
      /\ \A j \in 1 .. i - 1 : p[j] = o[j] /\ j \in 1 .. n
      /\ \A j \in i .. u : p[j] = o[j + 1] /\ j + 1 \in 1 .. n
      /\ \A j \in 1 .. u : j \in 1 .. i - 1 \/ j \in i .. u
  <2>1. n \in Nat /\ i \in 1 .. n /\ o \in [1 .. n -> Nat]
    BY <1>0
  <2> QED
    BY <2>1, WithoutIs
<1> HIDE DEF t, p
<1>3. \A j \in 1 .. u : \E k \in 1 .. n : t[j] = s[k] /\ p[j] = o[k] /\ k = IF j < i THEN j ELSE j + 1
  <2> TAKE j \in 1 .. u
  <2>1. CASE j \in 1 .. i - 1
    <3>1. t[j] = s[j] /\ p[j] = o[j] /\ j \in 1 .. n /\ j < i
      BY <1>0, <1>1, <1>2, <2>1
    <3> QED
      BY <3>1
  <2>2. CASE j \in i .. u
    <3>1. t[j] = s[j + 1] /\ p[j] = o[j + 1] /\ j + 1 \in 1 .. n /\ ~(j < i)
      BY <1>0, <1>1, <1>2, <2>2
    <3> QED
      BY <3>1
  <2> QED
    BY <1>1, <2>1, <2>2
<1>4. \A k \in 1 .. n : entry'[s[k]].length = entry[s[k]].length /\ entry'[s[k]].address = entry[s[k]].address
  BY <1>0 DEF Removes
<1>5. \A j \in 1 .. u : entry'[t[j]].address = p[j] % W
  <2> TAKE j \in 1 .. u
  <2>1. PICK k \in 1 .. n : t[j] = s[k] /\ p[j] = o[k]
    BY <1>3
  <2> QED
    BY <1>4, <2>1 DEF InOrder
<1>6. ASSUME NEW j \in 1 .. u, NEW k \in 1 .. u, j < k
      PROVE  p[j] + entry'[t[j]].length <= p[k]
  <2>1. PICK a \in 1 .. n : t[j] = s[a] /\ p[j] = o[a] /\ a = IF j < i THEN j ELSE j + 1
    BY <1>3
  <2>2. PICK b \in 1 .. n : t[k] = s[b] /\ p[k] = o[b] /\ b = IF k < i THEN k ELSE k + 1
    BY <1>3
  <2>3. a < b
    BY <1>0, <1>6, <2>1, <2>2
  <2> QED
    BY <1>4, <2>1, <2>2, <2>3 DEF InOrder
<1>7. ASSUME NEW j \in 1 .. u, NEW k \in 1 .. u
      PROVE  p[k] + entry'[t[k]].length <= p[j] + NumEntries * HeapSize
  <2>1. PICK a \in 1 .. n : t[j] = s[a] /\ p[j] = o[a]
    BY <1>3
  <2>2. PICK b \in 1 .. n : t[k] = s[b] /\ p[k] = o[b]
    BY <1>3
  <2> QED
    BY <1>4, <2>1, <2>2 DEF InOrder
<1>8. InOrder(u, t, p)'
  BY <1>2, <1>5, <1>6, <1>7 DEF InOrder
<1> QED
  BY <1>8 DEF t, p

LEMMA SumsGrow ==
  ASSUME NEW n, NEW s, UsedList(n, s), NEW q, Summed(n, s, q), Types
  PROVE  \A i, j \in 0 .. n : i <= j => q[i] <= q[j]
<1>0. n \in Nat /\ q \in [0 .. n -> Nat]
  BY DEF UsedList, Summed
<1>1. \A j \in 1 .. n : q[j - 1] <= q[j]
  <2> TAKE j \in 1 .. n
  <2>1. s[j] \in Entries
    BY DEF UsedList
  <2>2. entry[s[j]].length \in Nat
    BY <2>1 DEF Types
  <2>3. q[j] = q[j - 1] + entry[s[j]].length /\ j - 1 \in 0 .. n
    BY <1>0 DEF Summed
  <2>4. q[j - 1] \in Nat
    BY <1>0, <2>3
  <2> QED
    BY <2>2, <2>3, <2>4
<1>2. ASSUME NEW i \in 0 .. n, NEW k \in 0 .. n, i <= k, ~(q[i] <= q[k])
      PROVE  FALSE
  <2> DEFINE Less == {j \in 0 .. n : i <= j /\ ~(q[i] <= q[j])}
  <2>0. Less \in SUBSET Nat /\ Less # {}
    BY <1>2
  <2>1. PICK j \in Less : \A h \in Less : j <= h
    BY <2>0, LeastNatural
  <2>2. j \in 0 .. n /\ i <= j /\ ~(q[i] <= q[j])
    BY <2>1
  <2>3. q[i] \in Nat /\ q[j] \in Nat
    BY <1>0, <2>2
  <2>4. j # i /\ j \in 1 .. n /\ j - 1 \in 0 .. n /\ i <= j - 1 /\ ~(j <= j - 1)
    BY <1>0, <2>2, <2>3
  <2>5. q[i] <= q[j - 1]
    BY <2>1, <2>4
  <2>6. q[j - 1] <= q[j] /\ q[j - 1] \in Nat
    BY <1>0, <1>1, <2>4
  <2> QED
    BY <2>2, <2>3, <2>5, <2>6
<1> QED
  BY <1>2

LEMMA SumRemoved ==
  ASSUME NEW n, NEW s, UsedList(n, s), NEW q, Summed(n, s, q), Types, NEW i, Removes(n, s, i),
         allocated' = allocated - entry[s[i]].length
  PROVE  \E p \in [0 .. n - 1 -> Nat] : Summed(n - 1, Without(s, n, i), p)'
<1> DEFINE t == Without(s, n, i)
           u == n - 1
<1>0. /\ n \in Nat /\ i \in 1 .. n /\ s \in [1 .. n -> Entries] /\ u \in Nat
      /\ q \in [0 .. n -> Nat] /\ q[0] = 0 /\ q[n] = allocated /\ allocated <= HeapSize
  BY DEF UsedList, Removes, Summed
<1>1. /\ \A j \in 1 .. i - 1 : t[j] = s[j] /\ j \in 1 .. n
      /\ \A j \in i .. u : t[j] = s[j + 1] /\ j + 1 \in 1 .. n
      /\ \A j \in 1 .. u : j \in 1 .. i - 1 \/ j \in i .. u
  <2> HIDE DEF Entries
  <2> QED
    BY <1>0, WithoutIs
<1> HIDE DEF t, u
<1>u. u = n - 1
  BY DEF u
<1>2. PICK l : l = entry[s[i]].length
  OBVIOUS
<1>3. l \in Nat /\ \A k \in 1 .. n : /\ entry'[s[k]].length = entry[s[k]].length
                                     /\ entry[s[k]].length \in Nat
                                     /\ q[k] = q[k - 1] + entry[s[k]].length
  BY <1>0, <1>2 DEF Removes, Types, Summed
<1>4. q[i] = q[i - 1] + l /\ i - 1 \in 0 .. n /\ i \in 0 .. n
  BY <1>0, <1>2, <1>3
<1>5. \A k \in i .. n : q[k] - l \in Nat
  <2> TAKE k \in i .. n
  <2>1. k \in 0 .. n /\ i <= k
    BY <1>0
  <2>2. q[i] <= q[k]
    BY <1>4, <2>1, SumsGrow
  <2>3. q[i] \in Nat /\ q[i - 1] \in Nat /\ q[k] \in Nat
    BY <1>0, <1>4, <2>1
  <2> QED
    BY <1>3, <1>4, <2>2, <2>3
<1>6. PICK p : p = [j \in 0 .. u |-> IF j < i THEN q[j] ELSE q[j + 1] - l]
  OBVIOUS
<1>7. /\ \A j \in 0 .. i - 1 : j \in 0 .. u /\ j \in 0 .. n /\ p[j] = q[j]
      /\ \A j \in i .. u : j \in 0 .. u /\ j + 1 \in i .. n /\ p[j] = q[j + 1] - l
      /\ \A j \in 0 .. u : j \in 0 .. i - 1 \/ j \in i .. u
  BY <1>0, <1>u, <1>6
<1>8. \A j \in 0 .. u : p[j] \in Nat
  BY <1>0, <1>5, <1>7
<1>9. p \in [0 .. u -> Nat]
  BY <1>6, <1>8
<1>10. ASSUME NEW j \in 1 .. u
       PROVE  p[j] = p[j - 1] + entry'[t[j]].length
  <2>1. CASE j \in 1 .. i - 1
    <3>1. j \in 0 .. i - 1 /\ j - 1 \in 0 .. i - 1
      BY <1>0, <2>1
    <3>2. p[j] = q[j] /\ p[j - 1] = q[j - 1] /\ t[j] = s[j] /\ j \in 1 .. n
      BY <1>1, <1>7, <2>1, <3>1
    <3> QED
      BY <1>3, <3>2
  <2>2. CASE j \in i .. u
    <3>1. p[j] = q[j + 1] - l /\ t[j] = s[j + 1] /\ j + 1 \in 1 .. n /\ (j + 1) - 1 = j
      BY <1>0, <1>1, <1>7, <2>2
    <3>2. q[j + 1] = q[j] + entry'[s[j + 1]].length
      <4>1. q[j + 1] = q[(j + 1) - 1] + entry'[s[j + 1]].length
        BY <1>3, <3>1
      <4> QED
        BY <3>1, <4>1
    <3>3. p[j - 1] = q[j] - l
      <4>1. CASE j = i
        <5>1. j - 1 \in 0 .. i - 1
          BY <1>0, <4>1
        <5>2. p[j - 1] = q[i - 1]
          BY <1>7, <4>1, <5>1
        <5>3. q[i - 1] \in Nat
          BY <1>0, <1>4
        <5> QED
          BY <1>3, <1>4, <4>1, <5>2, <5>3
      <4>2. CASE j # i
        <5>1. j - 1 \in i .. u /\ (j - 1) + 1 = j
          BY <1>0, <2>2, <4>2
        <5>2. p[j - 1] = q[(j - 1) + 1] - l
          BY <1>7, <5>1
        <5> QED
          BY <5>1, <5>2
      <4> QED
        BY <4>1, <4>2
    <3>4. q[j] \in Nat /\ entry'[s[j + 1]].length \in Nat
      <4>1. j \in 0 .. n
        BY <1>0, <1>u, <2>2
      <4>2. entry'[s[j + 1]].length = entry[s[j + 1]].length /\ entry[s[j + 1]].length \in Nat
        BY <1>3, <3>1
      <4> QED
        BY <1>0, <4>1, <4>2
    <3> QED
      BY <1>3, <3>1, <3>2, <3>3, <3>4
  <2> QED
    BY <1>1, <2>1, <2>2
<1>11. p[0] = 0 /\ p[u] = allocated' /\ allocated' <= HeapSize
  <2>1. 0 \in 0 .. i - 1
    BY <1>0
  <2>2. p[u] = q[n] - l
    <3>1. CASE i = n
      <4>1. u \in 0 .. i - 1 /\ u = i - 1
        BY <1>0, <1>u, <3>1
      <4>2. p[u] = q[i - 1] /\ q[i - 1] \in Nat
        BY <1>0, <1>4, <1>7, <4>1
      <4> QED
        BY <1>3, <1>4, <3>1, <4>2
    <3>2. CASE i # n
      <4>1. u \in i .. u /\ u + 1 = n
        BY <1>0, <1>u, <3>2
      <4> QED
        BY <1>7, <4>1
    <3> QED
      BY <3>1, <3>2
  <2>3. allocated \in Nat /\ HeapSize \in Nat /\ allocated - l <= HeapSize
    <3>1. n \in 0 .. n
      BY <1>0
    <3>2. allocated \in Nat
      BY <1>0, <3>1
    <3>3. HeapSize \in Nat
      BY UsbHeapAssumption
    <3> QED
      BY <1>0, <1>3, <3>2, <3>3
  <2> QED
    BY <1>0, <1>2, <1>7, <2>1, <2>2, <2>3
<1>12. Summed(u, t, p)'
  BY <1>9, <1>10, <1>11 DEF Summed
<1> QED
  BY <1>9, <1>12 DEF t, u

(* The entry is the first of those given back: one that was never used     *)
(* cannot have become the first free one by the null pointer.              *)
LEMMA FreshComes ==
  ASSUME NEW n, NEW s, NEW m, NEW r, GivenBack(n, s, m, r), NEW i, Removes(n, s, i),
         \A j \in 1 .. n : s[j] \in Entries,
         NEW u, NEW t, Taken(n, s) = Taken(u, t) \cup {s[i]}, s[i] \notin Taken(u, t),
         i # 1 => s[i - 1] \in Taken(n, s),
         firstFree' = s[i]
  PROVE  \E k \in Nat : \E p \in [0 .. k -> Entries \cup {End}] : GivenBack(u, t, k, p)'
<1> DEFINE e == s[i]
           k == m + 1
           p == [j \in 0 .. k |-> IF j = 0 THEN e ELSE r[j - 1]]
<1>0. /\ NumEntries \in Nat \ {0} /\ Entries = 1 .. NumEntries /\ End = NumEntries + 1 /\ Null = 0
      /\ e \in Entries /\ e \in Taken(n, s)
      /\ m \in Nat /\ r \in [0 .. m -> Entries \cup {End}] /\ r[0] = Fresh
  BY UsbHeapAssumption DEF Entries, End, Null, Removes, GivenBack
<1>1. \A x \in Entries : x \notin Taken(n, s) => entry'[x].next = entry[x].next
  BY <1>0 DEF Removes
<1>2. /\ \A j \in 0 .. m - 1 : r[j] < r[m] /\ r[j] \notin Taken(n, s) /\ entry[r[j]].next = r[j + 1]
      /\ \A j, h \in 0 .. m - 1 : r[j] = r[h] => j = h
      /\ \A x \in Entries : x >= r[m] => entry[x].next = Null /\ x \notin Taken(n, s)
      /\ \A x \in Entries : x < r[m] => x \in Taken(n, s) \/ \E j \in 0 .. m - 1 : r[j] = x
  BY DEF GivenBack
<1>3. \A j \in 0 .. m : r[j] \in 1 .. NumEntries + 1
  BY <1>0
<1>4. e < r[m]
  BY <1>0, <1>2, <1>3
<1>5. firstFree = r[0]
  <2>1. CASE firstFree = Null
    <3>1. m = 0 /\ r[0] = 1
      BY <1>0, <2>1 DEF GivenBack, Fresh
    <3> QED
      BY <1>0, <1>4, <3>1
  <2>2. CASE firstFree # Null
    BY <1>0, <2>2 DEF Fresh
  <2> QED
    BY <2>1, <2>2
<1>6. k \in Nat /\ k \in 1 .. k /\ k - 1 = m
  BY <1>0
<1>7. p[0] = e /\ \A j \in 0 .. m : p[j + 1] = r[j]
  BY <1>0
<1>8. p \in [0 .. k -> Entries \cup {End}]
  <2>1. \A j \in 0 .. k : j = 0 \/ j - 1 \in 0 .. m
    BY <1>0
  <2> HIDE DEF e, Entries, End
  <2> QED
    BY <1>0, <2>1
<1>9. \A j \in 0 .. k : j = 0 \/ (j - 1 \in 0 .. m /\ p[j] = r[j - 1])
  BY <1>0
<1> HIDE DEF p
<1>10. p[k] = r[m]
  BY <1>0, <1>7
<1>11. \A j \in 0 .. k - 1 : j = 0 \/ (j - 1 \in 0 .. m - 1 /\ p[j] = r[j - 1] /\ p[j + 1] = r[(j - 1) + 1])
  BY <1>0, <1>7, <1>9
<1> HIDE DEF k
<1>12. Fresh' = e /\ firstFree' # Null
  BY <1>0 DEF Fresh
<1>13. ASSUME NEW j \in 0 .. k - 1
       PROVE  p[j] < p[k] /\ p[j] \notin Taken(u, t) /\ entry'[p[j]].next = p[j + 1]
  <2>1. CASE j = 0
    <3>1. p[j + 1] = r[0]
      BY <1>0, <1>7, <2>1
    <3>2. entry'[e].next = firstFree
      BY DEF Removes
    <3> QED
      BY <1>4, <1>5, <1>7, <1>10, <2>1, <3>1, <3>2
  <2>2. CASE j # 0
    <3>1. j - 1 \in 0 .. m - 1 /\ p[j] = r[j - 1] /\ p[j + 1] = r[(j - 1) + 1]
      BY <1>11, <2>2
    <3>2. r[j - 1] < r[m] /\ r[j - 1] \notin Taken(n, s) /\ entry[r[j - 1]].next = r[(j - 1) + 1]
      BY <1>2, <3>1
    <3>3. r[j - 1] \in Entries
      BY <1>0, <1>3, <3>1, <3>2
    <3> QED
      BY <1>1, <1>10, <3>1, <3>2, <3>3
  <2> QED
    BY <2>1, <2>2
<1>14. ASSUME NEW j \in 0 .. k - 1, NEW h \in 0 .. k - 1, p[j] = p[h]
       PROVE  j = h
  <2>1. \A g \in 0 .. k - 1 : g # 0 => g - 1 \in 0 .. m - 1 /\ p[g] = r[g - 1] /\ p[g] # e
    BY <1>0, <1>2, <1>11
  <2>2. CASE j = 0 \/ h = 0
    BY <1>7, <1>14, <2>1, <2>2
  <2>3. CASE j # 0 /\ h # 0
    <3>1. j - 1 = h - 1
      BY <1>2, <1>14, <2>1, <2>3
    <3> QED
      BY <1>6, <3>1
  <2> QED
    BY <2>2, <2>3
<1>15. ASSUME NEW x \in Entries, x >= p[k]
       PROVE  entry'[x].next = Null /\ x \notin Taken(u, t)
  BY <1>1, <1>2, <1>10, <1>15
<1>16. ASSUME NEW x \in Entries, x < p[k]
       PROVE  x \in Taken(u, t) \/ \E j \in 0 .. k - 1 : p[j] = x
  <2>1. CASE x = e
    <3>1. 0 \in 0 .. k - 1
      BY <1>6
    <3> QED
      BY <1>7, <2>1, <3>1
  <2>2. CASE x # e /\ x \in Taken(n, s)
    BY <2>2
  <2>3. CASE x \notin Taken(n, s)
    <3>1. PICK j \in 0 .. m - 1 : r[j] = x
      BY <1>2, <1>10, <1>16, <2>3
    <3>2. j \in 0 .. m /\ j + 1 \in 0 .. k - 1
      BY <1>0, <1>6, <3>1
    <3>3. p[j + 1] = x
      BY <1>7, <3>1, <3>2
    <3> QED
      BY <3>2, <3>3
  <2> QED
    BY <2>1, <2>2, <2>3
<1>17. Entries' = Entries /\ End' = End /\ Null' = Null
  BY DEF Entries, End, Null
<1>18. GivenBack(u, t, k, p)'
  <2> HIDE DEF e
  <2>1. p[0] = Fresh'
    BY <1>7, <1>12
  <2> QED
    BY <1>6, <1>8, <1>12, <1>13, <1>14, <1>15, <1>16, <1>17, <2>1 DEF GivenBack, Taken
<1> QED
  BY <1>6, <1>8, <1>18

(* The first entry at the address need not be the holder's.  If it is not, *)
(* it has no bytes, and whose it was takes over the holder's.              *)
LEMMA OwnerRemoved ==
  ASSUME NEW n, NEW s, UsedList(n, s), NEW o, InOrder(n, s, o), NEW M, Owned(n, s, M), Types,
         NEW h \in held, NEW i, Removes(n, s, i), entry[s[i]].address = h.address,
         \A j \in 1 .. n : entry[s[j]].address = h.address => i <= j,
         NEW u, NEW t, Taken(n, s) = Taken(u, t) \cup {s[i]}, s[i] \notin Taken(u, t),
         held' = held \ {h}
  PROVE  \E N \in [held' -> Taken(u, t)] : Owned(u, t, N)'
<1> DEFINE e == s[i]
<1>0. e \in Taken(n, s) /\ e \in Entries /\ Taken(n, s) \subseteq Entries /\ i \in 1 .. n /\ n \in Nat
  BY DEF UsedList, Removes, Taken
<1>1. /\ M \in [held -> Taken(n, s)]
      /\ \A g, k \in held : M[g] = M[k] => g = k
      /\ \A x \in Taken(n, s) : \E g \in held : M[g] = x
      /\ \A g \in held : entry[M[g]].address = g.address /\ g.size <= entry[M[g]].length
  BY DEF Owned
<1>2. ASSUME M[h] # e
      PROVE  entry[e].length = 0
  <2>1. M[h] \in Taken(n, s) /\ entry[M[h]].address = h.address
    BY <1>1
  <2>2. PICK j \in 1 .. n : s[j] = M[h]
    BY <2>1 DEF Taken
  <2>3. i < j
    BY <1>0, <1>2, <2>1, <2>2
  <2>4. /\ o[i] \in Nat /\ o[j] \in Nat /\ entry[e].length \in Nat /\ entry[s[j]].length \in Nat
        /\ entry[e].address = o[i] % W /\ entry[s[j]].address = o[j] % W
    <3>1. s[j] \in Entries
      BY <1>0, <2>1, <2>2
    <3>2. entry[e].length \in Nat /\ entry[s[j]].length \in Nat
      BY <1>0, <3>1 DEF Types
    <3> QED
      BY <1>0, <3>2 DEF InOrder
  <2>5. /\ o[i] + entry[e].length <= o[j]
        /\ o[j] + entry[s[j]].length <= o[i] + NumEntries * HeapSize
    BY <1>0, <2>3 DEF InOrder
  <2>6. NumEntries * HeapSize \in Nat /\ NumEntries * HeapSize < W /\ W \in Nat
    BY UsbHeapAssumption
  <2> DEFINE d == o[j] - o[i]
             H == NumEntries * HeapSize
  <2> HIDE DEF H, e
  <2>7. d \in 0 .. W - 1 /\ o[j] = o[i] + d /\ entry[e].length <= d
    <3>1. /\ o[j] + entry[s[j]].length <= o[i] + H /\ H \in Nat /\ H < W
      BY <2>5, <2>6 DEF H
    <3> QED
      BY <2>4, <2>5, <2>6, <3>1
  <2>8. o[j] % W = o[i] % W
    BY <2>1, <2>2, <2>4 DEF e
  <2> HIDE DEF d
  <2>9. o[j] % W = (o[i] % W) + d \/ o[j] % W = (o[i] % W) + d - W
    BY <2>4, <2>7, FurtherOn
  <2>10. o[i] % W \in 0 .. W - 1
    BY <2>4, ModType
  <2>11. d = 0
    BY <2>6, <2>7, <2>8, <2>9, <2>10
  <2> QED
    BY <2>4, <2>7, <2>11
<1>3. PICK N : N = [k \in held' |-> IF M[k] = e THEN M[h] ELSE M[k]]
  OBVIOUS
<1> HIDE DEF e
<1>4. \A k \in held' : k \in held /\ k # h /\ (N[k] = IF M[k] = e THEN M[h] ELSE M[k])
  BY <1>3
<1>5. \A k \in held' : N[k] \in Taken(u, t)
  <2> TAKE k \in held'
  <2>1. M[k] \in Taken(n, s) /\ M[h] \in Taken(n, s) /\ (M[k] = e => M[h] # e)
    BY <1>1, <1>4
  <2>2. N[k] \in Taken(n, s) /\ N[k] # e
    BY <1>4, <2>1
  <2> QED
    BY <2>2 DEF e
<1>6. N \in [held' -> Taken(u, t)]
  BY <1>3, <1>5
<1>7. ASSUME NEW g \in held', NEW k \in held', N[g] = N[k]
      PROVE  g = k
  BY <1>1, <1>4, <1>7
<1>8. ASSUME NEW x \in Taken(u, t)
      PROVE  \E k \in held' : N[k] = x
  <2>1. x \in Taken(n, s) /\ x # e
    BY DEF e
  <2>2. PICK k \in held : M[k] = x
    BY <1>1, <2>1
  <2>3. CASE k # h
    <3>1. k \in held'
      BY <2>3
    <3> QED
      BY <1>4, <2>1, <2>2, <3>1
  <2>4. CASE k = h
    <3>1. PICK g \in held : M[g] = e
      BY <1>0, <1>1
    <3>2. g \in held'
      BY <2>1, <2>2, <2>4, <3>1
    <3> QED
      BY <1>4, <2>2, <2>4, <3>1, <3>2
  <2> QED
    BY <2>3, <2>4
<1>9. \A x \in Entries : entry'[x].length = entry[x].length /\ entry'[x].address = entry[x].address
  BY DEF Removes
<1>10. ASSUME NEW k \in held'
       PROVE  entry'[N[k]].address = k.address /\ k.size <= entry'[N[k]].length
  <2>1. M[k] \in Entries /\ M[h] \in Entries /\ k \in held
    BY <1>0, <1>1, <1>4
  <2>2. CASE M[k] # e
    BY <1>1, <1>4, <1>9, <2>1, <2>2
  <2>3. CASE M[k] = e
    <3>1. M[h] # e /\ N[k] = M[h]
      BY <1>1, <1>4, <2>3
    <3>2. entry[e].length = 0 /\ entry[e].address = k.address /\ k.size <= entry[e].length
      BY <1>1, <1>2, <2>1, <2>3, <3>1
    <3>3. entry[e].address = h.address
      BY DEF e
    <3>4. entry'[M[h]].address = h.address /\ entry'[M[h]].length = entry[M[h]].length
          /\ entry[M[h]].length \in Nat
      BY <1>1, <1>9, <2>1 DEF Types
    <3>5. k.size \in Nat
      <4>1. k \in [address : Addr, size : Requests, copy : 1 .. NumEntries]
        BY <2>1 DEF Types
      <4>2. k.size \in Requests
        BY <4>1
      <4>3. Requests \subseteq Nat
        BY UsbHeapAssumption
      <4> QED
        BY <4>2, <4>3
    <3> QED
      BY <3>1, <3>2, <3>3, <3>4, <3>5
  <2> QED
    BY <2>2, <2>3
<1>11. Owned(u, t, N)'
  BY <1>6, <1>7, <1>8, <1>10 DEF Owned, Taken
<1> QED
  BY <1>6, <1>11

LEMMA DeallocateKeeps ==
  ASSUME HeapInv, NEW h \in held, MemoryDeallocate(h)
  PROVE  HeapInv'
<1>a. PICK n \in Nat : \E s \in [1 .. n -> Entries] : Described(n, s)
  BY DEF HeapInv
<1>1. PICK s \in [1 .. n -> Entries] : Described(n, s)
  BY <1>a
<1>2. /\ UsedList(n, s) /\ Types
      /\ \E o \in [1 .. n -> Nat] : InOrder(n, s, o)
      /\ \E q \in [0 .. n -> Nat] : Summed(n, s, q)
      /\ \E m \in Nat : \E r \in [0 .. m -> Entries \cup {End}] : GivenBack(n, s, m, r)
      /\ \E M \in [held -> Taken(n, s)] : Owned(n, s, M)
  BY <1>1 DEF Described, HeapInv
<1>3. PICK o \in [1 .. n -> Nat] : InOrder(n, s, o)
  BY <1>2
<1>4. PICK q \in [0 .. n -> Nat] : Summed(n, s, q)
  BY <1>2
<1>b. PICK m \in Nat : \E r \in [0 .. m -> Entries \cup {End}] : GivenBack(n, s, m, r)
  BY <1>2
<1>5. PICK r \in [0 .. m -> Entries \cup {End}] : GivenBack(n, s, m, r)
  BY <1>b
<1>6. PICK M \in [held -> Taken(n, s)] : Owned(n, s, M)
  BY <1>2
<1>7. Used = s /\ DOMAIN Used = 1 .. n
  BY <1>2, UsedIs
<1>8. PICK i \in UsedAt(h.address) :
        /\ \A j \in UsedAt(h.address) : i <= j
        /\ LET e == Used[i]
               unlinked == IF i = 1 THEN entry
                           ELSE [entry EXCEPT ![Used[i-1]].next = entry[e].next]
           IN
           /\ entry' = [unlinked EXCEPT ![e].next = firstFree]
           /\ firstAllocation' = IF i = 1 THEN entry[e].next ELSE firstAllocation
           /\ firstFree' = e
           /\ allocated' = allocated - entry[e].length
  BY DEF MemoryDeallocate
<1>9. held' = held \ {h}
  BY DEF MemoryDeallocate
<1>10. /\ i \in 1 .. n /\ entry[s[i]].address = h.address
       /\ \A j \in 1 .. n : entry[s[j]].address = h.address => i <= j
  BY <1>7, <1>8 DEF UsedAt
<1>11. PICK e : e = s[i]
  OBVIOUS
<1>12. e \in Entries /\ firstFree' = e /\ allocated' = allocated - entry[e].length
       /\ firstAllocation' = IF i = 1 THEN entry[e].next ELSE firstAllocation
  BY <1>7, <1>8, <1>10, <1>11
<1>13. PICK unlinked :
         /\ unlinked = IF i = 1 THEN entry ELSE [entry EXCEPT ![s[i-1]].next = entry[e].next]
         /\ entry' = [unlinked EXCEPT ![e].next = firstFree]
  BY <1>7, <1>8, <1>11
<1>14. DOMAIN entry = Entries /\ \A x \in Entries : entry[x] \in [length : 0 .. HeapSize, address : Addr, next : Links]
  BY <1>2 DEF Types
<1>15. entry[e].next \in Links /\ firstFree \in Links
  BY <1>2, <1>12, <1>14 DEF Types
<1>16. i # 1 => i - 1 \in 1 .. n /\ s[i - 1] \in Entries /\ s[i - 1] # e
  <2>1. i # 1 => i - 1 \in 1 .. n /\ i - 1 # i
    BY <1>10
  <2> QED
    BY <1>2, <1>10, <1>11, <2>1 DEF UsedList
<1>17. /\ DOMAIN unlinked = Entries
       /\ \A x \in Entries : unlinked[x] \in [length : 0 .. HeapSize, address : Addr, next : Links]
       /\ \A x \in Entries : unlinked[x].length = entry[x].length /\ unlinked[x].address = entry[x].address
       /\ i # 1 => unlinked[s[i - 1]].next = entry[e].next
       /\ \A x \in Entries : i = 1 \/ x # s[i - 1] => unlinked[x] = entry[x]
  <2> HIDE DEF Entries, Links, Addr
  <2>1. CASE i = 1
    <3>1. unlinked = entry
      BY <1>13, <2>1
    <3> QED
      BY <1>14, <2>1, <3>1
  <2>2. CASE i # 1
    <3>1. unlinked = [entry EXCEPT ![s[i-1]].next = entry[e].next]
      BY <1>13, <2>2
    <3>2. \A x \in Entries : x # s[i - 1] => unlinked[x] = entry[x]
      BY <1>14, <3>1
    <3>3. unlinked[s[i - 1]] = [entry[s[i - 1]] EXCEPT !.next = entry[e].next]
      BY <1>14, <1>16, <2>2, <3>1
    <3>4. entry[s[i - 1]] \in [length : 0 .. HeapSize, address : Addr, next : Links]
      BY <1>14, <1>16, <2>2
    <3>5. /\ unlinked[s[i - 1]] \in [length : 0 .. HeapSize, address : Addr, next : Links]
          /\ unlinked[s[i - 1]].length = entry[s[i - 1]].length
          /\ unlinked[s[i - 1]].address = entry[s[i - 1]].address
          /\ unlinked[s[i - 1]].next = entry[e].next
      BY <1>15, <3>3, <3>4
    <3>6. DOMAIN unlinked = Entries
      BY <1>14, <3>1
    <3>7. \A x \in Entries : unlinked[x] \in [length : 0 .. HeapSize, address : Addr, next : Links]
      BY <1>14, <3>2, <3>5
    <3>8. \A x \in Entries : unlinked[x].length = entry[x].length /\ unlinked[x].address = entry[x].address
      BY <3>2, <3>5
    <3> QED
      BY <2>2, <3>2, <3>5, <3>6, <3>7, <3>8
  <2> QED
    BY <2>1, <2>2
<1>18. /\ \A x \in Entries \ {e} : entry'[x] = unlinked[x]
       /\ entry'[e] = [unlinked[e] EXCEPT !.next = firstFree]
       /\ DOMAIN entry' = Entries
  BY <1>12, <1>13, <1>17
<1>19. /\ entry'[e] \in [length : 0 .. HeapSize, address : Addr, next : Links]
       /\ entry'[e].length = unlinked[e].length /\ entry'[e].address = unlinked[e].address
       /\ entry'[e].next = firstFree
  <2> HIDE DEF Entries, Links, Addr
  <2>1. unlinked[e] \in [length : 0 .. HeapSize, address : Addr, next : Links]
    BY <1>12, <1>17
  <2> QED
    BY <1>15, <1>18, <2>1
<1>20. Removes(n, s, i)
  <2>1. \A x \in Entries : entry'[x].length = entry[x].length /\ entry'[x].address = entry[x].address
    BY <1>12, <1>17, <1>18, <1>19
  <2>2. i # 1 => entry'[s[i - 1]].next = entry[s[i]].next
    BY <1>11, <1>16, <1>17, <1>18
  <2>3. \A x \in Entries \ {s[i]} : i = 1 \/ x # s[i - 1] => entry'[x].next = entry[x].next
    BY <1>11, <1>17, <1>18
  <2> QED
    BY <1>10, <1>11, <1>12, <1>19, <2>1, <2>2, <2>3 DEF Removes
<1> DEFINE u == n - 1
<1>21. PICK t : t = Without(s, n, i)
  OBVIOUS
<1>22. UsedList(u, t)' /\ Taken(n, s) = Taken(u, t) \cup {s[i]} /\ s[i] \notin Taken(u, t)
  <2>1. /\ UsedList(n - 1, Without(s, n, i))'
        /\ Taken(n, s) = Taken(n - 1, Without(s, n, i)) \cup {s[i]}
        /\ s[i] \notin Taken(n - 1, Without(s, n, i))
    BY <1>2, <1>20, ListRemoved
  <2>2. UsedList(u, t)'
    BY <1>21, <2>1
  <2> QED
    BY <1>21, <2>1, <2>2
<1>23. InOrder(u, t, Without(o, n, i))'
  BY <1>2, <1>3, <1>20, <1>21, OrderRemoved
<1>24. \E p \in [0 .. u -> Nat] : Summed(u, t, p)'
  BY <1>2, <1>4, <1>11, <1>12, <1>20, <1>21, SumRemoved
<1>25. \E k \in Nat : \E p \in [0 .. k -> Entries \cup {End}] : GivenBack(u, t, k, p)'
  <2>1. \A j \in 1 .. n : s[j] \in Entries
    OBVIOUS
  <2>2. i # 1 => s[i - 1] \in Taken(n, s)
    BY <1>16 DEF Taken
  <2> HIDE DEF u, Entries, End
  <2>3. firstFree' = s[i]
    BY <1>11, <1>12
  <2>4. Taken(n, s) = Taken(u, t) \cup {s[i]} /\ s[i] \notin Taken(u, t)
    BY <1>22
  <2>5. GivenBack(n, s, m, r)
    BY <1>5
  <2>6. \E k \in Nat : \E p \in [0 .. k -> Entries \cup {End}] : GivenBack(u, t, k, p)'
    BY <1>20, <2>1, <2>2, <2>3, <2>4, <2>5, FreshComes
  <2> QED
    BY <2>6 DEF u
<1>26. \E N \in [held' -> Taken(u, t)] : Owned(u, t, N)'
  <2> HIDE DEF u
  <2>1. UsedList(n, s) /\ Types
    BY <1>2
  <2>2. Taken(n, s) = Taken(u, t) \cup {s[i]} /\ s[i] \notin Taken(u, t)
    BY <1>22
  <2>3. entry[s[i]].address = h.address
    BY <1>10
  <2>4. \A j \in 1 .. n : entry[s[j]].address = h.address => i <= j
    BY <1>10
  <2>5. InOrder(n, s, o) /\ Owned(n, s, M)
    BY <1>3, <1>6
  <2>6. \E N \in [held' -> Taken(u, t)] : Owned(u, t, N)'
    BY <1>9, <1>20, <2>1, <2>2, <2>3, <2>4, <2>5, OwnerRemoved
  <2> QED
    BY <2>6 DEF u
<1> HIDE DEF u
<1>27. Entries' = Entries /\ End' = End /\ Links' = Links /\ Addr' = Addr
  BY DEF Entries, End, Null, Links, Addr
<1>28. u \in Nat /\ t \in [1 .. u -> Entries]
  BY <1>22, <1>27 DEF UsedList
<1>29. \E p \in [1 .. u -> Nat] : InOrder(u, t, p)'
  BY <1>23 DEF InOrder
<1>30. Described(u, t)'
  <2> HIDE DEF Entries, End
  <2>1. Taken(u, t)' = Taken(u, t)
    BY DEF Taken
  <2> QED
    BY <1>22, <1>24, <1>25, <1>26, <1>27, <1>29, <2>1 DEF Described
<1>31. Types'
  <2> HIDE DEF Entries, Links, Addr, End
  <2>1. \A x \in Entries : entry'[x] \in [length : 0 .. HeapSize, address : Addr, next : Links]
    BY <1>17, <1>18, <1>19
  <2>2. entry' = [x \in Entries |-> entry'[x]]
    <3>1. DOMAIN unlinked = Entries
      BY <1>17
    <3>2. entry' = [unlinked EXCEPT ![e].next = firstFree]
      BY <1>13
    <3> QED
      BY <3>1, <3>2
  <2>3. entry' \in [Entries -> [length : 0 .. HeapSize, address : Addr, next : Links]]
    BY <2>1, <2>2
  <2>4. firstFree' \in Links
    BY <1>12 DEF Links
  <2>5. held' \subseteq [address : Addr, size : Requests, copy : 1 .. NumEntries]
    BY <1>2, <1>9 DEF Types
  <2> QED
    BY <1>27, <2>3, <2>4, <2>5 DEF Types
<1> QED
  BY <1>27, <1>28, <1>30, <1>31 DEF HeapInv

-----------------------------------------------------------------------------
LEMMA InvariantFirst ==
  ASSUME Init
  PROVE  HeapInv
<1> DEFINE s == [j \in 1 .. 0 |-> 1]
           o == [j \in 1 .. 0 |-> 1]
           q == [j \in 0 .. 0 |-> 0]
           r == [j \in 0 .. 0 |-> 1]
           M == [j \in {} |-> 1]
<1>0. /\ NumEntries \in Nat \ {0} /\ Entries = 1 .. NumEntries /\ End = NumEntries + 1 /\ Null = 0
      /\ HeapSize \in Nat /\ W \in Nat \ {0}
  BY UsbHeapAssumption DEF Entries, End, Null
<1>1. /\ entry = [e \in Entries |-> [length |-> 0, address |-> 0, next |-> Null]]
      /\ firstAllocation = End /\ firstFree = Null /\ allocated = 0 /\ held = {}
  BY DEF Init
<1>2. 1 .. 0 = {} /\ 0 .. 0 = {0} /\ 0 .. 0 - 1 = {} /\ 1 \in Entries /\ 0 .. 0 + 1 = {0, 1}
  BY <1>0
<1>3. Taken(0, s) = {} /\ Fresh = 1
  BY <1>1, <1>2 DEF Taken, Fresh
<1>4. UsedList(0, s)
  BY <1>1, <1>2 DEF UsedList
<1>5. InOrder(0, s, o)
  BY <1>2 DEF InOrder
<1>6. Summed(0, s, q)
  BY <1>0, <1>1, <1>2 DEF Summed
<1>7. GivenBack(0, s, 0, r)
  <2>1. r[0] = 1 /\ r \in [0 .. 0 -> Entries \cup {End}]
    BY <1>2
  <2>2. \A e \in Entries : entry[e].next = Null /\ e >= 1
    BY <1>0, <1>1
  <2>3. \A e \in Entries : ~(e < 1)
    BY <1>0
  <2> HIDE DEF r, s
  <2> QED
    BY <1>2, <1>3, <2>1, <2>2, <2>3 DEF GivenBack
<1>8. Owned(0, s, M)
  BY <1>1, <1>3 DEF Owned
<1>9. Types
  <2>1. [length |-> 0, address |-> 0, next |-> Null] \in [length : 0 .. HeapSize, address : Addr, next : Links]
    BY <1>0 DEF Links, Addr
  <2>2. entry \in [Entries -> [length : 0 .. HeapSize, address : Addr, next : Links]]
    <3> HIDE DEF Entries, Links, Addr
    <3> QED
      BY <1>1, <2>1
  <2>3. firstFree \in Links
    BY <1>1 DEF Links
  <2> QED
    BY <1>1, <2>2, <2>3 DEF Types
<1>10. s \in [1 .. 0 -> Entries]
  BY <1>2
<1> HIDE DEF s, o, q, r, M
<1>11. /\ \E p \in [1 .. 0 -> Nat] : InOrder(0, s, p)
       /\ \E p \in [0 .. 0 -> Nat] : Summed(0, s, p)
       /\ \E N \in [held -> Taken(0, s)] : Owned(0, s, N)
  <2>1. o \in [1 .. 0 -> Nat]
    BY <1>5 DEF InOrder
  <2>2. q \in [0 .. 0 -> Nat]
    BY <1>6 DEF Summed
  <2>3. M \in [held -> Taken(0, s)]
    BY <1>8 DEF Owned
  <2> QED
    BY <1>5, <1>6, <1>8, <2>1, <2>2, <2>3
<1>12. \E m \in Nat : \E p \in [0 .. m -> Entries \cup {End}] : GivenBack(0, s, m, p)
  <2>1. r \in [0 .. 0 -> Entries \cup {End}]
    BY <1>7 DEF GivenBack
  <2> QED
    BY <1>7, <2>1
<1>13. Described(0, s)
  BY <1>4, <1>11, <1>12 DEF Described
<1>14. \E p \in [1 .. 0 -> Entries] : Described(0, p)
  BY <1>10, <1>13
<1> QED
  BY <1>9, <1>14 DEF HeapInv

LEMMA StepKeeps ==
  ASSUME HeapInv, [Next]_vars
  PROVE  HeapInv'
<1>1. CASE \E asked \in Requests : MemoryAllocate(asked)
  BY <1>1, AllocateKeeps
<1>2. CASE \E asked \in Requests : RefuseAllocate(asked)
  BY <1>2, RefuseKeeps
<1>3. CASE \E h \in held : MemoryDeallocate(h)
  BY <1>3, DeallocateKeeps
<1>4. CASE UNCHANGED vars
  <2>1. /\ entry' = entry /\ firstAllocation' = firstAllocation /\ firstFree' = firstFree
        /\ allocated' = allocated /\ held' = held
    BY <1>4 DEF vars
  <2>2. Entries' = Entries /\ End' = End /\ Null' = Null /\ Links' = Links /\ Addr' = Addr /\ Fresh' = Fresh
    BY <2>1 DEF Entries, End, Null, Links, Addr, Fresh
  <2>3. ASSUME NEW n, NEW s, Described(n, s)
        PROVE  Described(n, s)'
    <3>1. UsedList(n, s)' = UsedList(n, s) /\ Taken(n, s)' = Taken(n, s)
      BY <2>1, <2>2 DEF UsedList, Taken
    <3>2. \A o : InOrder(n, s, o)' = InOrder(n, s, o)
      BY <2>1 DEF InOrder
    <3>3. \A q : Summed(n, s, q)' = Summed(n, s, q)
      BY <2>1 DEF Summed
    <3>4. \A m, r : GivenBack(n, s, m, r)' = GivenBack(n, s, m, r)
      BY <2>1, <2>2, <3>1 DEF GivenBack
    <3>5. \A M : Owned(n, s, M)' = Owned(n, s, M)
      BY <2>1, <3>1 DEF Owned
    <3> QED
      BY <2>1, <2>2, <2>3, <3>1, <3>2, <3>3, <3>4, <3>5 DEF Described
  <2>4. Types'
    BY <2>1, <2>2 DEF HeapInv, Types
  <2> QED
    BY <2>2, <2>3, <2>4 DEF HeapInv
<1> QED
  BY <1>1, <1>2, <1>3, <1>4 DEF Next

-----------------------------------------------------------------------------
(* What the invariant says of the properties that the runs check.          *)
(* Of two places the later is less than W further on: taken modulo W they  *)
(* are as far apart, in one order or the other.                            *)
LEMMA Apart ==
  ASSUME NEW x \in Nat, NEW y \in Nat, NEW k \in Nat, NEW l \in Nat, NEW c \in Nat,
         c < W, x + k <= y, y + l <= x + c
  PROVE  (x % W) + k <= y % W \/ (y % W) + l <= x % W
<1>0. W \in Nat
  BY UsbHeapAssumption
<1>1. PICK d \in 0 .. W - 1 : y = x + d /\ k <= d /\ d + l <= c
  <2>1. y - x \in 0 .. W - 1 /\ y = x + (y - x) /\ k <= y - x /\ (y - x) + l <= c
    BY <1>0
  <2> QED
    BY <2>1
<1>2. y % W = (x % W) + d \/ y % W = (x % W) + d - W
  BY <1>1, FurtherOn
<1>3. PICK a \in Int : a = x % W
  BY ModType
<1>4. PICK b \in Int : b = y % W
  BY ModType
<1>5. b = a + d \/ b = a + d - W
  BY <1>2, <1>3, <1>4
<1>6. a + k <= b \/ b + l <= a
  BY <1>0, <1>1, <1>5
<1> QED
  BY <1>3, <1>4, <1>6

LEMMA InvariantDisjoint ==
  ASSUME HeapInv
  PROVE  CallersDisjoint
<1>a. PICK n \in Nat : \E s \in [1 .. n -> Entries] : Described(n, s)
  BY DEF HeapInv
<1>1. PICK s \in [1 .. n -> Entries] : Described(n, s)
  BY <1>a
<1>2. UsedList(n, s) /\ Types
  BY <1>1 DEF Described, HeapInv
<1>3. PICK o \in [1 .. n -> Nat] : InOrder(n, s, o)
  BY <1>1 DEF Described
<1>4. PICK M \in [held -> Taken(n, s)] : Owned(n, s, M)
  BY <1>1 DEF Described
<1>5. UsedEntries = Taken(n, s)
  BY <1>2, UsedIs DEF UsedEntries, Taken
<1>6. /\ \A g, k \in held : M[g] = M[k] => g = k
      /\ \A g \in held : /\ M[g] \in Taken(n, s) /\ M[g] \in Entries
                         /\ entry[M[g]].address = g.address /\ g.size <= entry[M[g]].length
                         /\ entry[M[g]].address \in Nat /\ entry[M[g]].length \in Nat
                         /\ g.size \in Nat
  <2>1. \A g \in held : M[g] \in Taken(n, s) /\ M[g] \in Entries
    BY <1>2 DEF UsedList, Taken
  <2>2. \A g \in held : entry[M[g]].address \in Nat /\ entry[M[g]].length \in Nat
    BY <1>2, <2>1 DEF Types, Addr
  <2>3. \A g \in held : g.size \in Requests
    BY <1>2 DEF Types
  <2>4. \A g \in held : g.size \in Nat
    <3>1. Requests \subseteq Nat
      BY UsbHeapAssumption
    <3> QED
      BY <2>3, <3>1
  <2> QED
    BY <1>4, <2>1, <2>2, <2>4 DEF Owned
<1>7. ASSUME NEW i \in 1 .. n, NEW j \in 1 .. n, i < j
      PROVE  \/ entry[s[i]].address + entry[s[i]].length <= entry[s[j]].address
             \/ entry[s[j]].address + entry[s[j]].length <= entry[s[i]].address
  <2>1. /\ o[i] \in Nat /\ o[j] \in Nat
        /\ entry[s[i]].address = o[i] % W /\ entry[s[j]].address = o[j] % W
    BY <1>3 DEF InOrder
  <2>2. /\ o[i] + entry[s[i]].length <= o[j]
        /\ o[j] + entry[s[j]].length <= o[i] + NumEntries * HeapSize
    BY <1>3, <1>7 DEF InOrder
  <2>3. /\ entry[s[i]].length \in Nat /\ entry[s[j]].length \in Nat
        /\ entry[s[i]].address \in Nat /\ entry[s[j]].address \in Nat
    <3>1. s[i] \in Entries /\ s[j] \in Entries
      OBVIOUS
    <3> QED
      BY <1>2, <3>1 DEF Types, Addr
  <2>4. PICK c \in Nat : c = NumEntries * HeapSize /\ c < W
    BY UsbHeapAssumption
  <2>5. o[j] + entry[s[j]].length <= o[i] + c
    BY <2>2, <2>4
  <2>6. \/ (o[i] % W) + entry[s[i]].length <= o[j] % W
        \/ (o[j] % W) + entry[s[j]].length <= o[i] % W
    BY <2>1, <2>2, <2>3, <2>4, <2>5, Apart
  <2> QED
    BY <2>1, <2>6
<1>8. ASSUME NEW g \in held, NEW k \in held, g # k
      PROVE  g.address + g.size <= k.address \/ k.address + k.size <= g.address
  <2>1. PICK i \in 1 .. n : s[i] = M[g]
    BY <1>6 DEF Taken
  <2>2. PICK j \in 1 .. n : s[j] = M[k]
    BY <1>6 DEF Taken
  <2>3. i < j \/ j < i
    BY <1>6, <1>8, <2>1, <2>2
  <2>4. \/ entry[M[g]].address + entry[M[g]].length <= entry[M[k]].address
        \/ entry[M[k]].address + entry[M[k]].length <= entry[M[g]].address
    BY <1>7, <2>1, <2>2, <2>3
  <2>5. /\ g.address = entry[M[g]].address /\ g.size <= entry[M[g]].length
        /\ k.address = entry[M[k]].address /\ k.size <= entry[M[k]].length
        /\ g.address \in Nat /\ k.address \in Nat /\ g.size \in Nat /\ k.size \in Nat
        /\ entry[M[g]].length \in Nat /\ entry[M[k]].length \in Nat
    BY <1>6
  <2>6. \A a, b, c, d \in Nat : b <= c /\ a + c <= d => a + b <= d
    OBVIOUS
  <2>7. ASSUME entry[M[g]].address + entry[M[g]].length <= entry[M[k]].address
        PROVE  g.address + g.size <= k.address
    BY <2>5, <2>6, <2>7
  <2>8. ASSUME entry[M[k]].address + entry[M[k]].length <= entry[M[g]].address
        PROVE  k.address + k.size <= g.address
    BY <2>5, <2>6, <2>8
  <2> QED
    BY <2>4, <2>7, <2>8
<1>9. ASSUME NEW g \in held
      PROVE  \E e \in UsedEntries : /\ entry[e].address <= g.address
                                    /\ g.address + g.size <= entry[e].address + entry[e].length
  <2>1. M[g] \in UsedEntries
    BY <1>5, <1>6
  <2>2. entry[M[g]].address <= g.address /\ g.address + g.size <= entry[M[g]].address + entry[M[g]].length
    BY <1>6
  <2> QED
    BY <2>1, <2>2
<1> QED
  BY <1>8, <1>9 DEF CallersDisjoint

LEMMA InvariantPartition ==
  ASSUME HeapInv
  PROVE  EntriesPartition
<1>a. PICK n \in Nat : \E s \in [1 .. n -> Entries] : Described(n, s)
  BY DEF HeapInv
<1>1. PICK s \in [1 .. n -> Entries] : Described(n, s)
  BY <1>a
<1>2. UsedList(n, s)
  BY <1>1 DEF Described
<1>b. PICK m \in Nat : \E r \in [0 .. m -> Entries \cup {End}] : GivenBack(n, s, m, r)
  BY <1>1 DEF Described
<1>3. PICK r \in [0 .. m -> Entries \cup {End}] : GivenBack(n, s, m, r)
  BY <1>b
<1>4. UsedEntries = Taken(n, s) /\ Taken(n, s) \subseteq Entries
  BY <1>2, UsedIs DEF UsedEntries, Taken
<1>5. /\ NumEntries \in Nat \ {0} /\ Entries = 1 .. NumEntries /\ End = NumEntries + 1 /\ Null = 0
  BY UsbHeapAssumption DEF Entries, End, Null
<1>6. /\ \A j \in 0 .. m - 1 : r[j] < r[m] /\ r[j] \notin Taken(n, s) /\ entry[r[j]].next = r[j + 1]
      /\ \A j, h \in 0 .. m - 1 : r[j] = r[h] => j = h
      /\ \A x \in Entries : x >= r[m] => entry[x].next = Null /\ x \notin Taken(n, s)
      /\ \A x \in Entries : x < r[m] => x \in Taken(n, s) \/ \E j \in 0 .. m - 1 : r[j] = x
      /\ r[0] = Fresh /\ (firstFree = Null => m = 0)
  BY <1>3 DEF GivenBack
<1>7. \A j \in 0 .. m : r[j] \in 1 .. NumEntries + 1
  BY <1>5
<1>8. PICK untouched :
        untouched = IF firstFree = Null THEN Entries
                    ELSE {e \in Entries : entry[e].next = Null /\ e \notin UsedEntries}
  OBVIOUS
<1>9. CASE firstFree = Null
  <2>1. m = 0 /\ r[m] = 1
    BY <1>6, <1>9 DEF Fresh
  <2>2. Taken(n, s) = {}
    BY <1>4, <1>5, <1>6, <2>1
  <2>3. FreeEntries = {}
    <3> DEFINE z == [j \in 1 .. 0 |-> 1]
    <3>1. firstFree \notin Entries /\ 0 \in 0 .. NumEntries /\ 1 .. 0 = {} /\ 1 .. 0 - 1 = {}
      BY <1>5, <1>9
    <3>2. z \in [1 .. 0 -> Entries]
      BY <3>1
    <3>3. ListFrom(firstFree) = z
      <4>1. \A j \in 1 .. 0 - 1 : entry[z[j]].next = z[j + 1]
        BY <3>1
      <4>2. 0 = 0 => firstFree \notin Entries
        BY <3>1
      <4>3. 0 > 0 => firstFree = z[1] /\ entry[z[0]].next \notin Entries
        OBVIOUS
      <4> HIDE DEF z, Entries
      <4> QED
        BY <3>1, <3>2, <4>1, <4>2, <4>3, ListFromIs
    <3>4. DOMAIN z = {}
      BY <3>1
    <3> HIDE DEF z
    <3> QED
      BY <3>3, <3>4 DEF FreeEntries
  <2>4. untouched = Entries
    BY <1>8, <1>9
  <2> QED
    BY <1>4, <1>8, <1>9, <2>2, <2>3, <2>4 DEF EntriesPartition
<1>10. CASE firstFree # Null
  <2>0. firstFree = r[0]
    BY <1>6, <1>10 DEF Fresh
  <2> DEFINE c == IF r[m] = End THEN m ELSE m + 1
  <2>1. PICK z : z = [j \in 1 .. c |-> r[j - 1]]
    OBVIOUS
  <2>2. c \in Nat /\ ((c = m /\ r[m] = End) \/ (c = m + 1 /\ r[m] \in Entries))
    BY <1>5, <1>7
  <2>3. \A j \in 1 .. c : /\ j - 1 \in 0 .. m /\ z[j] = r[j - 1]
                          /\ (j - 1 \in 0 .. m - 1 \/ (j - 1 = m /\ r[m] \in Entries))
    BY <2>1, <2>2
  <2>c. c \in Nat
    OBVIOUS
  <2> HIDE DEF c
  <2>4. \A j \in 1 .. c : z[j] \in Entries
    <3> TAKE j \in 1 .. c
    <3>1. CASE j - 1 \in 0 .. m - 1
      <4>1. r[j - 1] < r[m] /\ r[j - 1] \in 1 .. NumEntries + 1 /\ r[m] \in 1 .. NumEntries + 1
        BY <1>6, <1>7, <3>1
      <4> QED
        BY <1>5, <2>3, <4>1
    <3>2. CASE j - 1 = m /\ r[m] \in Entries
      BY <2>3, <3>2
    <3> QED
      BY <2>3, <3>1, <3>2
  <2>5. z \in [1 .. c -> Entries]
    BY <2>1, <2>4
  <2>6. ASSUME NEW j \in 1 .. c, NEW k \in 1 .. c, z[j] = z[k]
        PROVE  j = k
    <3>1. CASE j - 1 \in 0 .. m - 1 /\ k - 1 \in 0 .. m - 1
      <4>1. j - 1 = k - 1
        BY <1>6, <2>3, <2>6, <3>1
      <4> QED
        BY <2>c, <4>1
    <3>2. CASE j - 1 = m /\ k - 1 = m
      BY <2>c, <3>2
    <3>3. CASE j - 1 \in 0 .. m - 1 /\ k - 1 = m
      <4>1. r[j - 1] < r[m] /\ r[j - 1] = r[m] /\ r[m] \in Int
        BY <1>6, <1>7, <2>3, <2>6, <3>3
      <4> QED
        BY <4>1
    <3>4. CASE k - 1 \in 0 .. m - 1 /\ j - 1 = m
      <4>1. r[k - 1] < r[m] /\ r[k - 1] = r[m] /\ r[m] \in Int
        BY <1>6, <1>7, <2>3, <2>6, <3>4
      <4> QED
        BY <4>1
    <3> QED
      BY <2>3, <3>1, <3>2, <3>3, <3>4
  <2>7. c <= NumEntries
    BY <2>c, <2>5, <2>6, ListFits
  <2>8. c = 0 => firstFree \notin Entries
    BY <1>5, <2>0, <2>2
  <2>9. c > 0 => firstFree = z[1] /\ entry[z[c]].next \notin Entries
    <3>1. SUFFICES ASSUME c > 0 PROVE firstFree = z[1] /\ entry[z[c]].next \notin Entries
      OBVIOUS
    <3>2. 1 \in 1 .. c /\ c \in 1 .. c
      BY <2>c, <3>1
    <3>3. firstFree = z[1] /\ z[c] = r[c - 1]
      BY <2>0, <2>3, <3>2
    <3>4. CASE r[m] = End /\ c = m
      <4>1. c - 1 \in 0 .. m - 1 /\ (c - 1) + 1 = m
        BY <3>1, <3>4
      <4>2. entry[r[c - 1]].next = r[m]
        BY <1>6, <4>1
      <4> QED
        BY <1>5, <3>3, <3>4, <4>2
    <3>5. CASE r[m] \in Entries /\ c = m + 1
      <4>1. c - 1 = m /\ r[m] >= r[m]
        BY <1>7, <3>5
      <4>2. entry[r[m]].next = Null
        BY <1>6, <3>5, <4>1
      <4> QED
        BY <1>5, <3>3, <4>1, <4>2
    <3> QED
      BY <2>2, <3>3, <3>4, <3>5
  <2>10. \A j \in 1 .. c - 1 : entry[z[j]].next = z[j + 1]
    <3> TAKE j \in 1 .. c - 1
    <3>1. j \in 1 .. c /\ j + 1 \in 1 .. c /\ (j + 1) - 1 = j /\ j - 1 \in 0 .. m - 1 /\ (j - 1) + 1 = j
      BY <2>2, <2>c
    <3>2. z[j] = r[j - 1] /\ z[j + 1] = r[j]
      BY <2>3, <3>1
    <3>3. entry[r[j - 1]].next = r[(j - 1) + 1]
      BY <1>6, <3>1
    <3> QED
      BY <3>1, <3>2, <3>3
  <2>11. ListFrom(firstFree) = z
    <3>1. c \in 0 .. NumEntries
      BY <1>5, <2>c, <2>7
    <3> HIDE DEF Entries
    <3> QED
      BY <2>5, <2>8, <2>9, <2>10, <3>1, ListFromIs
  <2>12. FreeEntries = {z[j] : j \in 1 .. c}
    BY <2>1, <2>11 DEF FreeEntries
  <2>13. untouched = {e \in Entries : entry[e].next = Null /\ e \notin Taken(n, s)}
    BY <1>4, <1>8, <1>10
  <2>14. \A e \in FreeEntries : e \in Entries /\ e \notin Taken(n, s)
    <3> TAKE e \in FreeEntries
    <3>1. PICK j \in 1 .. c : z[j] = e
      BY <2>12
    <3>2. e \in Entries /\ e = r[j - 1]
      BY <2>3, <2>4, <3>1
    <3>3. CASE j - 1 \in 0 .. m - 1
      BY <1>6, <3>2, <3>3
    <3>4. CASE j - 1 = m
      <4>1. e >= r[m]
        BY <1>7, <3>2, <3>4
      <4> QED
        BY <1>6, <3>2, <4>1
    <3> QED
      BY <2>3, <3>3, <3>4
  <2>15. \A e \in Entries : e \in Taken(n, s) \/ e \in FreeEntries \/ e \in untouched
    <3> TAKE e \in Entries
    <3>1. CASE e >= r[m]
      BY <1>6, <2>13, <3>1
    <3>2. CASE e < r[m] /\ e \notin Taken(n, s)
      <4>1. PICK j \in 0 .. m - 1 : r[j] = e
        BY <1>6, <3>2
      <4>2. j + 1 \in 1 .. c /\ (j + 1) - 1 = j
        BY <2>2, <2>c, <4>1
      <4>3. z[j + 1] = e
        BY <2>3, <4>1, <4>2
      <4> QED
        BY <2>12, <4>2, <4>3
    <3> QED
      BY <1>5, <1>7, <3>1, <3>2
  <2>16. /\ UsedEntries \cap (FreeEntries \cup untouched) = {}
         /\ UsedEntries \cup FreeEntries \cup untouched = Entries
    BY <1>4, <2>13, <2>14, <2>15
  <2> QED
    BY <1>8, <2>16 DEF EntriesPartition
<1> QED
  BY <1>9, <1>10

LEMMA InvariantCounts ==
  ASSUME HeapInv
  PROVE  CountsAgree
<1>a. PICK n \in Nat : \E s \in [1 .. n -> Entries] : Described(n, s)
  BY DEF HeapInv
<1>1. PICK s \in [1 .. n -> Entries] : Described(n, s)
  BY <1>a
<1>2. UsedList(n, s)
  BY <1>1 DEF Described
<1>3. PICK q \in [0 .. n -> Nat] : Summed(n, s, q)
  BY <1>1 DEF Described
<1>4. PICK M \in [held -> Taken(n, s)] : Owned(n, s, M)
  BY <1>1 DEF Described
<1>5. Used = s /\ Len(Used) = n /\ UsedEntries = Taken(n, s)
  BY <1>2, UsedIs DEF UsedEntries, Taken
<1>6. Cardinality(UsedEntries) = Cardinality(held)
  <2>1. IsFiniteSet(Entries) /\ Taken(n, s) \in SUBSET Entries
    <3>1. IsFiniteSet(Entries)
      BY NoEntry, FS_Interval DEF Entries
    <3>2. \A e \in Taken(n, s) : e \in Entries
      <4> HIDE DEF Entries
      <4> QED
        BY DEF Taken
    <3> HIDE DEF Entries
    <3> QED
      BY <3>1, <3>2
  <2>2. IsFiniteSet(Taken(n, s))
    BY <2>1, FS_Subset
  <2>3. M \in Injection(held, Taken(n, s)) /\ M \in Surjection(held, Taken(n, s))
    BY <1>4 DEF Owned, Injection, IsInjective, Surjection
  <2>4. Cardinality(held) = Cardinality(Taken(n, s))
    BY <2>2, <2>3, FS_Injection
  <2> QED
    BY <1>5, <2>4
<1> DEFINE G(f) == [i \in 0 .. Len(Used) |-> IF i = 0 THEN 0 ELSE f[i-1] + entry[Used[i]].length]
<1>7. q = G(q)
  <2>1. \A i \in 0 .. n : q[i] = IF i = 0 THEN 0 ELSE q[i-1] + entry[s[i]].length
    BY <1>3 DEF Summed
  <2>2. q = [i \in 0 .. n |-> q[i]]
    OBVIOUS
  <2> QED
    BY <1>5, <2>1, <2>2
<1>8. ASSUME NEW f, f = G(f)
      PROVE  f = q
  <2>1. f = [i \in 0 .. n |-> f[i]] /\ q = [i \in 0 .. n |-> q[i]]
    BY <1>5, <1>8
  <2>2. /\ \A i \in 0 .. n : f[i] = IF i = 0 THEN 0 ELSE f[i-1] + entry[s[i]].length
        /\ \A i \in 0 .. n : q[i] = IF i = 0 THEN 0 ELSE q[i-1] + entry[s[i]].length
    BY <1>5, <1>7, <1>8
  <2> DEFINE Differ == {i \in 0 .. n : f[i] # q[i]}
  <2>3. ASSUME Differ # {} PROVE FALSE
    <3>0. Differ \in SUBSET Nat
      OBVIOUS
    <3>1. PICK i \in Differ : \A j \in Differ : i <= j
      BY <2>3, <3>0, LeastNatural
    <3>2. i \in 0 .. n /\ f[i] # q[i] /\ i # 0
      BY <2>2, <3>1
    <3>3. i - 1 \in 0 .. n /\ f[i-1] = q[i-1]
      BY <3>1, <3>2
    <3> QED
      BY <2>2, <3>2, <3>3
  <2>4. \A i \in 0 .. n : f[i] = q[i]
    BY <2>3
  <2> QED
    BY <2>1, <2>4
<1> DEFINE sum == CHOOSE f : f = G(f)
<1>9. sum = q
  BY <1>7, <1>8
<1>10. CountsAgree <=> /\ Cardinality(UsedEntries) = Cardinality(held)
                       /\ allocated = sum[Len(Used)]
  BY DEF CountsAgree
<1> HIDE DEF sum
<1> QED
  BY <1>3, <1>5, <1>6, <1>9, <1>10 DEF Summed

LEMMA InvariantTypes ==
  ASSUME HeapInv
  PROVE  TypeOK
<1>a. PICK n \in Nat : \E s \in [1 .. n -> Entries] : Described(n, s)
  BY DEF HeapInv
<1>1. PICK s \in [1 .. n -> Entries] : Described(n, s)
  BY <1>a
<1>2. PICK q \in [0 .. n -> Nat] : Summed(n, s, q)
  BY <1>1 DEF Described
<1>3. allocated \in 0 .. HeapSize
  <2>1. allocated = q[n] /\ allocated <= HeapSize /\ n \in 0 .. n /\ HeapSize \in Nat
    BY <1>2, UsbHeapAssumption DEF Summed
  <2> QED
    BY <2>1
<1>4. firstAllocation \in Links \ {Null}
  <2>1. firstAllocation = IF n = 0 THEN End ELSE s[1]
    BY <1>1 DEF Described, UsedList
  <2>2. n # 0 => s[1] \in Entries
    OBVIOUS
  <2>3. Null \notin Entries /\ Null # End
    BY NoEntry DEF Null, End
  <2> HIDE DEF Entries, End, Null
  <2> QED
    BY <2>1, <2>2, <2>3 DEF Links
<1> QED
  BY <1>3, <1>4 DEF HeapInv, Types, TypeOK

LEMMA InvariantHolds == Spec => []HeapInv
<1>1. Init => HeapInv
  BY InvariantFirst
<1>2. HeapInv /\ [Next]_vars => HeapInv'
  BY StepKeeps
<1> QED
  BY <1>1, <1>2, PTL DEF Spec

(* No two callers of MemoryAllocate share a byte, and each one's bytes are *)
(* in an entry in use, although MemoryDeallocate may give back another's   *)
(* entry and the end of the heap bounds no allocation behind the last.     *)
THEOREM CallersAreDisjoint == Spec => []CallersDisjoint
<1>1. HeapInv => CallersDisjoint
  BY InvariantDisjoint
<1> QED
  BY <1>1, InvariantHolds, PTL

(* The lists that MemoryAllocate and MemoryDeallocate keep share out the   *)
(* table's entries and lose none, and the count of bytes is that of the    *)
(* entries in use, of which there is one for each caller.                  *)
THEOREM TableIsSound == Spec => []TableSound
<1>1. HeapInv => TableSound
  BY InvariantTypes, InvariantPartition, InvariantCounts DEF TableSound
<1> QED
  BY <1>1, InvariantHolds, PTL
=============================================================================
