---------------------------- MODULE TuaMapProofs -----------------------------
(***************************************************************************)
(* Proofs about TuaMap, for any keys, any hash and any strings, and for a   *)
(* table of any size: every probe ends at its key, references balance, and  *)
(* the table answers as a dictionary.                                       *)
(*                                                                         *)
(* A table is one of c slots, and a tally counts the slots of a table that  *)
(* hold one of some entries: the fields of the map and the references it    *)
(* holds are tallies, and a tally survives a rehash.                        *)
(***************************************************************************)
EXTENDS TuaMap, FiniteSetTheorems, WellFoundedInduction, TLAPS

Full == [kind : {"full"}, key : IntKeys \cup Strs, val : Strs \cup {Nil}]
Slot == Full \cup {Empty, Tombstone}

IsTable(f, c) == c \in Nat /\ f \in [0..(c - 1) -> Slot]
Stopping(e, k) == e.kind = "empty" \/ Holds(e, k)
Keyed(f, k) == {i \in DOMAIN f : Holds(f[i], k)}

(* Each entry is where the probe for its key arrives.                       *)
Arrives(f) == \A i \in DOMAIN f : f[i].kind = "full" =>
  Stops(f, KeyOf(f[i].key)) # {} /\ i = FindSlot(f, KeyOf(f[i].key))

Tally(f, E) == Cardinality({i \in DOMAIN f : f[i] \in E})
-----------------------------------------------------------------------------
(* Numbers.                                                                 *)
LEMMA LeastNatural ==
  ASSUME NEW T, T \subseteq Nat, T # {}
  PROVE  \E x \in T : \A y \in T : x <= y
<1> DEFINE R == OpToRel(<, Nat)
<1>1. IsWellFoundedOn(R, Nat)
  BY NatLessThanWellFounded
<1>2. \A x, y \in Nat : y < x => <<y, x>> \in R
  BY DEF OpToRel
<1> HIDE DEF R
<1>3. PICK x \in T : \A y \in T : ~(<<y, x>> \in R)
  BY <1>1, WFMin
<1>4. \A y \in T : ~(y < x)
  BY <1>2, <1>3
<1> QED
  BY <1>4

LEMMA MinFacts ==
  ASSUME NEW T, T \subseteq Nat, T # {}
  PROVE  Min(T) \in T /\ \A y \in T : Min(T) <= y
BY LeastNatural DEF Min

LEMMA Wraps ==
  ASSUME NEW q \in Nat, NEW c \in Nat, c > 0, NEW i \in 0..(c - 1)
  PROVE  (q * c + i) % c = i
OBVIOUS

LEMMA Remainder ==
  ASSUME NEW h \in Nat, NEW c \in Nat, c > 0
  PROVE  h % c \in 0..(c - 1) /\ \E q \in Nat : h = q * c + (h % c)
<1>1. h % c \in 0..(c - 1)
  OBVIOUS
<1>2. \E q \in Nat : h = q * c + (h % c)
  OBVIOUS
<1> QED
  BY <1>1, <1>2

(* From any home, c steps visit every slot.                                 *)
LEMMA VisitsAll ==
  ASSUME NEW h \in Nat, NEW c \in Nat, c > 0, NEW i \in 0..(c - 1)
  PROVE  \E n \in 0..(c - 1) : (h + n) % c = i
<1> DEFINE r == h % c
<1>1. r \in 0..(c - 1) /\ \E q \in Nat : h = q * c + r
  BY Remainder
<1>2. PICK q \in Nat : h = q * c + r
  BY <1>1
<1> HIDE DEF r
<1>3. CASE r <= i
  <2>1. i - r \in 0..(c - 1) /\ h + (i - r) = q * c + i
    BY <1>1, <1>2, <1>3
  <2>2. (h + (i - r)) % c = i
    BY <2>1, Wraps
  <2> QED
    BY <2>1, <2>2
<1>4. CASE r > i
  <2>1. i - r + c \in 0..(c - 1)
    BY <1>1, <1>4
  <2>2. (q + 1) * c = q * c + c /\ q + 1 \in Nat /\ q * c \in Nat
    OBVIOUS
  <2>3. h + (i - r + c) = (q + 1) * c + i
    BY <1>1, <1>2, <2>2
  <2>4. (h + (i - r + c)) % c = i
    BY <2>2, <2>3, Wraps
  <2> QED
    BY <2>1, <2>4
<1> QED
  BY <1>1, <1>3, <1>4
-----------------------------------------------------------------------------
(* Probes.                                                                  *)
LEMMA TableFacts ==
  ASSUME NEW c, NEW f, IsTable(f, c)
  PROVE  /\ DOMAIN f = 0..(c - 1) /\ Capacity(f) = c /\ c \in Nat
         /\ \A i \in DOMAIN f : f[i] \in Slot /\ (f[i].kind = "full" <=> f[i] \in Full)
<1>1. DOMAIN f = 0..(c - 1) /\ c \in Nat /\ \A i \in DOMAIN f : f[i] \in Slot
  BY DEF IsTable
<1>2. Capacity(f) = c
  BY <1>1, FS_Interval DEF Capacity
<1>3. \A e \in Slot : e.kind = "full" <=> e \in Full
  BY DEF Slot, Full, Empty, Tombstone
<1> QED
  BY <1>1, <1>2, <1>3

LEMMA ProbeFacts ==
  ASSUME NEW c, NEW f, IsTable(f, c), c > 0, NEW k \in Keys
  PROVE  /\ \A n \in Nat : Probe(f, k, n) \in 0..(c - 1) /\ Probe(f, k, n) = (Hash[k] + n) % c
         /\ \A i \in 0..(c - 1) : \E n \in 0..(c - 1) : Probe(f, k, n) = i
         /\ Stops(f, k) \subseteq Nat
         /\ Stops(f, k) = {n \in 0..(c - 1) : Stopping(f[Probe(f, k, n)], k)}
<1>1. Capacity(f) = c /\ c \in Nat /\ Hash[k] \in Nat
  BY TableFacts, MapAssumption
<1>2. ASSUME NEW n \in Nat
      PROVE  Probe(f, k, n) \in 0..(c - 1) /\ Probe(f, k, n) = (Hash[k] + n) % c
  <2>1. (Hash[k] + n) % c \in 0..(c - 1)
    BY <1>1, Remainder
  <2> QED
    BY <1>1, <2>1 DEF Probe
<1>3. ASSUME NEW i \in 0..(c - 1)
      PROVE  \E n \in 0..(c - 1) : Probe(f, k, n) = i
  <2>1. PICK n \in 0..(c - 1) : (Hash[k] + n) % c = i
    BY <1>1, VisitsAll
  <2> QED
    BY <1>1, <1>2, <2>1
<1>4. Stops(f, k) = {n \in 0..(c - 1) : Stopping(f[Probe(f, k, n)], k)}
  BY <1>1 DEF Stops, Stopping
<1> QED
  BY <1>1, <1>2, <1>3, <1>4

(* A probe ends when there is anything to end it.                           *)
LEMMA SomeStop ==
  ASSUME NEW c, NEW f, IsTable(f, c), c > 0, NEW k \in Keys, NEW i \in DOMAIN f, Stopping(f[i], k)
  PROVE  Stops(f, k) # {}
<1>1. i \in 0..(c - 1)
  BY TableFacts
<1>2. PICK n \in 0..(c - 1) : Probe(f, k, n) = i
  BY <1>1, ProbeFacts
<1> QED
  BY <1>2, ProbeFacts

(* It ends at the first slot that ends it.                                  *)
LEMMA FindFacts ==
  ASSUME NEW c, NEW f, IsTable(f, c), c > 0, NEW k \in Keys, Stops(f, k) # {}
  PROVE  \E m \in 0..(c - 1) : /\ m = Min(Stops(f, k))
                               /\ FindSlot(f, k) = Probe(f, k, m) /\ FindSlot(f, k) \in DOMAIN f
                               /\ Stopping(f[FindSlot(f, k)], k)
                               /\ \A n \in 0..(m - 1) : ~Stopping(f[Probe(f, k, n)], k)
<1> DEFINE m == Min(Stops(f, k))
<1>1. Stops(f, k) = {n \in 0..(c - 1) : Stopping(f[Probe(f, k, n)], k)} /\ Stops(f, k) \subseteq Nat
  BY ProbeFacts
<1>2. m \in Stops(f, k) /\ \A n \in Stops(f, k) : m <= n
  BY <1>1, MinFacts
<1>3. c \in Nat /\ DOMAIN f = 0..(c - 1)
  BY TableFacts
<1> HIDE DEF m
<1>4. m \in 0..(c - 1) /\ Stopping(f[Probe(f, k, m)], k)
  BY <1>1, <1>2
<1>5. Probe(f, k, m) \in DOMAIN f
  BY <1>3, <1>4, ProbeFacts
<1>6. ASSUME NEW n \in 0..(m - 1) PROVE ~Stopping(f[Probe(f, k, n)], k)
  <2>1. n \in 0..(c - 1) /\ ~(m <= n)
    BY <1>3, <1>4
  <2> QED
    BY <1>1, <1>2, <2>1
<1>7. FindSlot(f, k) = Probe(f, k, m)
  BY DEF FindSlot, m
<1> QED
  BY <1>4, <1>5, <1>6, <1>7 DEF m

(* It arrives at a slot when it holds the key and no other slot on the way  *)
(* ends the probe.                                                          *)
LEMMA Arrival ==
  ASSUME NEW c, NEW g, IsTable(g, c), c > 0, NEW k \in Keys, NEW m \in 0..(c - 1),
         Holds(g[Probe(g, k, m)], k),
         \A n \in 0..(m - 1) : Stopping(g[Probe(g, k, n)], k) => Probe(g, k, n) = Probe(g, k, m)
  PROVE  Stops(g, k) # {} /\ FindSlot(g, k) = Probe(g, k, m)
<1>1. Stops(g, k) = {n \in 0..(c - 1) : Stopping(g[Probe(g, k, n)], k)} /\ Stops(g, k) \subseteq Nat /\ c \in Nat
  <2>1. c \in Nat
    BY DEF IsTable
  <2> QED
    BY <2>1, ProbeFacts
<1>2. m \in Stops(g, k)
  BY <1>1 DEF Stopping
<1> DEFINE x == Min(Stops(g, k))
<1>3. x \in Stops(g, k) /\ x <= m
  BY <1>1, <1>2, MinFacts
<1> HIDE DEF x
<1>4. x \in 0..(c - 1) /\ Stopping(g[Probe(g, k, x)], k)
  BY <1>1, <1>3
<1>5. Probe(g, k, x) = Probe(g, k, m)
  <2>1. CASE x = m
    BY <2>1
  <2>2. CASE x # m
    <3>1. x \in 0..(m - 1)
      BY <1>1, <1>3, <1>4, <2>2
    <3> QED
      BY <1>4, <3>1
  <2> QED
    BY <2>1, <2>2
<1> QED
  BY <1>2, <1>5 DEF FindSlot, x

LEMMA KeyFacts ==
  /\ \A a \in IntKeys \cup Strs : KeyOf(a) \in Keys
  /\ \A e \in Full : e.kind = "full" /\ e.key \in IntKeys \cup Strs /\ e.val \in Strs \cup {Nil} /\ KeyOf(e.key) \in Keys
  /\ \A e \in Slot, k \in Keys : Holds(e, k) <=> e \in Full /\ KeyOf(e.key) = k
  /\ Empty \notin Full /\ Tombstone \notin Full /\ Empty # Tombstone
<1>1. \A a \in IntKeys \cup Strs : KeyOf(a) \in Keys
  BY DEF KeyOf, Keys
<1>2. \A e \in Full : e.kind = "full" /\ e.key \in IntKeys \cup Strs /\ e.val \in Strs \cup {Nil}
  BY DEF Full
<1>3. Empty \notin Full /\ Tombstone \notin Full /\ Empty # Tombstone
  BY DEF Full, Empty, Tombstone
<1>4. \A e \in Slot : e.kind = "full" <=> e \in Full
  BY DEF Slot, Full, Empty, Tombstone
<1> QED
  BY <1>1, <1>2, <1>3, <1>4 DEF Holds

(* Where a key is put: in the slot that holds it, or else in one without an *)
(* entry that its probe meets before anything ends it.                      *)
LEMMA InsertFacts ==
  ASSUME NEW c, NEW f, IsTable(f, c), c > 0, NEW k \in Keys, Stops(f, k) # {}, Arrives(f)
  PROVE  LET p == FindSlotForInsert(f, k) IN
         /\ p \in DOMAIN f
         /\ f[p] \in Full => Holds(f[p], k)
         /\ ~Holds(f[p], k) => \A i \in DOMAIN f : ~Holds(f[i], k)
         /\ \E m \in 0..(c - 1) : p = Probe(f, k, m) /\ \A n \in 0..(m - 1) : ~Stopping(f[Probe(f, k, n)], k)
<1> DEFINE p == FindSlotForInsert(f, k)
           x == Min(Stops(f, k))
           met == {n \in 0..(x - 1) : f[Probe(f, k, n)].kind = "tombstone"}
<1>1. PICK m \in 0..(c - 1) : /\ m = x /\ FindSlot(f, k) = Probe(f, k, m) /\ FindSlot(f, k) \in DOMAIN f
                              /\ Stopping(f[FindSlot(f, k)], k)
                              /\ \A n \in 0..(m - 1) : ~Stopping(f[Probe(f, k, n)], k)
  BY FindFacts
<1>2. p = (IF Holds(f[Probe(f, k, x)], k) \/ met = {} THEN Probe(f, k, x) ELSE Probe(f, k, Min(met)))
  BY DEF FindSlotForInsert
<1>3. c \in Nat /\ DOMAIN f = 0..(c - 1) /\ \A i \in DOMAIN f : f[i] \in Slot
  BY TableFacts
<1> HIDE DEF p, x
<1>4. CASE Holds(f[Probe(f, k, m)], k) \/ met = {}
  <2>1. p = FindSlot(f, k)
    BY <1>1, <1>2, <1>4
  <2>2. f[p] \in Full => Holds(f[p], k)
    BY <1>1, <2>1, KeyFacts DEF Stopping
  <2>3. ~Holds(f[p], k) => \A i \in DOMAIN f : ~Holds(f[i], k)
    BY <1>1, <1>3, <2>1 DEF Arrives, Holds
  <2> QED
    BY <1>1, <2>1, <2>2, <2>3 DEF p
<1>5. CASE ~Holds(f[Probe(f, k, m)], k) /\ met # {}
  <2>1. p = Probe(f, k, Min(met))
    BY <1>1, <1>2, <1>5
  <2>2. met \subseteq Nat
    OBVIOUS
  <2>3. Min(met) \in met
    BY <1>5, <2>2, MinFacts
  <2> DEFINE y == Min(met)
  <2>4. y \in 0..(x - 1) /\ f[Probe(f, k, y)].kind = "tombstone"
    BY <2>3
  <2> HIDE DEF y
  <2>5. y \in 0..(c - 1) /\ y \in Nat /\ 0..(y - 1) \subseteq 0..(m - 1)
    BY <1>1, <1>3, <2>4
  <2>6. p \in DOMAIN f
    BY <1>3, <2>1, <2>5, ProbeFacts DEF y
  <2>7. f[p].kind = "tombstone" /\ p = Probe(f, k, y)
    BY <2>1, <2>4 DEF y
  <2>8. f[p] \notin Full /\ ~Holds(f[p], k)
    BY <2>7 DEF Full, Holds
  <2>9. \A i \in DOMAIN f : ~Holds(f[i], k)
    BY <1>1, <1>5 DEF Arrives, Holds
  <2>10. \A n \in 0..(y - 1) : ~Stopping(f[Probe(f, k, n)], k)
    BY <1>1, <2>5
  <2> QED
    BY <2>5, <2>6, <2>7, <2>8, <2>9, <2>10 DEF p
<1> QED
  BY <1>1, <1>4, <1>5

(* Storing an entry keeps every probe on its way.                           *)
LEMMA PutArrives ==
  ASSUME NEW c, NEW f, IsTable(f, c), c > 0, Arrives(f), NEW e \in Full, Stops(f, KeyOf(e.key)) # {}
  PROVE  /\ IsTable([f EXCEPT ![FindSlotForInsert(f, KeyOf(e.key))] = e], c)
         /\ Arrives([f EXCEPT ![FindSlotForInsert(f, KeyOf(e.key))] = e])
<1> DEFINE k == KeyOf(e.key)
           p == FindSlotForInsert(f, k)
           g == [f EXCEPT ![p] = e]
<1>1. k \in Keys /\ Holds(e, k)
  BY KeyFacts DEF Slot
<1>2. /\ p \in DOMAIN f
      /\ f[p] \in Full => Holds(f[p], k)
      /\ ~Holds(f[p], k) => \A i \in DOMAIN f : ~Holds(f[i], k)
      /\ \E m \in 0..(c - 1) : p = Probe(f, k, m) /\ \A n \in 0..(m - 1) : ~Stopping(f[Probe(f, k, n)], k)
  <2> HIDE DEF k
  <2> QED
    BY <1>1, InsertFacts DEF k
<1> HIDE DEF k, p
<1>3. c \in Nat /\ DOMAIN f = 0..(c - 1) /\ \A i \in DOMAIN f : f[i] \in Slot
  BY TableFacts
<1>4. /\ DOMAIN g = DOMAIN f /\ g[p] = e /\ \A i \in DOMAIN f \ {p} : g[i] = f[i]
      /\ IsTable(g, c)
  BY <1>2, <1>3 DEF IsTable, Slot
<1> HIDE DEF g
<1>5. \A kk \in Keys, n \in Nat : Probe(g, kk, n) = Probe(f, kk, n)
  BY <1>3, <1>4, ProbeFacts
<1>6. ASSUME NEW i \in DOMAIN g, g[i].kind = "full"
      PROVE  Stops(g, KeyOf(g[i].key)) # {} /\ i = FindSlot(g, KeyOf(g[i].key))
  <2>1. CASE i = p
    <3>1. PICK m \in 0..(c - 1) : p = Probe(f, k, m) /\ \A n \in 0..(m - 1) : ~Stopping(f[Probe(f, k, n)], k)
      BY <1>2
    <3>2. KeyOf(g[i].key) = k /\ Holds(g[Probe(g, k, m)], k) /\ Probe(g, k, m) = p
      BY <1>1, <1>3, <1>4, <1>5, <2>1, <3>1 DEF k
    <3>3. ASSUME NEW n \in 0..(m - 1), Stopping(g[Probe(g, k, n)], k) PROVE Probe(g, k, n) = p
      <4>1. n \in Nat /\ Probe(g, k, n) = Probe(f, k, n) /\ Probe(f, k, n) \in DOMAIN f
        <5>1. n \in Nat
          OBVIOUS
        <5>2. Probe(f, k, n) \in 0..(c - 1)
          BY <5>1, <1>1, <1>3, ProbeFacts
        <5> QED
          BY <1>1, <1>3, <1>5, <5>1, <5>2
      <4> QED
        BY <1>4, <3>1, <3>3, <4>1
    <3> QED
      BY <1>1, <1>4, <2>1, <3>2, <3>3, Arrival
  <2>2. CASE i # p
    <3> DEFINE kk == KeyOf(g[i].key)
    <3>1. i \in DOMAIN f /\ g[i] = f[i] /\ f[i].kind = "full" /\ f[i] \in Full /\ kk \in Keys /\ Holds(f[i], kk)
      BY <1>3, <1>4, <1>6, <2>2, KeyFacts, TableFacts DEF Holds
    <3>2. Stops(f, kk) # {} /\ i = FindSlot(f, kk)
      BY <3>1 DEF Arrives
    <3>3. kk # k
      <4> SUFFICES ASSUME kk = k PROVE FALSE
        OBVIOUS
      <4>1. Holds(f[p], k)
        BY <1>2, <3>1
      <4>2. p = FindSlot(f, k)
        BY <1>2, <4>1 DEF Arrives, Holds
      <4> QED
        BY <2>2, <3>2, <4>2
    <3> HIDE DEF kk
    <3>4. PICK m \in 0..(c - 1) : i = Probe(f, kk, m) /\ \A n \in 0..(m - 1) : ~Stopping(f[Probe(f, kk, n)], kk)
      BY <3>1, <3>2, FindFacts
    <3>5. Holds(g[Probe(g, kk, m)], kk) /\ Probe(g, kk, m) = i
      BY <1>3, <1>5, <3>1, <3>4
    <3>6. ~Stopping(g[p], kk)
      BY <1>1, <1>4, <3>3, KeyFacts DEF Stopping, Holds
    <3>7. ASSUME NEW n \in 0..(m - 1) PROVE ~Stopping(g[Probe(g, kk, n)], kk)
      <4>1. n \in Nat /\ Probe(g, kk, n) = Probe(f, kk, n) /\ Probe(f, kk, n) \in DOMAIN f
        <5>1. n \in Nat
          OBVIOUS
        <5>2. Probe(f, kk, n) \in 0..(c - 1)
          BY <5>1, <1>3, <3>1, ProbeFacts
        <5> QED
          BY <1>1, <1>3, <1>5, <3>1, <5>1, <5>2
      <4> QED
        BY <1>4, <3>4, <3>6, <4>1
    <3>8. Stops(g, kk) # {} /\ FindSlot(g, kk) = Probe(g, kk, m)
      BY <1>4, <3>1, <3>5, <3>7, Arrival
    <3> QED
      BY <3>5, <3>8 DEF kk
  <2> QED
    BY <2>1, <2>2
<1> QED
  BY <1>4, <1>6 DEF Arrives, g, p, k

(* A tombstone keeps every other probe on its way.                          *)
LEMMA BuryArrives ==
  ASSUME NEW c, NEW f, IsTable(f, c), c > 0, Arrives(f), NEW p \in DOMAIN f, f[p] \in Full
  PROVE  IsTable([f EXCEPT ![p] = Tombstone], c) /\ Arrives([f EXCEPT ![p] = Tombstone])
<1> DEFINE g == [f EXCEPT ![p] = Tombstone]
<1>1. c \in Nat /\ DOMAIN f = 0..(c - 1) /\ \A i \in DOMAIN f : f[i] \in Slot
  BY TableFacts
<1>2. /\ DOMAIN g = DOMAIN f /\ g[p] = Tombstone /\ \A i \in DOMAIN f \ {p} : g[i] = f[i]
      /\ IsTable(g, c)
  BY <1>1 DEF IsTable, Slot
<1> HIDE DEF g
<1>3. \A kk \in Keys, n \in Nat : Probe(g, kk, n) = Probe(f, kk, n)
  BY <1>1, <1>2, ProbeFacts
<1>4. ASSUME NEW i \in DOMAIN g, g[i].kind = "full"
      PROVE  Stops(g, KeyOf(g[i].key)) # {} /\ i = FindSlot(g, KeyOf(g[i].key))
  <2> DEFINE kk == KeyOf(g[i].key)
  <2>1. i # p
    BY <1>2, <1>4 DEF Tombstone
  <2>2. i \in DOMAIN f /\ g[i] = f[i] /\ f[i].kind = "full" /\ f[i] \in Full /\ kk \in Keys /\ Holds(f[i], kk)
    BY <1>1, <1>2, <1>4, <2>1, KeyFacts, TableFacts DEF Holds
  <2>3. Stops(f, kk) # {} /\ i = FindSlot(f, kk)
    BY <2>2 DEF Arrives
  <2> HIDE DEF kk
  <2>4. PICK m \in 0..(c - 1) : i = Probe(f, kk, m) /\ \A n \in 0..(m - 1) : ~Stopping(f[Probe(f, kk, n)], kk)
    BY <2>2, <2>3, FindFacts
  <2>5. Holds(g[Probe(g, kk, m)], kk) /\ Probe(g, kk, m) = i
    BY <1>1, <1>3, <2>2, <2>4
  <2>6. ~Stopping(g[p], kk)
    BY <1>2 DEF Stopping, Holds, Tombstone
  <2>7. ASSUME NEW n \in 0..(m - 1) PROVE ~Stopping(g[Probe(g, kk, n)], kk)
    <3>1. n \in Nat /\ Probe(g, kk, n) = Probe(f, kk, n) /\ Probe(f, kk, n) \in DOMAIN f
      <4>1. n \in Nat
        OBVIOUS
      <4>2. Probe(f, kk, n) \in 0..(c - 1)
        BY <4>1, <1>1, <1>3, <2>2, ProbeFacts
      <4> QED
        BY <1>1, <1>3, <2>2, <4>1, <4>2
    <3> QED
      BY <1>2, <2>4, <2>6, <3>1
  <2>8. Stops(g, kk) # {} /\ FindSlot(g, kk) = Probe(g, kk, m)
    BY <1>2, <2>2, <2>5, <2>7, Arrival
  <2> QED
    BY <2>5, <2>8 DEF kk
<1> QED
  BY <1>2, <1>4 DEF Arrives, g
-----------------------------------------------------------------------------
(* Tallies.                                                                 *)
LEMMA TallyFacts ==
  ASSUME NEW c, NEW f, IsTable(f, c), NEW E
  PROVE  /\ IsFiniteSet({i \in DOMAIN f : f[i] \in E}) /\ Tally(f, E) \in Nat
         /\ Tally(f, E) = 0 <=> \A i \in DOMAIN f : f[i] \notin E
         /\ Tally(f, E) < c => \E i \in DOMAIN f : f[i] \notin E
<1> DEFINE S == {i \in DOMAIN f : f[i] \in E}
<1>1. c \in Nat /\ DOMAIN f = 0..(c - 1)
  BY TableFacts
<1>2. IsFiniteSet(0..(c - 1)) /\ Cardinality(0..(c - 1)) = c /\ S \in SUBSET (0..(c - 1))
  BY <1>1, FS_Interval
<1>3. IsFiniteSet(S) /\ Cardinality(S) \in Nat /\ (Cardinality(S) = 0 <=> S = {})
  BY <1>2, FS_Subset, FS_CardinalityType, FS_EmptySet
<1>4. Cardinality(S) < c => S # 0..(c - 1)
  <2> HIDE DEF S
  <2> QED
    BY <1>1, <1>2
<1> QED
  BY <1>1, <1>2, <1>3, <1>4 DEF Tally

LEMMA TallyPut ==
  ASSUME NEW c, NEW f, IsTable(f, c), NEW p \in DOMAIN f, NEW e, NEW E
  PROVE  Tally([f EXCEPT ![p] = e], E)
           = Tally(f, E) - (IF f[p] \in E THEN 1 ELSE 0) + (IF e \in E THEN 1 ELSE 0)
<1> DEFINE g == [f EXCEPT ![p] = e]
           A == {i \in DOMAIN f \ {p} : f[i] \in E}
<1>1. DOMAIN g = DOMAIN f /\ g[p] = e /\ \A i \in DOMAIN f \ {p} : g[i] = f[i]
  BY DEF IsTable
<1> HIDE DEF g
<1>2. IsFiniteSet(A)
  <2>1. A \subseteq {i \in DOMAIN f : f[i] \in E}
    OBVIOUS
  <2>2. IsFiniteSet({i \in DOMAIN f : f[i] \in E})
    <3> HIDE DEF A
    <3> QED
      BY TallyFacts
  <2> QED
    BY <2>1, <2>2, FS_Subset
<1>3. Cardinality(A) \in Nat /\ Cardinality(A \cup {p}) = Cardinality(A) + 1
  <2>1. p \notin A
    OBVIOUS
  <2> QED
    BY <1>2, <2>1, FS_CardinalityType, FS_AddElement
<1>4. {i \in DOMAIN f : f[i] \in E} = (IF f[p] \in E THEN A \cup {p} ELSE A)
  OBVIOUS
<1>5. {i \in DOMAIN g : g[i] \in E} = (IF e \in E THEN A \cup {p} ELSE A)
  BY <1>1
<1>6. Tally(f, E) = Cardinality(A) + (IF f[p] \in E THEN 1 ELSE 0)
  BY <1>3, <1>4 DEF Tally
<1>7. Tally(g, E) = Cardinality(A) + (IF e \in E THEN 1 ELSE 0)
  <2>1. Tally(g, E) = Cardinality(IF e \in E THEN A \cup {p} ELSE A)
    BY <1>5 DEF Tally
  <2> HIDE DEF A
  <2> QED
    BY <1>3, <2>1
<1> HIDE DEF A
<1> QED
  BY <1>3, <1>6, <1>7 DEF g

(* A table that is not used up has an empty slot, and every probe ends.     *)
LEMMA RoomLeft ==
  ASSUME NEW c, NEW f, IsTable(f, c), Tally(f, Full) + Tally(f, {Tombstone}) < c
  PROVE  c > 0 /\ \A k \in Keys : Stops(f, k) # {}
<1> DEFINE A == {i \in DOMAIN f : f[i] \in Full}
           B == {i \in DOMAIN f : f[i] \in {Tombstone}}
<1>1. Tally(f, Full) \in Nat /\ Tally(f, {Tombstone}) \in Nat /\ c \in Nat
      /\ IsFiniteSet(A) /\ IsFiniteSet(B)
  BY TallyFacts, TableFacts
<1>2. c > 0
  BY <1>1
<1>3. A \cap B = {} /\ A \cup B = {i \in DOMAIN f : f[i] \in Full \cup {Tombstone}}
  BY KeyFacts
<1>4. Tally(f, Full \cup {Tombstone}) = Tally(f, Full) + Tally(f, {Tombstone})
  <2>1. Cardinality(A \cup B) = Cardinality(A) + Cardinality(B) - Cardinality(A \cap B)
    BY <1>1, FS_Union
  <2>2. Cardinality(A \cap B) = 0
    BY <1>3, FS_EmptySet
  <2>3. Cardinality(A) = Tally(f, Full) /\ Cardinality(B) = Tally(f, {Tombstone})
    BY DEF Tally
  <2>4. Cardinality(A \cup B) = Tally(f, Full \cup {Tombstone})
    BY <1>3 DEF Tally
  <2> HIDE DEF A, B
  <2> QED
    BY <1>1, <2>1, <2>2, <2>3, <2>4
<1>5. PICK i \in DOMAIN f : f[i] \notin Full \cup {Tombstone}
  BY <1>4, TallyFacts
<1>6. f[i] = Empty
  BY <1>5, TableFacts DEF Slot
<1>7. \A k \in Keys : Stops(f, k) # {}
  BY <1>2, <1>6, SomeStop DEF Stopping, Empty
<1> QED
  BY <1>2, <1>7

LEMMA NewFacts ==
  ASSUME NEW c \in Nat
  PROVE  /\ IsTable(NewTable(c), c) /\ Arrives(NewTable(c))
         /\ \A E : Empty \notin E => Tally(NewTable(c), E) = 0
<1> DEFINE f == NewTable(c)
<1>1. IsTable(f, c) /\ \A i \in DOMAIN f : f[i] = Empty
  BY DEF NewTable, IsTable, Slot
<1> HIDE DEF f
<1>2. Arrives(f)
  BY <1>1 DEF Arrives, Empty
<1>3. ASSUME NEW E, Empty \notin E
      PROVE  Tally(f, E) = 0
  <2>1. \A i \in DOMAIN f : f[i] \notin E
    BY <1>1, <1>3
  <2> QED
    BY <1>1, <2>1, TallyFacts
<1> QED
  BY <1>1, <1>2, <1>3 DEF f
-----------------------------------------------------------------------------
(* A rehash.                                                                *)
Placed(p, e) == IF e.kind = "full" THEN [p EXCEPT ![FindSlotForInsert(p, KeyOf(e.key))] = e] ELSE p
Placing(p, f, d, n) == p = [i \in 0..n |-> IF i = 0 THEN NewTable(d) ELSE Placed(p[i - 1], f[i - 1])]

LEMMA PlacingExists ==
  ASSUME NEW f, NEW d, NEW n \in Nat
  PROVE  \E p : Placing(p, f, d, n)
<1> DEFINE Bad == {m \in Nat : ~\E p : Placing(p, f, d, m)}
<1> SUFFICES ASSUME Bad # {} PROVE FALSE
  OBVIOUS
<1>1. PICK m \in Bad : \A x \in Bad : m <= x
  BY LeastNatural
<1>2. m \in Nat /\ ~\E p : Placing(p, f, d, m)
  BY <1>1
<1>3. CASE m = 0
  <2> DEFINE q == [i \in 0..0 |-> NewTable(d)]
  <2>1. q = [i \in 0..0 |-> IF i = 0 THEN NewTable(d) ELSE Placed(q[i - 1], f[i - 1])]
    OBVIOUS
  <2> QED
    BY <1>2, <1>3, <2>1 DEF Placing
<1>4. CASE m > 0
  <2>1. m - 1 \in Nat /\ m - 1 \notin Bad
    BY <1>1, <1>2, <1>4
  <2>2. PICK p : Placing(p, f, d, m - 1)
    BY <2>1
  <2> DEFINE q == [i \in 0..m |-> IF i = m THEN Placed(p[m - 1], f[m - 1]) ELSE p[i]]
  <2>3. ASSUME NEW i \in 0..m
        PROVE  q[i] = (IF i = 0 THEN NewTable(d) ELSE Placed(q[i - 1], f[i - 1]))
    <3>1. i # m => i \in 0..(m - 1)
      BY <1>2
    <3>2. i # 0 => i - 1 \in 0..m /\ i - 1 # m
      BY <1>2
    <3>3. i # 0 => q[i - 1] = p[i - 1]
      BY <3>2
    <3>4. i # m => q[i] = p[i]
      OBVIOUS
    <3>5. i # m => p[i] = (IF i = 0 THEN NewTable(d) ELSE Placed(p[i - 1], f[i - 1]))
      BY <2>2, <3>1 DEF Placing
    <3>6. i = m => q[i] = Placed(p[i - 1], f[i - 1]) /\ i # 0
      BY <1>4
    <3> HIDE DEF q
    <3> QED
      BY <3>3, <3>4, <3>5, <3>6
  <2>4. Placing(q, f, d, m)
    BY <2>3 DEF Placing
  <2> QED
    BY <1>2, <2>4
<1> QED
  BY <1>2, <1>3, <1>4

LEMMA RehashedIs ==
  ASSUME NEW c, NEW f, IsTable(f, c), NEW d
  PROVE  \E p : Placing(p, f, d, c) /\ Rehashed(f, d) = p[c]
<1>1. Capacity(f) = c /\ \E p : Placing(p, f, d, Capacity(f))
  BY TableFacts, PlacingExists
<1> DEFINE p == CHOOSE p : Placing(p, f, d, Capacity(f))
<1>2. Placing(p, f, d, Capacity(f))
  BY <1>1
<1>3. Rehashed(f, d) = p[Capacity(f)]
  BY DEF Rehashed, Placing, Placed
<1> QED
  BY <1>1, <1>2, <1>3

(* How many of the first i slots hold one of some entries.                  *)
Before(f, i, E) == Cardinality({j \in 0..(i - 1) : f[j] \in E})

LEMMA BeforeFacts ==
  ASSUME NEW c, NEW f, IsTable(f, c), NEW i \in 0..c, NEW E
  PROVE  /\ Before(f, i, E) \in Nat /\ Before(f, i, E) <= Tally(f, E)
         /\ Before(f, 0, E) = 0 /\ Before(f, c, E) = Tally(f, E)
         /\ Before(f, i, E) > 0 => \E j \in 0..(i - 1) : f[j] \in E
         /\ i < c => Before(f, i + 1, E) = Before(f, i, E) + (IF f[i] \in E THEN 1 ELSE 0)
<1> DEFINE S == {j \in 0..(i - 1) : f[j] \in E}
           T == {j \in DOMAIN f : f[j] \in E}
<1>1. c \in Nat /\ DOMAIN f = 0..(c - 1) /\ IsFiniteSet(T)
  BY TableFacts, TallyFacts
<1>2. S \subseteq T /\ Before(f, i, E) = Cardinality(S) /\ Tally(f, E) = Cardinality(T)
  BY <1>1 DEF Before, Tally
<1>3. IsFiniteSet(S) /\ Cardinality(S) \in Nat /\ Cardinality(S) <= Cardinality(T) /\ (Cardinality(S) = 0 <=> S = {})
  BY <1>1, <1>2, FS_Subset, FS_CardinalityType, FS_EmptySet
<1>4. Before(f, 0, E) = 0
  <2>1. {j \in 0..(0 - 1) : f[j] \in E} = {}
    OBVIOUS
  <2> QED
    BY <2>1, FS_EmptySet DEF Before
<1>5. Before(f, c, E) = Tally(f, E)
  BY <1>1 DEF Before, Tally
<1>6. ASSUME i < c
      PROVE  Before(f, i + 1, E) = Before(f, i, E) + (IF f[i] \in E THEN 1 ELSE 0)
  <2>1. i \notin S /\ Cardinality(S \cup {i}) = Cardinality(S) + 1
    <3>1. i \notin S
      BY <1>1
    <3> HIDE DEF S
    <3> QED
      BY <1>3, <3>1, FS_AddElement
  <2>2. 0..(i + 1 - 1) = (0..(i - 1)) \cup {i}
    BY <1>1
  <2>3. {j \in 0..(i + 1 - 1) : f[j] \in E} = (IF f[i] \in E THEN S \cup {i} ELSE S)
    BY <2>2
  <2>4. Before(f, i + 1, E) = (IF f[i] \in E THEN Cardinality(S \cup {i}) ELSE Cardinality(S))
    BY <2>3 DEF Before
  <2> HIDE DEF S
  <2> QED
    BY <1>2, <1>3, <2>1, <2>4
<1>7. Cardinality(S) > 0 => \E j \in 0..(i - 1) : f[j] \in E
  BY <1>3
<1> QED
  BY <1>2, <1>3, <1>4, <1>5, <1>6, <1>7

(* What a rehash has built from the first i slots.                          *)
Built(p, f, d, i) == /\ IsTable(p, d) /\ Arrives(p) /\ Tally(p, {Tombstone}) = 0
                     /\ \A E \in SUBSET Full : Tally(p, E) = Before(f, i, E)

LEMMA BuildsOn ==
  ASSUME NEW c, NEW f, IsTable(f, c), Arrives(f), NEW d, Tally(f, Full) < d,
         NEW i \in 0..(c - 1), NEW p, Built(p, f, d, i)
  PROVE  Built(Placed(p, f[i]), f, d, i + 1)
<1> DEFINE e == f[i]
           k == KeyOf(e.key)
<1>1. /\ c \in Nat /\ i \in 0..c /\ i < c /\ i \in DOMAIN f /\ DOMAIN f = 0..(c - 1) /\ e \in Slot /\ i \in Nat
      /\ e.kind = "full" <=> e \in Full
  BY TableFacts
<1>2. IsTable(p, d) /\ Arrives(p) /\ Tally(p, {Tombstone}) = 0 /\ d \in Nat
      /\ \A E \in SUBSET Full : Tally(p, E) = Before(f, i, E)
  BY DEF Built, IsTable
<1>3. \A E \in SUBSET Full : Before(f, i + 1, E) = Before(f, i, E) + (IF e \in E THEN 1 ELSE 0) /\ Before(f, i, E) \in Nat
  BY <1>1, BeforeFacts
<1> HIDE DEF e
<1>4. CASE e \notin Full
  <2>1. Placed(p, e) = p
    BY <1>1, <1>4 DEF Placed
  <2>2. \A E \in SUBSET Full : Tally(p, E) = Before(f, i + 1, E)
    BY <1>2, <1>3, <1>4
  <2> QED
    BY <1>2, <2>1, <2>2 DEF Built, e
<1>5. CASE e \in Full
  <2> DEFINE x == FindSlotForInsert(p, k)
             g == [p EXCEPT ![x] = e]
  <2>1. Placed(p, e) = g
    BY <1>1, <1>5 DEF Placed
  <2>2. k \in Keys
    BY <1>5, KeyFacts
  <2>3. d > 0 /\ \A kk \in Keys : Stops(p, kk) # {}
    <3>1. Tally(p, Full) = Before(f, i, Full) /\ Before(f, i, Full) <= Tally(f, Full)
          /\ Before(f, i, Full) \in Nat /\ Tally(f, Full) \in Nat
      BY <1>1, <1>2, BeforeFacts, TallyFacts
    <3>2. Tally(p, Full) + Tally(p, {Tombstone}) < d
      BY <1>2, <3>1
    <3> QED
      BY <1>2, <3>2, RoomLeft
  <2>4. ASSUME NEW q \in DOMAIN p PROVE ~Holds(p[q], k)
    <3> SUFFICES ASSUME Holds(p[q], k) PROVE FALSE
      OBVIOUS
    <3>1. p[q] \in Full /\ KeyOf(p[q].key) = k
      BY <1>2, <2>2, KeyFacts, TableFacts
    <3>2. Tally(p, {p[q]}) \in Nat /\ Tally(p, {p[q]}) # 0
      <4> DEFINE E == {p[q]}
      <4>1. p[q] \in E
        OBVIOUS
      <4> HIDE DEF E
      <4>2. Tally(p, E) \in Nat /\ (Tally(p, E) = 0 => p[q] \notin E)
        BY <1>2, TallyFacts
      <4> QED
        BY <4>1, <4>2 DEF E
    <3>3. Before(f, i, {p[q]}) > 0
      <4>1. Tally(p, {p[q]}) = Before(f, i, {p[q]})
        BY <1>2, <3>1
      <4> QED
        BY <3>2, <4>1
    <3>4. PICK j \in 0..(i - 1) : f[j] \in {p[q]}
      BY <1>1, <3>3, BeforeFacts
    <3>5. j \in DOMAIN f /\ j # i /\ f[j] = p[q]
      BY <1>1, <3>4
    <3>6. f[j].kind = "full" /\ f[i].kind = "full"
      BY <1>5, <3>1, <3>5, KeyFacts DEF e
    <3>7. j = FindSlot(f, KeyOf(f[j].key)) /\ i = FindSlot(f, KeyOf(f[i].key))
      BY <1>1, <3>5, <3>6 DEF Arrives
    <3> QED
      BY <3>1, <3>5, <3>7 DEF e
  <2>5. x \in DOMAIN p /\ (p[x] \in Full => Holds(p[x], k))
    <3> HIDE DEF k
    <3> QED
      BY <1>2, <2>2, <2>3, InsertFacts
  <2>6. p[x] \notin Full
    BY <2>4, <2>5
  <2>7. IsTable(g, d) /\ Arrives(g)
    BY <1>2, <1>5, <2>2, <2>3, PutArrives
  <2> HIDE DEF x, k
  <2>8. \A E \in SUBSET Full : Tally(g, E) = Before(f, i + 1, E)
    <3> SUFFICES ASSUME NEW E \in SUBSET Full PROVE Tally(g, E) = Before(f, i + 1, E)
      OBVIOUS
    <3>1. Tally(g, E) = Tally(p, E) - (IF p[x] \in E THEN 1 ELSE 0) + (IF e \in E THEN 1 ELSE 0)
      BY <1>2, <2>5, TallyPut
    <3>2. Tally(p, E) = Before(f, i, E) /\ Before(f, i, E) \in Nat /\ p[x] \notin E
      BY <1>2, <1>3, <2>6
    <3> QED
      BY <1>3, <3>1, <3>2
  <2>9. Tally(g, {Tombstone}) = 0
    <3>1. Tally(g, {Tombstone}) = Tally(p, {Tombstone}) - (IF p[x] \in {Tombstone} THEN 1 ELSE 0)
                                    + (IF e \in {Tombstone} THEN 1 ELSE 0)
      BY <1>2, <2>5, TallyPut
    <3>2. p[x] \notin {Tombstone} /\ e \notin {Tombstone}
      BY <1>2, <1>5, <2>5, KeyFacts, TallyFacts
    <3> QED
      BY <1>2, <3>1, <3>2
  <2> QED
    BY <2>1, <2>7, <2>8, <2>9 DEF Built, e
<1> QED
  BY <1>4, <1>5

(* It keeps the entries and drops the tombstones.                           *)
LEMMA RehashFacts ==
  ASSUME NEW c, NEW f, IsTable(f, c), Arrives(f), NEW d \in Nat, Tally(f, Full) < d
  PROVE  /\ IsTable(Rehashed(f, d), d) /\ Arrives(Rehashed(f, d)) /\ Tally(Rehashed(f, d), {Tombstone}) = 0
         /\ \A E \in SUBSET Full : Tally(Rehashed(f, d), E) = Tally(f, E)
<1>1. PICK p : Placing(p, f, d, c) /\ Rehashed(f, d) = p[c]
  BY RehashedIs
<1>2. c \in Nat
  BY TableFacts
<1>3. Built(p[0], f, d, 0)
  <2>1. p[0] = NewTable(d)
    BY <1>1, <1>2 DEF Placing
  <2>2. IsTable(NewTable(d), d) /\ Arrives(NewTable(d)) /\ Tally(NewTable(d), {Tombstone}) = 0
        /\ \A E \in SUBSET Full : Tally(NewTable(d), E) = 0
    BY NewFacts, KeyFacts
  <2>3. \A E : Before(f, 0, E) = 0
    BY <1>2, BeforeFacts
  <2> QED
    BY <2>1, <2>2, <2>3 DEF Built
<1>4. ASSUME NEW i \in 0..(c - 1), Built(p[i], f, d, i)
      PROVE  Built(p[i + 1], f, d, i + 1)
  <2>1. p[i + 1] = Placed(p[i], f[i])
    BY <1>1, <1>2 DEF Placing
  <2> QED
    BY <1>4, <2>1, BuildsOn
<1>5. Built(p[c], f, d, c)
  <2> DEFINE Bad == {i \in 0..c : ~Built(p[i], f, d, i)}
  <2> SUFFICES ASSUME Bad # {} PROVE FALSE
    BY <1>2
  <2>0. Bad \subseteq Nat
    OBVIOUS
  <2>1. PICK m \in Bad : \A x \in Bad : m <= x
    <3> HIDE DEF Bad
    <3> QED
      BY <2>0, LeastNatural
  <2>2. m \in 0..c /\ ~Built(p[m], f, d, m) /\ m # 0
    BY <1>3, <2>1
  <2>3. m - 1 \in 0..c /\ m - 1 \in 0..(c - 1) /\ m - 1 + 1 = m
    BY <1>2, <2>2
  <2>4. Built(p[m - 1], f, d, m - 1)
    BY <2>1, <2>3
  <2>5. Built(p[m - 1 + 1], f, d, m - 1 + 1)
    BY <1>4, <2>3, <2>4
  <2> QED
    BY <2>2, <2>3, <2>5
<1>6. \A E : Before(f, c, E) = Tally(f, E)
  BY <1>2, BeforeFacts
<1> QED
  BY <1>1, <1>5, <1>6 DEF Built
-----------------------------------------------------------------------------
(* The inductive invariant.                                                 *)
KeyedBy(s)  == {e \in Full : e.key = s}
ValuedBy(s) == {e \in Full : e.val = s}

TableInv ==
  /\ IsTable(entries, Capacity(entries)) /\ Capacity(entries) # 1
  /\ count = Tally(entries, Full) /\ tombstones = Tally(entries, {Tombstone})
  /\ Exists => (count + tombstones) * 4 < Capacity(entries) * 3
  /\ Arrives(entries)

RefInv ==
  /\ rc \in [Strs -> Nat] /\ held \in [Strs -> 0..MaxHeld]
  /\ \A s \in Strs : rc[s] = held[s] + Tally(entries, KeyedBy(s)) + Tally(entries, ValuedBy(s))

(* A loop has been given the keys behind its index and no others.           *)
LoopInv ==
  /\ index \in Nat /\ looping \in BOOLEAN /\ seen \subseteq Keys
  /\ ~looping => index = 0 /\ seen = {}
  /\ \A i \in DOMAIN entries : entries[i] \in Full => (KeyOf(entries[i].key) \in seen <=> i < index)

IInv == TableInv /\ RefInv /\ LoopInv
-----------------------------------------------------------------------------
LEMMA TableSize ==
  ASSUME TableInv, Exists
  PROVE  /\ Capacity(entries) \in Nat /\ Capacity(entries) > 1 /\ DOMAIN entries = 0..(Capacity(entries) - 1)
         /\ count \in Nat /\ tombstones \in Nat
         /\ \A k \in Keys : Stops(entries, k) # {}
<1> DEFINE c == Capacity(entries)
<1>1. IsTable(entries, c) /\ c # 1 /\ count = Tally(entries, Full) /\ tombstones = Tally(entries, {Tombstone})
      /\ (count + tombstones) * 4 < c * 3
  BY DEF TableInv
<1>2. c \in Nat /\ DOMAIN entries = 0..(c - 1) /\ count \in Nat /\ tombstones \in Nat
  BY <1>1, TableFacts, TallyFacts
<1>3. c # 0
  BY <1>2 DEF Exists
<1> HIDE DEF c
<1>4. count + tombstones < c /\ c > 1
  BY <1>1, <1>2, <1>3
<1>5. \A k \in Keys : Stops(entries, k) # {}
  BY <1>1, <1>4, RoomLeft
<1> QED
  BY <1>2, <1>4, <1>5 DEF c

(* There is room for one more entry, whatever it took to make it.           *)
LEMMA EnsuredFacts ==
  ASSUME TableInv, Exists
  PROVE  \E c \in Nat : /\ c > 1 /\ IsTable(Ensured, c) /\ Arrives(Ensured)
                        /\ \A E \in SUBSET Full : Tally(Ensured, E) = Tally(entries, E)
                        /\ Tally(Ensured, {Tombstone}) = (IF Crowded THEN 0 ELSE tombstones)
                        /\ (Tally(Ensured, Full) + Tally(Ensured, {Tombstone}) + 1) * 4 < c * 3
                        /\ \A k \in Keys : Stops(Ensured, k) # {}
<1> DEFINE c == Capacity(entries)
<1>1. IsTable(entries, c) /\ Arrives(entries) /\ count = Tally(entries, Full) /\ tombstones = Tally(entries, {Tombstone})
      /\ (count + tombstones) * 4 < c * 3
  BY DEF TableInv
<1>2. c \in Nat /\ c > 1 /\ count \in Nat /\ tombstones \in Nat
  BY TableSize
<1>3. Crowded <=> ~((count + tombstones + 1) * 4 < c * 3)
  <2>1. Crowded <=> (count + tombstones + 1) * 4 >= c * 3
    BY DEF Crowded
  <2> HIDE DEF c
  <2> QED
    BY <1>2, <2>1
<1> SUFFICES \E d \in Nat : /\ d > 1 /\ IsTable(Ensured, d) /\ Arrives(Ensured)
                            /\ \A E \in SUBSET Full : Tally(Ensured, E) = Tally(entries, E)
                            /\ Tally(Ensured, {Tombstone}) = (IF Crowded THEN 0 ELSE tombstones)
                            /\ (Tally(Ensured, Full) + Tally(Ensured, {Tombstone}) + 1) * 4 < d * 3
  <2>1. PICK d \in Nat : /\ d > 1 /\ IsTable(Ensured, d) /\ Arrives(Ensured)
                         /\ \A E \in SUBSET Full : Tally(Ensured, E) = Tally(entries, E)
                         /\ Tally(Ensured, {Tombstone}) = (IF Crowded THEN 0 ELSE tombstones)
                         /\ (Tally(Ensured, Full) + Tally(Ensured, {Tombstone}) + 1) * 4 < d * 3
    OBVIOUS
  <2>2. Tally(Ensured, Full) \in Nat /\ Tally(Ensured, {Tombstone}) \in Nat
    BY <2>1, TallyFacts
  <2>3. Tally(Ensured, Full) + Tally(Ensured, {Tombstone}) < d
    BY <2>1, <2>2
  <2>4. \A k \in Keys : Stops(Ensured, k) # {}
    BY <2>1, <2>3, RoomLeft
  <2> QED
    BY <2>1, <2>4
<1>4. CASE ~Crowded
  <2>1. Ensured = entries
    BY <1>4 DEF Ensured
  <2> QED
    BY <1>1, <1>2, <1>3, <1>4, <2>1
<1>5. CASE Crowded
  <2>1. PICK d \in {c, c * 2} : Ensured = Rehashed(entries, d) /\ (d = c <=> tombstones > count)
    BY <1>2, <1>5 DEF Ensured
  <2> HIDE DEF c
  <2>2. d \in Nat /\ d > 1 /\ count < d /\ (count + 1) * 4 < d * 3
    BY <1>1, <1>2, <2>1
  <2>3. /\ IsTable(Ensured, d) /\ Arrives(Ensured) /\ Tally(Ensured, {Tombstone}) = 0
        /\ \A E \in SUBSET Full : Tally(Ensured, E) = Tally(entries, E)
    BY <1>1, <2>1, <2>2, RehashFacts
  <2>4. Tally(Ensured, Full) = count
    BY <1>1, <2>3
  <2> QED
    BY <1>2, <1>5, <2>2, <2>3, <2>4
<1> QED
  BY <1>4, <1>5

(* References.                                                              *)
LEMMA RetainFacts ==
  ASSUME NEW refs \in [Strs -> Nat], NEW s, s \in Strs => refs[s] > 0
  PROVE  Retain(refs, s) \in [Strs -> Nat]
         /\ \A t \in Strs : Retain(refs, s)[t] = refs[t] + (IF t = s THEN 1 ELSE 0)
BY DEF Retain

LEMMA ReleaseFacts ==
  ASSUME NEW refs \in [Strs -> Nat], NEW s, s \in Strs => refs[s] > 0
  PROVE  Release(refs, s) \in [Strs -> Nat]
         /\ \A t \in Strs : Release(refs, s)[t] = refs[t] - (IF t = s THEN 1 ELSE 0)
BY DEF Release

LEMMA UsesFacts ==
  ASSUME NEW c, IsTable(entries, c), NEW s \in Strs
  PROVE  Uses(s) = Tally(entries, KeyedBy(s)) + Tally(entries, ValuedBy(s))
         /\ Tally(entries, KeyedBy(s)) \in Nat /\ Tally(entries, ValuedBy(s)) \in Nat
<1>1. \A i \in DOMAIN entries : entries[i] \in Slot
  BY TableFacts
<1>2. \A e \in Slot : (e.key = s <=> e \in KeyedBy(s)) /\ (e.val = s <=> e \in ValuedBy(s))
  BY MapAssumption DEF Slot, Full, Empty, Tombstone, KeyedBy, ValuedBy
<1>3. /\ {i \in DOMAIN entries : entries[i].key = s} = {i \in DOMAIN entries : entries[i] \in KeyedBy(s)}
      /\ {i \in DOMAIN entries : entries[i].val = s} = {i \in DOMAIN entries : entries[i] \in ValuedBy(s)}
  BY <1>1, <1>2
<1>4. Uses(s) = Tally(entries, KeyedBy(s)) + Tally(entries, ValuedBy(s))
  BY <1>3 DEF Uses, Tally
<1> QED
  BY <1>4, TallyFacts

(* What the program holds, or the table, is alive.                          *)
LEMMA Alive ==
  ASSUME TableInv, RefInv
  PROVE  /\ \A a \in Named : a \in IntKeys \cup Strs /\ (a \in Strs => held[a] > 0 /\ rc[a] > 0)
         /\ \A i \in DOMAIN entries : entries[i].val \in Strs => rc[entries[i].val] > 0
         /\ \A s \in Strs : rc[s] \in Nat /\ held[s] \in Nat
                            /\ Tally(entries, KeyedBy(s)) \in Nat /\ Tally(entries, ValuedBy(s)) \in Nat
<1>1. \A s \in Strs : /\ rc[s] = held[s] + Tally(entries, KeyedBy(s)) + Tally(entries, ValuedBy(s))
                      /\ rc[s] \in Nat /\ held[s] \in Nat
                      /\ Tally(entries, KeyedBy(s)) \in Nat /\ Tally(entries, ValuedBy(s)) \in Nat
  <2> SUFFICES ASSUME NEW s \in Strs
               PROVE  /\ rc[s] = held[s] + Tally(entries, KeyedBy(s)) + Tally(entries, ValuedBy(s))
                      /\ rc[s] \in Nat /\ held[s] \in Nat
                      /\ Tally(entries, KeyedBy(s)) \in Nat /\ Tally(entries, ValuedBy(s)) \in Nat
    OBVIOUS
  <2>1. rc[s] = held[s] + Tally(entries, KeyedBy(s)) + Tally(entries, ValuedBy(s)) /\ rc[s] \in Nat
    BY DEF RefInv
  <2>2. held[s] \in Nat
    BY MapAssumption DEF RefInv
  <2>3. Tally(entries, KeyedBy(s)) \in Nat /\ Tally(entries, ValuedBy(s)) \in Nat
    BY TallyFacts DEF TableInv
  <2> QED
    BY <2>1, <2>2, <2>3
<1>2. ASSUME NEW a \in Named
      PROVE  a \in IntKeys \cup Strs /\ (a \in Strs => held[a] > 0 /\ rc[a] > 0)
  <2>1. a \in IntKeys \cup Strs /\ (a \in Strs => held[a] > 0)
    BY MapAssumption DEF Named
  <2> QED
    BY <1>1, <2>1
<1>3. ASSUME NEW i \in DOMAIN entries, entries[i].val \in Strs
      PROVE  rc[entries[i].val] > 0
  <2> DEFINE s == entries[i].val
  <2>1. entries[i] \in ValuedBy(s)
    BY <1>3, TableFacts, MapAssumption DEF TableInv, Slot, Empty, Tombstone, ValuedBy
  <2>2. Tally(entries, ValuedBy(s)) # 0
    BY <2>1, TallyFacts DEF TableInv
  <2> HIDE DEF s
  <2>3. s \in Strs
    BY <1>3 DEF s
  <2>4. rc[s] > 0
    BY <1>1, <2>2, <2>3
  <2> QED
    BY <2>4 DEF s
<1> QED
  BY <1>1, <1>2, <1>3
-----------------------------------------------------------------------------
(* An assignment: where the entry goes, and what it replaces.               *)
LEMMA SetFacts ==
  ASSUME TableInv, NEW a \in IntKeys \cup Strs, NEW v \in Strs \cup {Nil}, Set(a, v)
  PROVE  \E c \in Nat, p \in DOMAIN Ensured, ent \in Full :
           /\ c > 1 /\ IsTable(Ensured, c) /\ Arrives(Ensured)
           /\ \A E \in SUBSET Full : Tally(Ensured, E) = Tally(entries, E)
           /\ entries' = [Ensured EXCEPT ![p] = ent] /\ IsTable(entries', c) /\ Arrives(entries')
           /\ KeyOf(ent.key) = KeyOf(a) /\ ent.val = v
           /\ IF Ensured[p] \in Full THEN ent.key = Ensured[p].key /\ KeyOf(Ensured[p].key) = KeyOf(a)
              ELSE ent.key = a /\ \A i \in DOMAIN Ensured : ~Holds(Ensured[i], KeyOf(a))
           /\ count' = Tally(entries', Full) /\ tombstones' = Tally(entries', {Tombstone})
           /\ (count' + tombstones') * 4 < c * 3
           /\ rc' = Retain(Release(IF Ensured[p] \in Full THEN rc ELSE Retain(rc, a), Ensured[p].val), v)
           /\ IF Ensured[p] \notin Full \/ Crowded THEN LoopIsOver ELSE UNCHANGED loopVars
           /\ UNCHANGED held
<1> DEFINE k == KeyOf(a)
           p == FindSlotForInsert(Ensured, k)
           e == Ensured[p]
           ent == [kind |-> "full", key |-> IF Holds(e, k) THEN e.key ELSE a, val |-> v]
<1>1. Exists /\ k \in Keys
  BY KeyFacts DEF Set
<1>2. PICK c \in Nat : /\ c > 1 /\ IsTable(Ensured, c) /\ Arrives(Ensured)
                       /\ \A E \in SUBSET Full : Tally(Ensured, E) = Tally(entries, E)
                       /\ Tally(Ensured, {Tombstone}) = (IF Crowded THEN 0 ELSE tombstones)
                       /\ (Tally(Ensured, Full) + Tally(Ensured, {Tombstone}) + 1) * 4 < c * 3
                       /\ \A kk \in Keys : Stops(Ensured, kk) # {}
  BY <1>1, EnsuredFacts
<1>3. /\ p \in DOMAIN Ensured /\ (e \in Full => Holds(e, k))
      /\ ~Holds(e, k) => \A i \in DOMAIN Ensured : ~Holds(Ensured[i], k)
  <2> HIDE DEF k
  <2> QED
    BY <1>1, <1>2, InsertFacts
<1>4. e \in Slot
  BY <1>2, <1>3, TableFacts
<1>5. /\ entries' = [Ensured EXCEPT ![p] = ent]
      /\ count' = (IF ~Holds(e, k) THEN count + 1 ELSE count)
      /\ tombstones' = (IF Crowded THEN 0 ELSE tombstones) - (IF ~Holds(e, k) /\ e.kind = "tombstone" THEN 1 ELSE 0)
      /\ rc' = Retain(Release(IF ~Holds(e, k) THEN Retain(rc, a) ELSE rc, e.val), v)
      /\ IF ~Holds(e, k) \/ Crowded THEN LoopIsOver ELSE UNCHANGED loopVars
      /\ UNCHANGED held
  BY DEF Set
<1> HIDE DEF k, p, e
<1>6. Holds(e, k) <=> e \in Full /\ KeyOf(e.key) = k
  BY <1>1, <1>4, KeyFacts
<1>7. ent \in Full /\ KeyOf(ent.key) = k /\ ent.val = v
      /\ (e \in Full => ent.key = e.key) /\ (e \notin Full => ent.key = a)
  BY <1>3, <1>6 DEF Full, k
<1> HIDE DEF ent
<1>8. IsTable(entries', c) /\ Arrives(entries')
  <2>1. c > 0 /\ Stops(Ensured, KeyOf(ent.key)) # {}
    BY <1>1, <1>2, <1>7
  <2> QED
    BY <1>2, <1>5, <1>7, <2>1, PutArrives DEF p
<1>9. /\ Tally(entries', Full) = Tally(Ensured, Full) - (IF e \in Full THEN 1 ELSE 0) + 1
      /\ Tally(entries', {Tombstone}) = Tally(Ensured, {Tombstone}) - (IF e = Tombstone THEN 1 ELSE 0)
  <2>1. \A E : Tally(entries', E) = Tally(Ensured, E) - (IF e \in E THEN 1 ELSE 0) + (IF ent \in E THEN 1 ELSE 0)
    <3> SUFFICES ASSUME NEW E
                 PROVE  Tally(entries', E) = Tally(Ensured, E) - (IF e \in E THEN 1 ELSE 0) + (IF ent \in E THEN 1 ELSE 0)
      OBVIOUS
    <3>1. Tally([Ensured EXCEPT ![p] = ent], E)
            = Tally(Ensured, E) - (IF Ensured[p] \in E THEN 1 ELSE 0) + (IF ent \in E THEN 1 ELSE 0)
      BY <1>2, <1>3, TallyPut
    <3> QED
      BY <1>5, <3>1 DEF e
  <2>2. ent # Tombstone
    BY <1>7, KeyFacts
  <2>3. Tally(Ensured, {Tombstone}) \in Nat
    BY <1>2, TallyFacts
  <2> QED
    BY <1>7, <2>1, <2>2, <2>3
<1>10. /\ Tally(Ensured, Full) = count /\ Tally(Ensured, Full) \in Nat /\ Tally(Ensured, {Tombstone}) \in Nat
  BY <1>2, TallyFacts DEF TableInv
<1>11. e.kind = "tombstone" <=> e = Tombstone
  BY <1>4 DEF Slot, Full, Empty, Tombstone
<1>12. count' = Tally(entries', Full) /\ tombstones' = Tally(entries', {Tombstone})
  BY <1>2, <1>3, <1>5, <1>6, <1>9, <1>10, <1>11, KeyFacts
<1>13. (count' + tombstones') * 4 < c * 3
  BY <1>2, <1>9, <1>10, <1>12
<1>14. /\ rc' = Retain(Release(IF e \in Full THEN rc ELSE Retain(rc, a), e.val), v)
       /\ IF e \notin Full \/ Crowded THEN LoopIsOver ELSE UNCHANGED loopVars
       /\ IF e \in Full THEN ent.key = e.key /\ KeyOf(e.key) = k
          ELSE ent.key = a /\ \A i \in DOMAIN Ensured : ~Holds(Ensured[i], k)
  BY <1>3, <1>5, <1>6, <1>7
<1> QED
  BY <1>2, <1>3, <1>5, <1>7, <1>8, <1>12, <1>13, <1>14 DEF e, k

(* A removal.                                                               *)
LEMMA DeleteFacts ==
  ASSUME TableInv, NEW a \in IntKeys \cup Strs, Delete(a)
  PROVE  \E p \in DOMAIN entries :
           /\ Exists /\ entries[p] \in Full /\ KeyOf(entries[p].key) = KeyOf(a)
           /\ entries' = [entries EXCEPT ![p] = Tombstone]
           /\ IsTable(entries', Capacity(entries)) /\ Arrives(entries')
           /\ count' = Tally(entries', Full) /\ tombstones' = Tally(entries', {Tombstone})
           /\ count' + tombstones' = count + tombstones
           /\ rc' = Release(Release(rc, entries[p].key), entries[p].val)
           /\ UNCHANGED <<held, loopVars>>
<1> DEFINE k == KeyOf(a)
           c == Capacity(entries)
           p == FindSlot(entries, k)
<1>1. Exists /\ k \in Keys /\ IsTable(entries, c) /\ Arrives(entries)
      /\ count = Tally(entries, Full) /\ tombstones = Tally(entries, {Tombstone})
  BY KeyFacts DEF Delete, TableInv
<1>2. c \in Nat /\ c > 0 /\ count \in Nat /\ tombstones \in Nat /\ Stops(entries, k) # {}
  BY <1>1, TableSize
<1>3. /\ Holds(entries[p], k)
      /\ rc' = Release(Release(rc, entries[p].key), entries[p].val)
      /\ entries' = [entries EXCEPT ![p] = Tombstone]
      /\ count' = count - 1 /\ tombstones' = tombstones + 1 /\ UNCHANGED <<held, loopVars>>
  BY DEF Delete, Found
<1> HIDE DEF k, c
<1>4. p \in DOMAIN entries
  BY <1>1, <1>2, FindFacts
<1> HIDE DEF p
<1>5. entries[p] \in Full /\ KeyOf(entries[p].key) = k
  BY <1>1, <1>3, <1>4, KeyFacts, TableFacts
<1>6. IsTable(entries', c) /\ Arrives(entries')
  BY <1>1, <1>2, <1>3, <1>4, <1>5, BuryArrives
<1>7. \A E : Tally(entries', E) = Tally(entries, E) - (IF entries[p] \in E THEN 1 ELSE 0) + (IF Tombstone \in E THEN 1 ELSE 0)
  <2> SUFFICES ASSUME NEW E
               PROVE  Tally(entries', E) = Tally(entries, E) - (IF entries[p] \in E THEN 1 ELSE 0)
                                             + (IF Tombstone \in E THEN 1 ELSE 0)
    OBVIOUS
  <2>1. Tally([entries EXCEPT ![p] = Tombstone], E)
          = Tally(entries, E) - (IF entries[p] \in E THEN 1 ELSE 0) + (IF Tombstone \in E THEN 1 ELSE 0)
    BY <1>1, <1>4, TallyPut
  <2> QED
    BY <1>3, <2>1
<1>8. Tally(entries', Full) = count - 1 /\ Tally(entries', {Tombstone}) = tombstones + 1
  <2>1. Tombstone \notin Full /\ Tombstone \in {Tombstone} /\ entries[p] \notin {Tombstone}
    BY <1>5, KeyFacts
  <2> QED
    BY <1>1, <1>2, <1>5, <1>7, <2>1
<1>9. count' + tombstones' = count + tombstones
  BY <1>2, <1>3
<1> QED
  BY <1>1, <1>3, <1>4, <1>5, <1>6, <1>8, <1>9 DEF k, c
-----------------------------------------------------------------------------
(* Each step.                                                               *)
LEMMA TableNow ==
  ASSUME NEW c \in Nat, c # 1, IsTable(entries', c), Arrives(entries'),
         count' = Tally(entries', Full), tombstones' = Tally(entries', {Tombstone}),
         c # 0 => (count' + tombstones') * 4 < c * 3
  PROVE  TableInv'
<1>1. Capacity(entries') = c /\ DOMAIN entries' = 0..(c - 1)
  BY TableFacts
<1>2. Exists' => c # 0
  BY <1>1 DEF Exists
<1> QED
  BY <1>1, <1>2 DEF TableInv

LEMMA SetInv ==
  ASSUME IInv, NEW a \in Named, NEW v \in (Named \cap Strs) \cup {Nil}, Set(a, v)
  PROVE  IInv'
<1>1. TableInv /\ RefInv /\ LoopInv /\ a \in IntKeys \cup Strs /\ v \in Strs \cup {Nil}
      /\ (a \in Strs => held[a] > 0 /\ rc[a] > 0) /\ (v \in Strs => held[v] > 0 /\ rc[v] > 0)
  <2>1. TableInv /\ RefInv /\ LoopInv
    BY DEF IInv
  <2>2. a \in IntKeys \cup Strs /\ (a \in Strs => held[a] > 0 /\ rc[a] > 0)
    BY <2>1, Alive
  <2>3. v \in Strs => held[v] > 0 /\ rc[v] > 0
    BY <2>1, Alive, MapAssumption
  <2> QED
    BY <2>1, <2>2, <2>3
<1>2. PICK c \in Nat, p \in DOMAIN Ensured, ent \in Full :
           /\ c > 1 /\ IsTable(Ensured, c) /\ Arrives(Ensured)
           /\ \A E \in SUBSET Full : Tally(Ensured, E) = Tally(entries, E)
           /\ entries' = [Ensured EXCEPT ![p] = ent] /\ IsTable(entries', c) /\ Arrives(entries')
           /\ KeyOf(ent.key) = KeyOf(a) /\ ent.val = v
           /\ IF Ensured[p] \in Full THEN ent.key = Ensured[p].key /\ KeyOf(Ensured[p].key) = KeyOf(a)
              ELSE ent.key = a /\ \A i \in DOMAIN Ensured : ~Holds(Ensured[i], KeyOf(a))
           /\ count' = Tally(entries', Full) /\ tombstones' = Tally(entries', {Tombstone})
           /\ (count' + tombstones') * 4 < c * 3
           /\ rc' = Retain(Release(IF Ensured[p] \in Full THEN rc ELSE Retain(rc, a), Ensured[p].val), v)
           /\ IF Ensured[p] \notin Full \/ Crowded THEN LoopIsOver ELSE UNCHANGED loopVars
           /\ UNCHANGED held
  BY <1>1, SetFacts
<1> DEFINE old == Ensured[p]
<1>3. TableInv'
  <2>1. /\ IsTable(entries', c) /\ Arrives(entries') /\ c # 1
        /\ count' = Tally(entries', Full) /\ tombstones' = Tally(entries', {Tombstone})
        /\ c # 0 => (count' + tombstones') * 4 < c * 3
    BY <1>2
  <2> QED
    BY <2>1, TableNow
<1>4. RefInv'
  <2>1. old \in Slot
    BY <1>2, TableFacts
  <2>2. \A s \in Strs : /\ rc[s] = held[s] + Tally(entries, KeyedBy(s)) + Tally(entries, ValuedBy(s))
                        /\ rc[s] \in Nat /\ held[s] \in Nat
                        /\ Tally(entries, KeyedBy(s)) \in Nat /\ Tally(entries, ValuedBy(s)) \in Nat
    BY <1>1, Alive DEF RefInv
  <2>3. \A E \in SUBSET Full : Tally(entries', E) = Tally(entries, E) - (IF old \in E THEN 1 ELSE 0) + (IF ent \in E THEN 1 ELSE 0)
    <3> SUFFICES ASSUME NEW E \in SUBSET Full
                 PROVE  Tally(entries', E) = Tally(entries, E) - (IF old \in E THEN 1 ELSE 0) + (IF ent \in E THEN 1 ELSE 0)
      OBVIOUS
    <3>1. IsTable(Ensured, c)
      BY <1>2
    <3>2. Tally([Ensured EXCEPT ![p] = ent], E)
            = Tally(Ensured, E) - (IF Ensured[p] \in E THEN 1 ELSE 0) + (IF ent \in E THEN 1 ELSE 0)
      BY <3>1, TallyPut
    <3>3. Tally(Ensured, E) = Tally(entries, E) /\ entries' = [Ensured EXCEPT ![p] = ent]
      BY <1>2
    <3> QED
      BY <3>2, <3>3
  <2> DEFINE keyed == IF old \in Full THEN rc ELSE Retain(rc, a)
             freed == Release(keyed, old.val)
  <2>4. keyed \in [Strs -> Nat] /\ \A s \in Strs : keyed[s] = rc[s] + (IF old \notin Full /\ s = a THEN 1 ELSE 0)
    <3>1. rc \in [Strs -> Nat]
      BY <1>1 DEF RefInv
    <3>2. /\ Retain(rc, a) \in [Strs -> Nat]
          /\ \A s \in Strs : Retain(rc, a)[s] = rc[s] + (IF s = a THEN 1 ELSE 0)
      BY <1>1, <3>1, RetainFacts
    <3> HIDE DEF old
    <3> QED
      BY <2>2, <3>1, <3>2
  <2>5. ASSUME old.val \in Strs
        PROVE  old \in Full /\ old \in ValuedBy(old.val) /\ Tally(entries, ValuedBy(old.val)) # 0
    <3>1. old \in Full /\ old \in ValuedBy(old.val)
      BY <2>1, <2>5, MapAssumption DEF Slot, Empty, Tombstone, ValuedBy
    <3>2. Tally(Ensured, ValuedBy(old.val)) # 0
      BY <1>2, <3>1, TallyFacts
    <3>3. ValuedBy(old.val) \in SUBSET Full
      BY DEF ValuedBy
    <3> QED
      BY <1>2, <3>1, <3>2, <3>3
  <2>6. /\ rc' = Retain(freed, v) /\ ent.val = v
        /\ old \in Full => ent.key = old.key
        /\ old \notin Full => ent.key = a
    BY <1>2
  <2> HIDE DEF old, keyed
  <2>7. freed \in [Strs -> Nat] /\ \A s \in Strs : freed[s] = keyed[s] - (IF s = old.val THEN 1 ELSE 0)
    <3>1. ASSUME NEW s \in Strs, s = old.val PROVE keyed[s] > 0
      <4>1. Tally(entries, ValuedBy(s)) # 0 /\ old \in Full
        BY <2>5, <3>1
      <4>2. /\ rc[s] = held[s] + Tally(entries, KeyedBy(s)) + Tally(entries, ValuedBy(s))
            /\ rc[s] \in Nat /\ held[s] \in Nat
            /\ Tally(entries, KeyedBy(s)) \in Nat /\ Tally(entries, ValuedBy(s)) \in Nat
        BY <2>2
      <4>3. keyed[s] = rc[s]
        BY <2>4, <4>1, <4>2
      <4> QED
        BY <4>1, <4>2, <4>3
    <3>2. old.val \in Strs => keyed[old.val] > 0
      BY <3>1
    <3> QED
      BY <2>4, <3>2, ReleaseFacts
  <2> HIDE DEF freed
  <2>8. v \in Strs => freed[v] > 0
    <3> SUFFICES ASSUME v \in Strs PROVE freed[v] > 0
      OBVIOUS
    <3>1. freed[v] = keyed[v] - (IF v = old.val THEN 1 ELSE 0) /\ keyed[v] \in Nat /\ keyed[v] >= rc[v]
      BY <2>2, <2>4, <2>7
    <3>2. rc[v] >= held[v] + (IF v = old.val THEN 1 ELSE 0)
      BY <2>2, <2>5
    <3> QED
      BY <1>1, <2>2, <3>1, <3>2
  <2>9. rc' \in [Strs -> Nat] /\ \A s \in Strs : rc'[s] = freed[s] + (IF s = v THEN 1 ELSE 0)
    BY <2>6, <2>7, <2>8, RetainFacts
  <2>10. ASSUME NEW s \in Strs
         PROVE  rc'[s] = held[s] + Tally(entries', KeyedBy(s)) + Tally(entries', ValuedBy(s))
    <3>1. /\ Tally(entries', KeyedBy(s)) = Tally(entries, KeyedBy(s)) - (IF old \in KeyedBy(s) THEN 1 ELSE 0) + (IF ent \in KeyedBy(s) THEN 1 ELSE 0)
          /\ Tally(entries', ValuedBy(s)) = Tally(entries, ValuedBy(s)) - (IF old \in ValuedBy(s) THEN 1 ELSE 0) + (IF ent \in ValuedBy(s) THEN 1 ELSE 0)
      <4>1. KeyedBy(s) \in SUBSET Full /\ ValuedBy(s) \in SUBSET Full
        BY DEF KeyedBy, ValuedBy
      <4> QED
        BY <2>3, <4>1
    <3>2. /\ old \in KeyedBy(s) <=> old \in Full /\ old.key = s
          /\ ent \in KeyedBy(s) <=> ent.key = s
          /\ ent \in ValuedBy(s) <=> v = s
      BY <2>6 DEF KeyedBy, ValuedBy
    <3>3. old \in ValuedBy(s) <=> old.val = s
      BY <2>5 DEF ValuedBy
    <3>4. rc'[s] = rc[s] + (IF old \notin Full /\ s = a THEN 1 ELSE 0) - (IF s = old.val THEN 1 ELSE 0) + (IF s = v THEN 1 ELSE 0)
      BY <2>2, <2>4, <2>7, <2>9
    <3>5. (IF old \notin Full /\ s = a THEN 1 ELSE 0)
             = (IF ent \in KeyedBy(s) THEN 1 ELSE 0) - (IF old \in KeyedBy(s) THEN 1 ELSE 0)
      BY <2>6, <3>2
    <3>6. /\ (IF old \in ValuedBy(s) THEN 1 ELSE 0) = (IF s = old.val THEN 1 ELSE 0)
          /\ (IF ent \in ValuedBy(s) THEN 1 ELSE 0) = (IF s = v THEN 1 ELSE 0)
      BY <3>2, <3>3
    <3>7. /\ rc[s] = held[s] + Tally(entries, KeyedBy(s)) + Tally(entries, ValuedBy(s))
          /\ rc[s] \in Nat /\ held[s] \in Nat
          /\ Tally(entries, KeyedBy(s)) \in Nat /\ Tally(entries, ValuedBy(s)) \in Nat
      BY <2>2
    <3> DEFINE x1 == IF old \in KeyedBy(s) THEN 1 ELSE 0
               x2 == IF ent \in KeyedBy(s) THEN 1 ELSE 0
               x3 == IF old \in ValuedBy(s) THEN 1 ELSE 0
               x4 == IF ent \in ValuedBy(s) THEN 1 ELSE 0
    <3>8. x1 \in 0..1 /\ x2 \in 0..1 /\ x3 \in 0..1 /\ x4 \in 0..1
      OBVIOUS
    <3>9. rc'[s] = rc[s] + (x2 - x1) - x3 + x4
      BY <3>4, <3>5, <3>6
    <3>10. /\ Tally(entries', KeyedBy(s)) = Tally(entries, KeyedBy(s)) - x1 + x2
           /\ Tally(entries', ValuedBy(s)) = Tally(entries, ValuedBy(s)) - x3 + x4
      BY <3>1
    <3> DEFINE h == held[s]
               u == Tally(entries, KeyedBy(s))
               w == Tally(entries, ValuedBy(s))
    <3>11. /\ rc'[s] = h + u + w + (x2 - x1) - x3 + x4 /\ h \in Nat /\ u \in Nat /\ w \in Nat
           /\ Tally(entries', KeyedBy(s)) = u - x1 + x2 /\ Tally(entries', ValuedBy(s)) = w - x3 + x4
      BY <3>7, <3>9, <3>10
    <3> HIDE DEF x1, x2, x3, x4, h, u, w
    <3>12. rc'[s] = h + (u - x1 + x2) + (w - x3 + x4)
      BY <3>8, <3>11
    <3> QED
      BY <3>11, <3>12 DEF h
  <2> QED
    BY <1>1, <1>2, <2>9, <2>10 DEF RefInv
<1>5. LoopInv'
  <2>1. CASE old \notin Full \/ Crowded
    <3>1. looping' = FALSE /\ index' = 0 /\ seen' = {}
      BY <1>2, <2>1 DEF LoopIsOver
    <3>2. DOMAIN entries' \subseteq Nat
      BY <1>2, TableFacts
    <3>3. \A i \in DOMAIN entries' : ~(i < 0)
      BY <3>2
    <3> QED
      BY <3>1, <3>3 DEF LoopInv
  <2>2. CASE old \in Full /\ ~Crowded
    <3>1. Ensured = entries /\ UNCHANGED <<index, looping, seen>>
      BY <1>2, <2>2 DEF Ensured, loopVars
    <3>2. entries' = [entries EXCEPT ![p] = ent] /\ entries[p] \in Full /\ KeyOf(ent.key) = KeyOf(entries[p].key) /\ p \in DOMAIN entries
      BY <1>2, <2>2, <3>1
    <3>3. DOMAIN entries' = DOMAIN entries /\ \A i \in DOMAIN entries : /\ entries'[i] \in Full <=> entries[i] \in Full
                                                                        /\ KeyOf(entries'[i].key) = KeyOf(entries[i].key)
      BY <1>1, <3>2 DEF TableInv, IsTable
    <3> QED
      BY <1>1, <3>1, <3>3 DEF LoopInv
  <2> QED
    BY <2>1, <2>2
<1> QED
  BY <1>3, <1>4, <1>5 DEF IInv

LEMMA DeleteInv ==
  ASSUME IInv, NEW a \in Named, Delete(a)
  PROVE  IInv'
<1>1. TableInv /\ RefInv /\ LoopInv
  BY DEF IInv
<1>2. a \in IntKeys \cup Strs
  BY <1>1, Alive
<1>3. PICK p \in DOMAIN entries :
           /\ Exists /\ entries[p] \in Full /\ KeyOf(entries[p].key) = KeyOf(a)
           /\ entries' = [entries EXCEPT ![p] = Tombstone]
           /\ IsTable(entries', Capacity(entries)) /\ Arrives(entries')
           /\ count' = Tally(entries', Full) /\ tombstones' = Tally(entries', {Tombstone})
           /\ count' + tombstones' = count + tombstones
           /\ rc' = Release(Release(rc, entries[p].key), entries[p].val)
           /\ UNCHANGED <<held, loopVars>>
  BY <1>1, <1>2, DeleteFacts
<1> DEFINE old == entries[p]
           c == Capacity(entries)
<1>4. TableInv'
  <2>1. c \in Nat /\ c # 1 /\ (count + tombstones) * 4 < c * 3
    BY <1>1, <1>3, TableSize DEF TableInv
  <2>2. IsTable(entries', c) /\ Arrives(entries')
        /\ count' = Tally(entries', Full) /\ tombstones' = Tally(entries', {Tombstone})
        /\ (count' + tombstones') * 4 < c * 3
    BY <1>3, <2>1
  <2> HIDE DEF c
  <2> QED
    BY <2>1, <2>2, TableNow
<1>5. RefInv'
  <2>1. \A s \in Strs : /\ rc[s] = held[s] + Tally(entries, KeyedBy(s)) + Tally(entries, ValuedBy(s))
                        /\ rc[s] \in Nat /\ held[s] \in Nat
                        /\ Tally(entries, KeyedBy(s)) \in Nat /\ Tally(entries, ValuedBy(s)) \in Nat
    BY <1>1, Alive DEF RefInv
  <2>2. IsTable(entries, c) /\ rc \in [Strs -> Nat]
    BY <1>1 DEF TableInv, RefInv
  <2>3. ASSUME NEW E
        PROVE  /\ Tally(entries', E) = Tally(entries, E) - (IF old \in E THEN 1 ELSE 0) + (IF Tombstone \in E THEN 1 ELSE 0)
               /\ old \in E => Tally(entries, E) # 0
    <3>1. Tally([entries EXCEPT ![p] = Tombstone], E)
            = Tally(entries, E) - (IF entries[p] \in E THEN 1 ELSE 0) + (IF Tombstone \in E THEN 1 ELSE 0)
      BY <2>2, TallyPut
    <3>2. old \in E => Tally(entries, E) # 0
      BY <2>2, TallyFacts
    <3> QED
      BY <1>3, <3>1, <3>2
  <2>4. old \in Full /\ rc' = Release(Release(rc, old.key), old.val) /\ UNCHANGED held
    BY <1>3
  <2> DEFINE once == Release(rc, old.key)
  <2> HIDE DEF old, c
  <2>5. \A s \in Strs : (old \in KeyedBy(s) <=> old.key = s) /\ (old \in ValuedBy(s) <=> old.val = s)
                        /\ Tombstone \notin KeyedBy(s) /\ Tombstone \notin ValuedBy(s)
    BY <2>4, KeyFacts DEF KeyedBy, ValuedBy
  <2>6. ASSUME NEW s \in Strs
        PROVE  /\ Tally(entries', KeyedBy(s)) = Tally(entries, KeyedBy(s)) - (IF s = old.key THEN 1 ELSE 0)
               /\ Tally(entries', ValuedBy(s)) = Tally(entries, ValuedBy(s)) - (IF s = old.val THEN 1 ELSE 0)
               /\ s = old.key => Tally(entries, KeyedBy(s)) > 0
               /\ s = old.val => Tally(entries, ValuedBy(s)) > 0
    <3>1. /\ Tally(entries', KeyedBy(s)) = Tally(entries, KeyedBy(s)) - (IF old \in KeyedBy(s) THEN 1 ELSE 0) + 0
          /\ Tally(entries', ValuedBy(s)) = Tally(entries, ValuedBy(s)) - (IF old \in ValuedBy(s) THEN 1 ELSE 0) + 0
          /\ old \in KeyedBy(s) => Tally(entries, KeyedBy(s)) # 0
          /\ old \in ValuedBy(s) => Tally(entries, ValuedBy(s)) # 0
      BY <2>3, <2>5
    <3>2. Tally(entries, KeyedBy(s)) \in Nat /\ Tally(entries, ValuedBy(s)) \in Nat
      BY <2>1
    <3>3. (old \in KeyedBy(s) <=> s = old.key) /\ (old \in ValuedBy(s) <=> s = old.val)
      BY <2>5
    <3> QED
      BY <3>1, <3>2, <3>3
  <2>7. once \in [Strs -> Nat] /\ \A s \in Strs : once[s] = rc[s] - (IF s = old.key THEN 1 ELSE 0)
    <3>1. ASSUME NEW s \in Strs, s = old.key PROVE rc[s] > 0
      BY <2>1, <2>6, <3>1
    <3> QED
      BY <2>2, <3>1, ReleaseFacts
  <2> HIDE DEF once
  <2>8. rc' \in [Strs -> Nat] /\ \A s \in Strs : rc'[s] = once[s] - (IF s = old.val THEN 1 ELSE 0)
    <3>1. ASSUME NEW s \in Strs, s = old.val PROVE once[s] > 0
      <4>1. Tally(entries, ValuedBy(s)) > 0 /\ (s = old.key => Tally(entries, KeyedBy(s)) > 0)
        BY <2>6, <3>1
      <4>2. /\ rc[s] = held[s] + Tally(entries, KeyedBy(s)) + Tally(entries, ValuedBy(s))
            /\ rc[s] \in Nat /\ held[s] \in Nat
            /\ Tally(entries, KeyedBy(s)) \in Nat /\ Tally(entries, ValuedBy(s)) \in Nat
        BY <2>1
      <4>3. once[s] = rc[s] - (IF s = old.key THEN 1 ELSE 0)
        BY <2>7
      <4> QED
        BY <4>1, <4>2, <4>3
    <3>2. rc' = Release(once, old.val)
      BY <2>4 DEF once
    <3> QED
      BY <2>7, <3>1, <3>2, ReleaseFacts
  <2>9. ASSUME NEW s \in Strs
        PROVE  rc'[s] = held[s] + Tally(entries', KeyedBy(s)) + Tally(entries', ValuedBy(s))
    <3> DEFINE x == IF s = old.key THEN 1 ELSE 0
               y == IF s = old.val THEN 1 ELSE 0
               h == held[s]
               u == Tally(entries, KeyedBy(s))
               w == Tally(entries, ValuedBy(s))
    <3>1. x \in 0..1 /\ y \in 0..1
      OBVIOUS
    <3>2. /\ rc[s] = h + u + w /\ h \in Nat /\ u \in Nat /\ w \in Nat /\ once[s] = rc[s] - x /\ rc'[s] = once[s] - y
          /\ Tally(entries', KeyedBy(s)) = u - x /\ Tally(entries', ValuedBy(s)) = w - y
      BY <2>1, <2>6, <2>7, <2>8
    <3> HIDE DEF x, y, h, u, w
    <3>3. rc'[s] = h + (u - x) + (w - y)
      BY <3>1, <3>2
    <3> QED
      BY <3>2, <3>3 DEF h
  <2> QED
    BY <1>1, <2>4, <2>8, <2>9 DEF RefInv
<1>6. LoopInv'
  <2>1. /\ DOMAIN entries' = DOMAIN entries /\ UNCHANGED <<index, looping, seen>>
        /\ \A i \in DOMAIN entries : entries'[i] \in Full => entries'[i] = entries[i]
    BY <1>1, <1>3, KeyFacts DEF TableInv, IsTable, loopVars
  <2> QED
    BY <1>1, <2>1 DEF LoopInv
<1> QED
  BY <1>4, <1>5, <1>6 DEF IInv

(* A table is emptied, or made: no references are left but the program's.   *)
LEMMA NewTableInv ==
  ASSUME IInv, NEW c \in Nat, c # 1, entries' = NewTable(c), count' = 0, tombstones' = 0, UNCHANGED held,
         ReleaseAll \/ (~Exists /\ UNCHANGED rc),
         index' \in Nat /\ looping' \in BOOLEAN /\ seen' \subseteq Keys, ~looping' => index' = 0 /\ seen' = {}
  PROVE  IInv'
<1>1. TableInv /\ RefInv /\ IsTable(entries, Capacity(entries))
  BY DEF IInv, TableInv
<1>2. /\ IsTable(entries', c) /\ Arrives(entries')
      /\ \A E \in SUBSET Full : Tally(entries', E) = 0
      /\ Tally(entries', {Tombstone}) = 0
  BY NewFacts, KeyFacts
<1>3. TableInv'
  <2>1. count' = Tally(entries', Full) /\ tombstones' = Tally(entries', {Tombstone})
        /\ (c # 0 => (count' + tombstones') * 4 < c * 3)
    BY <1>2
  <2> QED
    BY <1>2, <2>1, TableNow
<1>4. \A s \in Strs : /\ rc[s] = held[s] + Tally(entries, KeyedBy(s)) + Tally(entries, ValuedBy(s))
                      /\ rc[s] \in Nat /\ held[s] \in Nat
                      /\ Tally(entries, KeyedBy(s)) \in Nat /\ Tally(entries, ValuedBy(s)) \in Nat
  BY <1>1, Alive DEF RefInv
<1>5. rc' = [s \in Strs |-> held[s]]
  <2>1. CASE ReleaseAll
    <3>1. ASSUME NEW s \in Strs PROVE Max({0, rc[s] - Uses(s)}) = held[s]
      <4>1. Uses(s) = Tally(entries, KeyedBy(s)) + Tally(entries, ValuedBy(s))
        BY <1>1, UsesFacts
      <4>2. rc[s] - Uses(s) = held[s] /\ held[s] \in Nat
        BY <1>4, <4>1
      <4>3. \A h \in Nat : Max({0, h}) = h
        BY DEF Max
      <4> QED
        BY <4>2, <4>3
    <3> QED
      BY <2>1, <3>1 DEF ReleaseAll
  <2>2. CASE ~Exists /\ UNCHANGED rc
    <3>1. \A E : Tally(entries, E) = 0
      BY <1>1, <2>2, TallyFacts DEF Exists
    <3>2. \A s \in Strs : rc[s] = held[s]
      BY <1>4, <3>1
    <3>3. rc = [s \in Strs |-> rc[s]]
      BY <1>1 DEF RefInv
    <3> QED
      BY <2>2, <3>2, <3>3
  <2> QED
    BY <2>1, <2>2
<1>6. RefInv'
  <2>1. \A s \in Strs : KeyedBy(s) \in SUBSET Full /\ ValuedBy(s) \in SUBSET Full
    BY DEF KeyedBy, ValuedBy
  <2>2. rc' \in [Strs -> Nat] /\ \A s \in Strs : rc'[s] = held[s] + Tally(entries', KeyedBy(s)) + Tally(entries', ValuedBy(s))
    BY <1>2, <1>4, <1>5, <2>1
  <2> QED
    BY <1>1, <2>2 DEF RefInv
<1>7. LoopInv'
  <2>1. \A i \in DOMAIN entries' : entries'[i] \notin Full
    BY KeyFacts DEF NewTable
  <2> QED
    BY <2>1 DEF LoopInv
<1> QED
  BY <1>3, <1>6, <1>7 DEF IInv

(* Only the program's references change, or only the loop.                  *)
LEMMA StringsInv ==
  ASSUME IInv, UNCHANGED <<tableVars, loopVars>>,
         (\E s \in Strs : NewString(s) \/ DropString(s)) \/ (\E a \in Named : Get(a)) \/ UNCHANGED <<rc, held>>
  PROVE  IInv'
<1>1. TableInv /\ RefInv /\ LoopInv
  BY DEF IInv
<1>2. TableInv' /\ LoopInv'
  BY <1>1 DEF TableInv, LoopInv, tableVars, loopVars, Exists
<1>3. \A s \in Strs : /\ rc[s] = held[s] + Tally(entries, KeyedBy(s)) + Tally(entries, ValuedBy(s))
                      /\ rc[s] \in Nat /\ held[s] \in Nat
                      /\ Tally(entries, KeyedBy(s)) \in Nat /\ Tally(entries, ValuedBy(s)) \in Nat
  BY <1>1, Alive DEF RefInv
<1>4. rc \in [Strs -> Nat] /\ held \in [Strs -> 0..MaxHeld] /\ MaxHeld \in Nat
  BY <1>1, MapAssumption DEF RefInv
<1>5. \/ UNCHANGED <<rc, held>>
      \/ \E s \in Strs : /\ rc' = [rc EXCEPT ![s] = rc[s] + 1] /\ held' = [held EXCEPT ![s] = held[s] + 1]
                         /\ held[s] < MaxHeld
      \/ \E s \in Strs : /\ rc' = [rc EXCEPT ![s] = rc[s] - 1] /\ held' = [held EXCEPT ![s] = held[s] - 1]
                         /\ held[s] > 0
  <2>1. ASSUME NEW s \in Strs, NewString(s)
        PROVE  /\ rc' = [rc EXCEPT ![s] = rc[s] + 1] /\ held' = [held EXCEPT ![s] = held[s] + 1]
               /\ held[s] < MaxHeld
    <3>1. rc[s] = 0 /\ MaxHeld > 0 /\ rc' = [rc EXCEPT ![s] = 1] /\ held' = [held EXCEPT ![s] = 1]
      BY <2>1 DEF NewString
    <3>2. held[s] = 0
      BY <1>3, <3>1
    <3> QED
      BY <3>1, <3>2
  <2>2. ASSUME NEW s \in Strs, DropString(s)
        PROVE  /\ rc' = [rc EXCEPT ![s] = rc[s] - 1] /\ held' = [held EXCEPT ![s] = held[s] - 1]
               /\ held[s] > 0
    <3>1. held[s] > 0 /\ rc' = Release(rc, s) /\ held' = [held EXCEPT ![s] = held[s] - 1]
      BY <2>2 DEF DropString
    <3>2. rc[s] > 0
      BY <1>3, <3>1
    <3> QED
      BY <3>1, <3>2 DEF Release
  <2>3. ASSUME NEW a \in Named, Get(a)
        PROVE  \E s \in Strs : /\ rc' = [rc EXCEPT ![s] = rc[s] + 1] /\ held' = [held EXCEPT ![s] = held[s] + 1]
                               /\ held[s] < MaxHeld
    <3> DEFINE p == FindSlot(entries, KeyOf(a))
               s == entries[p].val
    <3>1. Exists /\ KeyOf(a) \in Keys /\ IsTable(entries, Capacity(entries))
      BY <1>1, <2>3, Alive, KeyFacts DEF Get, TableInv
    <3>2. p \in DOMAIN entries
      BY <1>1, <3>1, TableSize, FindFacts
    <3>3. s \in Strs /\ held[s] < MaxHeld /\ rc' = Retain(rc, s) /\ held' = [held EXCEPT ![s] = held[s] + 1]
      BY <2>3 DEF Get
    <3>4. rc[s] > 0
      BY <1>1, <3>2, <3>3, Alive
    <3> HIDE DEF s
    <3>5. rc' = [rc EXCEPT ![s] = rc[s] + 1]
      BY <3>3, <3>4 DEF Retain
    <3> QED
      BY <3>3, <3>5
  <2> QED
    BY <2>1, <2>2, <2>3
<1>6. RefInv'
  <2>1. entries' = entries
    BY DEF tableVars
  <2>2. rc' \in [Strs -> Nat] /\ held' \in [Strs -> 0..MaxHeld]
        /\ \A t \in Strs : rc'[t] - held'[t] = rc[t] - held[t] /\ rc'[t] \in Nat /\ held'[t] \in Nat
    <3>1. CASE UNCHANGED <<rc, held>>
      BY <1>3, <1>4, <3>1
    <3>2. ASSUME NEW s \in Strs, rc' = [rc EXCEPT ![s] = rc[s] + 1], held' = [held EXCEPT ![s] = held[s] + 1],
                 held[s] < MaxHeld
          PROVE  rc' \in [Strs -> Nat] /\ held' \in [Strs -> 0..MaxHeld]
                 /\ \A t \in Strs : rc'[t] - held'[t] = rc[t] - held[t] /\ rc'[t] \in Nat /\ held'[t] \in Nat
      <4>1. rc[s] + 1 \in Nat /\ held[s] + 1 \in 0..MaxHeld /\ held[s] + 1 \in Nat
        BY <1>3, <1>4, <3>2
      <4>2. rc' \in [Strs -> Nat] /\ held' \in [Strs -> 0..MaxHeld]
        BY <1>4, <3>2, <4>1
      <4>3. rc'[s] = rc[s] + 1 /\ held'[s] = held[s] + 1 /\ \A t \in Strs \ {s} : rc'[t] = rc[t] /\ held'[t] = held[t]
        BY <1>4, <3>2
      <4>4. rc'[s] - held'[s] = rc[s] - held[s]
        BY <1>3, <4>3
      <4> QED
        BY <1>3, <4>1, <4>2, <4>3, <4>4
    <3>3. ASSUME NEW s \in Strs, rc' = [rc EXCEPT ![s] = rc[s] - 1], held' = [held EXCEPT ![s] = held[s] - 1],
                 held[s] > 0
          PROVE  rc' \in [Strs -> Nat] /\ held' \in [Strs -> 0..MaxHeld]
                 /\ \A t \in Strs : rc'[t] - held'[t] = rc[t] - held[t] /\ rc'[t] \in Nat /\ held'[t] \in Nat
      <4>1. rc[s] - 1 \in Nat /\ held[s] - 1 \in 0..MaxHeld /\ held[s] - 1 \in Nat
        BY <1>3, <1>4, <3>3
      <4> QED
        BY <1>3, <1>4, <3>3, <4>1
    <3> QED
      BY <1>5, <3>1, <3>2, <3>3
  <2>3. ASSUME NEW s \in Strs
        PROVE  rc'[s] = held'[s] + Tally(entries', KeyedBy(s)) + Tally(entries', ValuedBy(s))
    <3> DEFINE u == Tally(entries, KeyedBy(s))
               w == Tally(entries, ValuedBy(s))
    <3>1. rc[s] = held[s] + u + w /\ rc[s] \in Nat /\ held[s] \in Nat /\ u \in Nat /\ w \in Nat
      BY <1>3
    <3>2. rc'[s] - held'[s] = rc[s] - held[s] /\ rc'[s] \in Nat /\ held'[s] \in Nat
      BY <2>2
    <3> HIDE DEF u, w
    <3>3. rc'[s] = held'[s] + u + w
      BY <3>1, <3>2
    <3> QED
      BY <2>1, <3>3 DEF u, w
  <2> QED
    BY <2>2, <2>3 DEF RefInv
<1> QED
  BY <1>2, <1>6 DEF IInv

LEMMA StoredOnce ==
  ASSUME NEW f, Arrives(f), NEW i \in DOMAIN f, NEW j \in DOMAIN f,
         f[i].kind = "full", f[j].kind = "full", KeyOf(f[i].key) = KeyOf(f[j].key)
  PROVE  i = j
BY DEF Arrives

(* A loop meets the next entry, which it has not met.                       *)
LEMMA NextEntry ==
  ASSUME IInv, Ahead # {}
  PROVE  /\ Min(Ahead) \in DOMAIN entries /\ Min(Ahead) \in Nat /\ entries[Min(Ahead)] \in Full /\ Min(Ahead) >= index
         /\ \A i \in DOMAIN entries : entries[i] \in Full /\ i >= index => i >= Min(Ahead)
         /\ KeyOf(entries[Min(Ahead)].key) \in Keys \ seen
<1>1. TableInv /\ LoopInv /\ IsTable(entries, Capacity(entries))
  BY DEF IInv, TableInv
<1>2. /\ DOMAIN entries \subseteq Nat
      /\ \A i \in DOMAIN entries : entries[i].kind = "full" <=> entries[i] \in Full
  BY <1>1, TableFacts
<1>3. Ahead \subseteq Nat
  BY <1>2 DEF Ahead
<1> DEFINE m == Min(Ahead)
<1>4. m \in Ahead /\ \A i \in Ahead : m <= i
  BY <1>3, MinFacts
<1> HIDE DEF m
<1>5. m \in DOMAIN entries /\ entries[m] \in Full /\ m >= index /\ m \in Nat
  BY <1>2, <1>4 DEF Ahead
<1>6. KeyOf(entries[m].key) \in Keys \ seen
  <2>1. index \in Nat /\ ~(m < index)
    BY <1>1, <1>5 DEF LoopInv
  <2> QED
    BY <1>1, <1>5, <2>1, KeyFacts DEF LoopInv
<1>7. \A i \in DOMAIN entries : entries[i] \in Full /\ i >= index => i >= m
  <2>1. \A i \in DOMAIN entries : entries[i] \in Full /\ i >= index => i \in Ahead
    BY <1>2 DEF Ahead
  <2> QED
    BY <1>2, <1>4, <1>5, <2>1
<1> QED
  BY <1>5, <1>6, <1>7 DEF m

LEMMA IterInv ==
  ASSUME IInv, Begin \/ IterNext \/ IterEnd
  PROVE  IInv'
<1>1. TableInv /\ RefInv /\ LoopInv
  BY DEF IInv
<1>2. UNCHANGED <<entries, count, tombstones, rc, held>>
  BY DEF Begin, IterNext, IterEnd, tableVars
<1>3. TableInv' /\ RefInv'
  BY <1>1, <1>2 DEF TableInv, RefInv, Exists
<1>4. CASE Begin
  <2>1. looping' = TRUE /\ UNCHANGED <<index, seen>>
    BY <1>4 DEF Begin
  <2>2. LoopInv'
    BY <1>1, <1>2, <2>1 DEF LoopInv
  <2> QED
    BY <1>3, <2>2 DEF IInv
<1>5. CASE IterEnd
  <2>1. looping' = FALSE /\ index' = 0 /\ seen' = {}
    BY <1>5 DEF IterEnd, LoopIsOver
  <2>2. \A i \in DOMAIN entries : ~(i < 0)
    BY <1>1, TableFacts DEF TableInv
  <2>3. LoopInv'
    BY <1>2, <2>1, <2>2 DEF LoopInv
  <2> QED
    BY <1>3, <2>3 DEF IInv
<1>6. CASE IterNext
  <2> DEFINE m == Min(Ahead)
  <2>1. /\ Ahead # {} /\ index' = m + 1 /\ looping' = looping /\ looping
        /\ seen' = seen \cup {KeyOf(entries[m].key)}
    BY <1>6 DEF IterNext
  <2>2. /\ m \in DOMAIN entries /\ m \in Nat /\ entries[m] \in Full /\ m >= index
        /\ \A i \in DOMAIN entries : entries[i] \in Full /\ i >= index => i >= m
        /\ KeyOf(entries[m].key) \in Keys \ seen
    BY <2>1, NextEntry
  <2> HIDE DEF m
  <2>3. ASSUME NEW i \in DOMAIN entries, entries[i] \in Full
        PROVE  KeyOf(entries[i].key) \in seen' <=> i < index'
    <3>1. i \in Nat /\ index \in Nat /\ (KeyOf(entries[i].key) \in seen <=> i < index)
      BY <1>1, <2>3, TableFacts DEF LoopInv, TableInv
    <3>2. CASE i < index
      BY <2>1, <2>2, <3>1, <3>2
    <3>3. CASE i = m
      BY <2>1, <2>2, <3>1, <3>3
    <3>4. CASE i # m /\ ~(i < index)
      <4>1. i > m /\ ~(i < index')
        BY <2>1, <2>2, <2>3, <3>1, <3>4
      <4>2. KeyOf(entries[i].key) # KeyOf(entries[m].key)
        BY <1>1, <2>2, <2>3, <3>4, StoredOnce, KeyFacts DEF TableInv
      <4> QED
        BY <2>1, <3>1, <3>4, <4>1, <4>2
    <3> QED
      BY <3>2, <3>3, <3>4
  <2>4. index' \in Nat /\ looping' \in BOOLEAN /\ seen' \subseteq Keys
    BY <1>1, <2>1, <2>2 DEF LoopInv
  <2>5. LoopInv'
    BY <1>2, <2>1, <2>3, <2>4 DEF LoopInv
  <2> QED
    BY <1>3, <2>5 DEF IInv
<1> QED
  BY <1>4, <1>5, <1>6
-----------------------------------------------------------------------------
LEMMA Begins == MapInit => IInv
<1> SUFFICES ASSUME MapInit PROVE IInv
  OBVIOUS
<1>1. /\ entries = NewTable(Cap0) /\ count = 0 /\ tombstones = 0
      /\ rc = [s \in Strs |-> 0] /\ held = [s \in Strs |-> 0]
      /\ index = 0 /\ looping = FALSE /\ seen = {}
  BY DEF MapInit
<1>2. Cap0 \in Nat /\ Cap0 # 1 /\ Cap0 # 0 /\ MaxHeld \in Nat
  BY MapAssumption
<1>3. /\ IsTable(entries, Cap0) /\ Arrives(entries)
      /\ \A E \in SUBSET Full : Tally(entries, E) = 0
      /\ Tally(entries, {Tombstone}) = 0
  BY <1>1, <1>2, NewFacts, KeyFacts
<1>4. Capacity(entries) = Cap0 /\ \A i \in DOMAIN entries : i \in Nat
  BY <1>3, TableFacts
<1>5. TableInv
  BY <1>1, <1>2, <1>3, <1>4 DEF TableInv
<1>6. RefInv
  <2>1. \A s \in Strs : KeyedBy(s) \in SUBSET Full /\ ValuedBy(s) \in SUBSET Full
    BY DEF KeyedBy, ValuedBy
  <2> QED
    BY <1>1, <1>2, <1>3, <2>1 DEF RefInv
<1>7. LoopInv
  BY <1>1, KeyFacts DEF LoopInv, NewTable
<1> QED
  BY <1>5, <1>6, <1>7 DEF IInv

LEMMA Inductive == IInv /\ [MapNext]_mapVars => IInv'
<1> SUFFICES ASSUME IInv, [MapNext]_mapVars PROVE IInv'
  OBVIOUS
<1>1. ASSUME NEW s \in Strs, NewString(s) \/ DropString(s) PROVE IInv'
  <2>1. UNCHANGED <<tableVars, loopVars>>
    BY <1>1 DEF NewString, DropString
  <2> QED
    BY <1>1, <2>1, StringsInv
<1>2. ASSUME NEW a \in Named, Get(a) PROVE IInv'
  <2>1. UNCHANGED <<tableVars, loopVars>>
    BY <1>2 DEF Get
  <2> QED
    BY <1>2, <2>1, StringsInv
<1>3. ASSUME NEW a \in Named, Delete(a) PROVE IInv'
  BY <1>3, DeleteInv
<1>4. ASSUME NEW a \in Named, NEW v \in (Named \cap Strs) \cup {Nil}, Set(a, v) PROVE IInv'
  BY <1>4, SetInv
<1>5. index \in Nat /\ looping \in BOOLEAN /\ seen \subseteq Keys /\ (~looping => index = 0 /\ seen = {})
  BY DEF IInv, LoopInv
<1>6. CASE Clear
  <2>1. /\ Exists /\ ReleaseAll /\ entries' = NewTable(Capacity(entries)) /\ count' = 0 /\ tombstones' = 0
        /\ UNCHANGED <<held, index, looping, seen>>
    BY <1>6 DEF Clear, loopVars
  <2>2. Capacity(entries) \in Nat /\ Capacity(entries) # 1
    BY <2>1, TableSize DEF IInv
  <2> QED
    BY <1>5, <2>1, <2>2, NewTableInv
<1>7. CASE Free
  <2>1. /\ ReleaseAll /\ entries' = NewTable(0) /\ count' = 0 /\ tombstones' = 0 /\ held' = held
        /\ index' = 0 /\ looping' = FALSE /\ seen' = {}
    BY <1>7 DEF Free, LoopIsOver
  <2>2. 0 \in Nat /\ 0 # 1
    OBVIOUS
  <2>3. index' \in Nat /\ looping' \in BOOLEAN /\ seen' \subseteq Keys
    BY <2>1
  <2>4. ~looping' => index' = 0 /\ seen' = {}
    BY <2>1
  <2> QED
    BY <2>1, <2>2, <2>3, <2>4, NewTableInv
<1>8. CASE NewMap
  <2>1. /\ ~Exists /\ entries' = NewTable(Cap0) /\ UNCHANGED <<count, tombstones, rc, held, index, looping, seen>>
    BY <1>8 DEF NewMap, loopVars
  <2>2. Cap0 \in Nat /\ Cap0 # 1
    BY MapAssumption
  <2>3. count = 0 /\ tombstones = 0
    BY <2>1, TallyFacts DEF IInv, TableInv, Exists
  <2> QED
    BY <1>5, <2>1, <2>2, <2>3, NewTableInv
<1>9. CASE Begin \/ IterNext \/ IterEnd
  BY <1>9, IterInv
<1>10. CASE UNCHANGED mapVars
  BY <1>10, StringsInv DEF mapVars
<1> QED
  BY <1>1, <1>2, <1>3, <1>4, <1>6, <1>7, <1>8, <1>9, <1>10 DEF MapNext

LEMMA Always == MapSpec => []IInv
BY Begins, Inductive, PTL DEF MapSpec
-----------------------------------------------------------------------------
(* The fields of a map count its entries and its tombstones.                *)
THEOREM TypeCorrect == MapSpec => []TypeOK
<1>1. IInv => TypeOK
  <2> SUFFICES ASSUME IInv PROVE TypeOK
    OBVIOUS
  <2> DEFINE c == Capacity(entries)
  <2>1. IsTable(entries, c) /\ count = Tally(entries, Full) /\ tombstones = Tally(entries, {Tombstone})
    BY DEF IInv, TableInv
  <2>2. Slot \subseteq Slots
    BY DEF Slot, Slots, Full, Empty, Tombstone
  <2>3. entries \in [0..(c - 1) -> Slots]
    BY <2>1, <2>2 DEF IsTable
  <2>4. \A i \in DOMAIN entries : /\ entries[i].kind = "full" <=> entries[i] \in Full
                                  /\ entries[i].kind = "tombstone" <=> entries[i] \in {Tombstone}
    BY <2>1, TableFacts DEF Slot, Full, Empty, Tombstone
  <2>5. /\ {i \in DOMAIN entries : entries[i].kind = "full"} = {i \in DOMAIN entries : entries[i] \in Full}
        /\ {i \in DOMAIN entries : entries[i].kind = "tombstone"} = {i \in DOMAIN entries : entries[i] \in {Tombstone}}
    BY <2>4
  <2>6. /\ count = Cardinality({i \in DOMAIN entries : entries[i].kind = "full"})
        /\ tombstones = Cardinality({i \in DOMAIN entries : entries[i].kind = "tombstone"})
    BY <2>1, <2>5 DEF Tally
  <2> QED
    BY <2>3, <2>6 DEF TypeOK, IInv, RefInv, LoopInv
<1> QED
  BY <1>1, Always, PTL

(* Every probe ends, at the entry of its key if the table has one, after    *)
(* any assignments, deletions, rehashes and clears.                         *)
THEOREM EveryProbeEnds == MapSpec => []ProbesArrive
<1>1. IInv => ProbesArrive
  BY TableSize DEF IInv, TableInv, ProbesArrive, Arrives
<1> QED
  BY <1>1, Always, PTL

(* A string's count is the program's references to it and the table's, as   *)
(* key and as value: nothing is released twice and nothing leaks.           *)
THEOREM ReferencesBalance == MapSpec => []RefsCounted
<1>1. IInv => \A s \in Strs : rc[s] = held[s] + Uses(s)
  <2> SUFFICES ASSUME IInv, NEW s \in Strs PROVE rc[s] = held[s] + Uses(s)
    OBVIOUS
  <2> DEFINE u == Tally(entries, KeyedBy(s))
             w == Tally(entries, ValuedBy(s))
  <2>1. rc[s] = held[s] + u + w /\ rc[s] \in Nat
    BY DEF IInv, RefInv
  <2>2. Uses(s) = u + w /\ u \in Nat /\ w \in Nat
    BY UsesFacts DEF IInv, TableInv
  <2>3. held[s] \in Nat
    BY MapAssumption DEF IInv, RefInv
  <2> HIDE DEF u, w
  <2> QED
    BY <2>1, <2>2, <2>3
<1>2. TypeOK /\ IInv => RefsCounted
  BY <1>1 DEF RefsCounted
<1> QED
  BY <1>2, Always, TypeCorrect, PTL
-----------------------------------------------------------------------------
(* What a table answers.                                                    *)
Lookup(f, k) == LET stops == IF DOMAIN f # {} THEN Stops(f, k) ELSE {}
                IN IF stops = {} THEN Absent
                   ELSE LET e == f[Probe(f, k, Min(stops))]
                        IN IF Holds(e, k) THEN e.val ELSE Absent

Answers(f) == [k \in Keys |-> Lookup(f, k)]

LEMMA LookupFacts ==
  ASSUME NEW c, NEW f, IsTable(f, c), Arrives(f), NEW k \in Keys
  PROVE  /\ \A i \in DOMAIN f : Holds(f[i], k) => Lookup(f, k) = f[i].val
         /\ (\A i \in DOMAIN f : ~Holds(f[i], k)) => Lookup(f, k) = Absent
         /\ Lookup(f, k) # Absent <=> \E i \in DOMAIN f : Holds(f[i], k)
<1>1. ASSUME NEW i \in DOMAIN f, Holds(f[i], k)
      PROVE  Lookup(f, k) = f[i].val /\ Lookup(f, k) # Absent
  <2>1. Stops(f, k) # {} /\ i = FindSlot(f, k)
    BY <1>1 DEF Arrives, Holds
  <2>2. Lookup(f, k) = f[i].val
    BY <1>1, <2>1 DEF Lookup, FindSlot
  <2>3. f[i].val \in Strs \cup {Nil}
    BY <1>1, KeyFacts, TableFacts
  <2> QED
    BY <2>2, <2>3, MapAssumption
<1>2. ASSUME \A i \in DOMAIN f : ~Holds(f[i], k)
      PROVE  Lookup(f, k) = Absent
  <2>1. CASE DOMAIN f = {} \/ Stops(f, k) = {}
    BY <2>1 DEF Lookup
  <2>2. CASE DOMAIN f # {} /\ Stops(f, k) # {}
    <3>1. c > 0
      BY <2>2, TableFacts
    <3>2. FindSlot(f, k) \in DOMAIN f
      BY <2>2, <3>1, FindFacts
    <3> QED
      BY <1>2, <2>2, <3>2 DEF Lookup, FindSlot
  <2> QED
    BY <2>1, <2>2
<1> QED
  BY <1>1, <1>2

LEMMA LookupPut ==
  ASSUME NEW c, NEW f, IsTable(f, c), Arrives(f), NEW p \in DOMAIN f, NEW e \in Full,
         f[p] \in Full => KeyOf(f[p].key) = KeyOf(e.key),
         NEW g, IsTable(g, c), Arrives(g), g[p] = e, \A i \in DOMAIN f \ {p} : g[i] = f[i]
  PROVE  Answers(g) = [Answers(f) EXCEPT ![KeyOf(e.key)] = e.val]
<1>1. DOMAIN g = DOMAIN f /\ g[p] = e /\ \A i \in DOMAIN f \ {p} : g[i] = f[i]
  BY TableFacts
<1>2. KeyOf(e.key) \in Keys /\ Holds(e, KeyOf(e.key)) /\ \A k \in Keys : Holds(e, k) => k = KeyOf(e.key)
  BY KeyFacts DEF Slot
<1>3. Lookup(g, KeyOf(e.key)) = e.val
  <2> DEFINE ke == KeyOf(e.key)
  <2>1. ke \in Keys /\ p \in DOMAIN g /\ g[p] = e /\ Holds(g[p], ke)
    BY <1>1, <1>2
  <2> HIDE DEF ke
  <2>2. Lookup(g, ke) = g[p].val
    BY <2>1, LookupFacts
  <2> QED
    BY <2>1, <2>2 DEF ke
<1>4. ASSUME NEW k \in Keys, k # KeyOf(e.key)
      PROVE  Lookup(g, k) = Lookup(f, k)
  <2>1. ~Holds(f[p], k) /\ ~Holds(g[p], k)
    BY <1>1, <1>2, <1>4, KeyFacts, TableFacts
  <2>2. CASE \E i \in DOMAIN f : Holds(f[i], k)
    <3>1. PICK i \in DOMAIN f : Holds(f[i], k)
      BY <2>2
    <3>2. i \in DOMAIN g /\ g[i] = f[i] /\ Holds(g[i], k)
      BY <1>1, <2>1, <3>1
    <3>3. Lookup(f, k) = f[i].val
      BY <3>1, LookupFacts
    <3>4. Lookup(g, k) = g[i].val
      BY <3>2, LookupFacts
    <3> QED
      BY <3>2, <3>3, <3>4
  <2>3. CASE \A i \in DOMAIN f : ~Holds(f[i], k)
    <3>1. \A i \in DOMAIN g : ~Holds(g[i], k)
      BY <1>1, <2>1, <2>3
    <3>2. Lookup(f, k) = Absent
      BY <2>3, LookupFacts
    <3>3. Lookup(g, k) = Absent
      BY <3>1, LookupFacts
    <3> QED
      BY <3>2, <3>3
  <2> QED
    BY <2>2, <2>3
<1> QED
  BY <1>2, <1>3, <1>4 DEF Answers

LEMMA LookupBury ==
  ASSUME NEW c, NEW f, IsTable(f, c), Arrives(f), NEW p \in DOMAIN f, f[p] \in Full,
         NEW g, g = [f EXCEPT ![p] = Tombstone], IsTable(g, c), Arrives(g)
  PROVE  Answers(g) = [Answers(f) EXCEPT ![KeyOf(f[p].key)] = Absent]
<1> DEFINE kp == KeyOf(f[p].key)
<1>1. DOMAIN g = DOMAIN f /\ g[p] = Tombstone /\ \A i \in DOMAIN f \ {p} : g[i] = f[i]
  BY DEF IsTable
<1>2. kp \in Keys /\ Holds(f[p], kp) /\ \A k \in Keys : (Holds(f[p], k) => k = kp) /\ ~Holds(g[p], k)
  BY <1>1, KeyFacts DEF Slot
<1>3. \A i \in DOMAIN f \ {p} : ~Holds(f[i], kp)
  <2> SUFFICES ASSUME NEW i \in DOMAIN f \ {p}, Holds(f[i], kp) PROVE FALSE
    OBVIOUS
  <2> QED
    BY <1>2, StoredOnce DEF Holds
<1> HIDE DEF kp
<1>4. \A i \in DOMAIN g : ~Holds(g[i], kp)
  BY <1>1, <1>2, <1>3
<1>5. Lookup(g, kp) = Absent
  BY <1>2, <1>4, LookupFacts
<1>6. ASSUME NEW k \in Keys, k # kp
      PROVE  Lookup(g, k) = Lookup(f, k)
  <2>1. ~Holds(f[p], k) /\ ~Holds(g[p], k)
    BY <1>2, <1>6
  <2>2. CASE \E i \in DOMAIN f : Holds(f[i], k)
    <3>1. PICK i \in DOMAIN f : Holds(f[i], k)
      BY <2>2
    <3>2. i \in DOMAIN g /\ g[i] = f[i] /\ Holds(g[i], k)
      BY <1>1, <2>1, <3>1
    <3>3. Lookup(f, k) = f[i].val
      BY <3>1, LookupFacts
    <3>4. Lookup(g, k) = g[i].val
      BY <3>2, LookupFacts
    <3> QED
      BY <3>2, <3>3, <3>4
  <2>3. CASE \A i \in DOMAIN f : ~Holds(f[i], k)
    <3>1. \A i \in DOMAIN g : ~Holds(g[i], k)
      BY <1>1, <2>1, <2>3
    <3>2. Lookup(f, k) = Absent
      BY <2>3, LookupFacts
    <3>3. Lookup(g, k) = Absent
      BY <3>1, LookupFacts
    <3> QED
      BY <3>2, <3>3
  <2> QED
    BY <2>2, <2>3
<1> QED
  BY <1>2, <1>5, <1>6 DEF Answers, kp

(* A rehash answers the same.                                               *)
LEMMA LookupSame ==
  ASSUME NEW c, NEW f, IsTable(f, c), Arrives(f), NEW d, NEW g, IsTable(g, d), Arrives(g),
         \A E \in SUBSET Full : Tally(g, E) = Tally(f, E)
  PROVE  Answers(g) = Answers(f)
<1>1. ASSUME NEW e \in Full, NEW i \in DOMAIN f, f[i] = e
      PROVE  \E j \in DOMAIN g : g[j] = e
  <2> DEFINE E == {e}
  <2>1. E \in SUBSET Full /\ f[i] \in E
    BY <1>1
  <2>2. Tally(f, E) # 0
    <3> HIDE DEF E
    <3> QED
      BY <2>1, TallyFacts
  <2>3. Tally(g, E) # 0
    BY <2>1, <2>2
  <2>4. \E j \in DOMAIN g : g[j] \in E
    <3> HIDE DEF E
    <3> QED
      BY <2>3, TallyFacts
  <2> QED
    BY <2>4
<1>2. ASSUME NEW e \in Full, NEW i \in DOMAIN g, g[i] = e
      PROVE  \E j \in DOMAIN f : f[j] = e
  <2> DEFINE E == {e}
  <2>1. E \in SUBSET Full /\ g[i] \in E
    BY <1>2
  <2>2. Tally(g, E) # 0
    <3> HIDE DEF E
    <3> QED
      BY <2>1, TallyFacts
  <2>3. Tally(f, E) # 0
    BY <2>1, <2>2
  <2>4. \E j \in DOMAIN f : f[j] \in E
    <3> HIDE DEF E
    <3> QED
      BY <2>3, TallyFacts
  <2> QED
    BY <2>4
<1>3. ASSUME NEW k \in Keys
      PROVE  Lookup(g, k) = Lookup(f, k)
  <2>1. CASE \E i \in DOMAIN f : Holds(f[i], k)
    <3>1. PICK i \in DOMAIN f : Holds(f[i], k)
      BY <2>1
    <3>2. f[i] \in Full
      BY <3>1, KeyFacts, TableFacts
    <3>3. PICK j \in DOMAIN g : g[j] = f[i]
      BY <1>1, <3>2
    <3>4. Lookup(f, k) = f[i].val
      BY <3>1, LookupFacts
    <3>5. Lookup(g, k) = g[j].val
      BY <3>1, <3>3, LookupFacts
    <3> QED
      BY <3>3, <3>4, <3>5
  <2>2. CASE \A i \in DOMAIN f : ~Holds(f[i], k)
    <3>1. ASSUME NEW j \in DOMAIN g, Holds(g[j], k) PROVE FALSE
      <4>1. g[j] \in Full
        BY <3>1, KeyFacts, TableFacts
      <4>2. PICK i \in DOMAIN f : f[i] = g[j]
        BY <1>2, <4>1
      <4> QED
        BY <2>2, <3>1, <4>2
    <3>2. Lookup(f, k) = Absent
      BY <2>2, LookupFacts
    <3>3. Lookup(g, k) = Absent
      BY <3>1, LookupFacts
    <3> QED
      BY <3>2, <3>3
  <2> QED
    BY <2>1, <2>2
<1> QED
  BY <1>3 DEF Answers

LEMMA LookupNew ==
  ASSUME NEW c \in Nat
  PROVE  Answers(NewTable(c)) = [k \in Keys |-> Absent]
<1>1. IsTable(NewTable(c), c) /\ Arrives(NewTable(c))
  BY NewFacts
<1>2. \A i \in DOMAIN NewTable(c), k \in Keys : ~Holds(NewTable(c)[i], k)
  BY DEF NewTable, Holds, Empty
<1>3. \A k \in Keys : Lookup(NewTable(c), k) = Absent
  BY <1>1, <1>2, LookupFacts
<1> QED
  BY <1>3 DEF Answers
-----------------------------------------------------------------------------
(* The refinement.                                                          *)
LEMMA SetAnswers ==
  ASSUME IInv, NEW a \in Named, NEW v \in (Named \cap Strs) \cup {Nil}, Set(a, v)
  PROVE  LET k == KeyOf(a) IN
         /\ k \in Keys /\ v \in Strs \cup {Nil} /\ Answers(entries') = [Answers(entries) EXCEPT ![k] = v]
         /\ LoopIsOver \/ (Lookup(entries, k) # Absent /\ UNCHANGED <<looping, seen>>)
<1> DEFINE k == KeyOf(a)
<1>1. TableInv /\ a \in IntKeys \cup Strs /\ v \in Strs \cup {Nil} /\ k \in Keys
      /\ IsTable(entries, Capacity(entries)) /\ Arrives(entries)
  <2>1. TableInv /\ RefInv
    BY DEF IInv
  <2>2. a \in IntKeys \cup Strs
    BY <2>1, Alive
  <2>3. k \in Keys
    BY <2>2, KeyFacts
  <2> QED
    BY <2>1, <2>2, <2>3 DEF TableInv
<1>2. PICK c \in Nat, p \in DOMAIN Ensured, ent \in Full :
           /\ c > 1 /\ IsTable(Ensured, c) /\ Arrives(Ensured)
           /\ \A E \in SUBSET Full : Tally(Ensured, E) = Tally(entries, E)
           /\ entries' = [Ensured EXCEPT ![p] = ent] /\ IsTable(entries', c) /\ Arrives(entries')
           /\ KeyOf(ent.key) = KeyOf(a) /\ ent.val = v
           /\ IF Ensured[p] \in Full THEN ent.key = Ensured[p].key /\ KeyOf(Ensured[p].key) = KeyOf(a)
              ELSE ent.key = a /\ \A i \in DOMAIN Ensured : ~Holds(Ensured[i], KeyOf(a))
           /\ count' = Tally(entries', Full) /\ tombstones' = Tally(entries', {Tombstone})
           /\ (count' + tombstones') * 4 < c * 3
           /\ rc' = Retain(Release(IF Ensured[p] \in Full THEN rc ELSE Retain(rc, a), Ensured[p].val), v)
           /\ IF Ensured[p] \notin Full \/ Crowded THEN LoopIsOver ELSE UNCHANGED loopVars
           /\ UNCHANGED held
  BY <1>1, SetFacts
<1>3. Answers(Ensured) = Answers(entries)
  <2>1. IsTable(Ensured, c) /\ Arrives(Ensured) /\ \A E \in SUBSET Full : Tally(Ensured, E) = Tally(entries, E)
    BY <1>2
  <2> QED
    BY <1>1, <2>1, LookupSame
<1>4. Answers(entries') = [Answers(Ensured) EXCEPT ![KeyOf(ent.key)] = ent.val]
  <2> DEFINE f == Ensured
             g == entries'
  <2>1. /\ IsTable(f, c) /\ Arrives(f) /\ IsTable(g, c) /\ Arrives(g)
        /\ p \in DOMAIN f /\ ent \in Full /\ (f[p] \in Full => KeyOf(f[p].key) = KeyOf(ent.key))
    BY <1>2
  <2>2. g[p] = ent /\ \A i \in DOMAIN f \ {p} : g[i] = f[i]
    BY <1>2 DEF IsTable
  <2> HIDE DEF k, f, g
  <2>3. Answers(g) = [Answers(f) EXCEPT ![KeyOf(ent.key)] = ent.val]
    BY <2>1, <2>2, LookupPut
  <2> QED
    BY <2>3 DEF f, g
<1>5. LoopIsOver \/ (Lookup(entries, k) # Absent /\ UNCHANGED <<looping, seen>>)
  <2>1. CASE Ensured[p] \notin Full \/ Crowded
    BY <1>2, <2>1
  <2>2. CASE Ensured[p] \in Full /\ ~Crowded
    <3>1. Ensured = entries /\ UNCHANGED <<looping, seen>>
      BY <1>2, <2>2 DEF Ensured, loopVars
    <3>2. p \in DOMAIN entries /\ entries[p] \in Full /\ KeyOf(entries[p].key) = k
      BY <1>2, <2>2, <3>1
    <3>3. Holds(entries[p], k)
      BY <1>1, <3>2, KeyFacts, TableFacts
    <3> HIDE DEF k
    <3> QED
      BY <1>1, <3>1, <3>2, <3>3, LookupFacts
  <2> QED
    BY <2>1, <2>2
<1> QED
  BY <1>1, <1>2, <1>3, <1>4, <1>5

LEMMA DictionarySteps == IInv /\ [MapNext]_mapVars => [Promise!Next]_(Promise!vars)
<1> SUFFICES ASSUME IInv, [MapNext]_mapVars PROVE [Promise!Next]_(Promise!vars)
  OBVIOUS
<1> DEFINE dict  == [k \in Keys |-> Answer(k)]
           after == [k \in Keys |-> Answer(k)']
<1>1. dict = Answers(entries) /\ after = Answers(entries')
  BY DEF Answers, Lookup, Answer, Exists
<1>2. TableInv /\ RefInv /\ LoopInv /\ IsTable(entries, Capacity(entries)) /\ Arrives(entries)
  BY DEF IInv, TableInv
<1>3. Capacity(entries) \in Nat
  BY <1>2, TableFacts
<1>4. \A k \in Keys : dict[k] # Absent <=> \E i \in DOMAIN entries : Holds(entries[i], k)
  <2> SUFFICES ASSUME NEW k \in Keys PROVE dict[k] # Absent <=> \E i \in DOMAIN entries : Holds(entries[i], k)
    OBVIOUS
  <2>1. dict[k] = Lookup(entries, k)
    BY <1>1 DEF Answers
  <2> QED
    BY <1>2, <2>1, LookupFacts
<1>5. UNCHANGED entries => after = dict
  BY <1>1
<1> HIDE DEF dict, after
<1>6. CASE after = dict /\ UNCHANGED <<looping, seen>>
  BY <1>6 DEF Promise!vars, dict, after
<1>7. ASSUME NEW s \in Strs, NewString(s) \/ DropString(s) PROVE [Promise!Next]_(Promise!vars)
  <2>1. UNCHANGED <<entries, looping, seen>>
    BY <1>7 DEF NewString, DropString, tableVars, loopVars
  <2> QED
    BY <1>5, <1>6, <2>1
<1>8. ASSUME NEW a \in Named, Get(a) PROVE [Promise!Next]_(Promise!vars)
  <2>1. UNCHANGED <<entries, looping, seen>>
    BY <1>8 DEF Get, tableVars, loopVars
  <2> QED
    BY <1>5, <1>6, <2>1
<1>9. ASSUME NEW a \in Named, Delete(a) PROVE [Promise!Next]_(Promise!vars)
  <2>1. a \in IntKeys \cup Strs
    BY <1>2, Alive
  <2>2. PICK p \in DOMAIN entries :
           /\ Exists /\ entries[p] \in Full /\ KeyOf(entries[p].key) = KeyOf(a)
           /\ entries' = [entries EXCEPT ![p] = Tombstone]
           /\ IsTable(entries', Capacity(entries)) /\ Arrives(entries')
           /\ count' = Tally(entries', Full) /\ tombstones' = Tally(entries', {Tombstone})
           /\ count' + tombstones' = count + tombstones
           /\ rc' = Release(Release(rc, entries[p].key), entries[p].val)
           /\ UNCHANGED <<held, loopVars>>
    BY <1>2, <1>9, <2>1, DeleteFacts
  <2>3. after = [dict EXCEPT ![KeyOf(entries[p].key)] = Absent]
    BY <1>1, <1>2, <2>2, LookupBury
  <2>4. KeyOf(entries[p].key) \in Keys /\ dict[KeyOf(entries[p].key)] # Absent
    <3> DEFINE k == KeyOf(entries[p].key)
    <3>1. k \in Keys /\ Holds(entries[p], k)
      BY <2>2, KeyFacts DEF Holds
    <3> HIDE DEF k
    <3>2. dict[k] # Absent
      BY <1>4, <3>1
    <3> QED
      BY <3>1, <3>2 DEF k
  <2>5. UNCHANGED <<looping, seen>>
    BY <2>2 DEF loopVars
  <2>6. Promise!Delete
    BY <2>3, <2>4, <2>5 DEF Promise!Delete, Promise!Present, dict, after
  <2> QED
    BY <2>6 DEF Promise!Next
<1>10. ASSUME NEW a \in Named, NEW v \in (Named \cap Strs) \cup {Nil}, Set(a, v)
       PROVE  [Promise!Next]_(Promise!vars)
  <2> DEFINE k == KeyOf(a)
  <2>1. /\ k \in Keys /\ v \in Strs \cup {Nil} /\ Answers(entries') = [Answers(entries) EXCEPT ![k] = v]
        /\ LoopIsOver \/ (Lookup(entries, k) # Absent /\ UNCHANGED <<looping, seen>>)
    BY <1>10, SetAnswers
  <2> HIDE DEF k
  <2>2. after = [dict EXCEPT ![k] = v] /\ dict = [kk \in Keys |-> dict[kk]] /\ dict[k] = Lookup(entries, k)
    BY <1>1, <2>1 DEF Answers
  <2>3. after[k] = v
    BY <2>1, <2>2
  <2>4. after = [dict EXCEPT ![k] = after[k]] /\ after[k] \in Strs \cup {Nil}
    BY <2>1, <2>2, <2>3
  <2>5. (looping' = FALSE /\ seen' = {}) \/ (dict[k] # Absent /\ UNCHANGED <<looping, seen>>)
    BY <2>1, <2>2 DEF LoopIsOver
  <2>6. Promise!Set
    BY <2>1, <2>4, <2>5 DEF Promise!Set, Promise!Upset, Promise!Present, dict, after
  <2> QED
    BY <2>6 DEF Promise!Next
<1>11. CASE Clear \/ Free
  <2>1. PICK c \in Nat : entries' = NewTable(c)
    BY <1>3, <1>11 DEF Clear, Free
  <2>2. after = [k \in Keys |-> Absent]
    BY <1>1, <2>1, LookupNew
  <2>3. (looping' = FALSE /\ seen' = {}) \/ UNCHANGED <<looping, seen>>
    BY <1>11 DEF Clear, Free, LoopIsOver, loopVars
  <2>4. Promise!Clear
    BY <2>2, <2>3 DEF Promise!Clear, Promise!Upset, after
  <2> QED
    BY <2>4 DEF Promise!Next
<1>12. CASE NewMap
  <2>1. ~Exists /\ entries' = NewTable(Cap0) /\ UNCHANGED <<looping, seen>>
    BY <1>12 DEF NewMap, loopVars
  <2>2. after = [k \in Keys |-> Absent]
    BY <1>1, <2>1, LookupNew, MapAssumption
  <2>3. dict = [k \in Keys |-> Absent]
    <3>1. \A k \in Keys : Lookup(entries, k) = Absent
      BY <1>2, <2>1, LookupFacts DEF Exists
    <3> QED
      BY <1>1, <3>1 DEF Answers
  <2> QED
    BY <1>6, <2>1, <2>2, <2>3
<1>13. CASE Begin
  <2>1. ~looping /\ looping' = TRUE /\ UNCHANGED <<entries, seen>>
    BY <1>13 DEF Begin, tableVars
  <2>2. Promise!Begin
    BY <1>5, <2>1 DEF Promise!Begin, dict, after
  <2> QED
    BY <2>2 DEF Promise!Next
<1>14. CASE IterNext
  <2> DEFINE m == Min(Ahead)
             k == KeyOf(entries[m].key)
  <2>1. looping /\ Ahead # {} /\ seen' = seen \cup {k} /\ UNCHANGED <<entries, looping>>
    BY <1>14 DEF IterNext, tableVars
  <2>2. m \in DOMAIN entries /\ entries[m] \in Full /\ k \in Keys \ seen
    BY <2>1, NextEntry
  <2>3. Holds(entries[m], k)
    BY <2>2, KeyFacts DEF Holds
  <2> HIDE DEF k, m
  <2>4. dict[k] # Absent
    BY <1>4, <2>2, <2>3
  <2>5. Promise!Meet
    BY <1>5, <2>1, <2>2, <2>4 DEF Promise!Meet, Promise!Present, dict, after
  <2> QED
    BY <2>5 DEF Promise!Next
<1>15. CASE IterEnd
  <2>1. looping /\ Ahead = {} /\ looping' = FALSE /\ seen' = {} /\ UNCHANGED entries
    BY <1>15 DEF IterEnd, LoopIsOver, tableVars
  <2>2. ASSUME NEW k \in Keys, dict[k] # Absent PROVE k \in seen
    <3>1. PICK i \in DOMAIN entries : Holds(entries[i], k)
      BY <1>4, <2>2
    <3>2. entries[i] \in Full /\ KeyOf(entries[i].key) = k /\ i \in Nat
      BY <1>2, <3>1, KeyFacts, TableFacts
    <3>3. index \in Nat /\ ~(i >= index)
      BY <1>2, <2>1, <3>2, KeyFacts DEF Ahead, LoopInv
    <3>4. i < index
      BY <3>2, <3>3
    <3> QED
      BY <1>2, <3>2, <3>4 DEF LoopInv
  <2>3. Promise!End
    BY <1>5, <2>1, <2>2 DEF Promise!End, Promise!Upset, Promise!Present, dict, after
  <2> QED
    BY <2>3 DEF Promise!Next
<1>16. CASE UNCHANGED mapVars
  <2>1. UNCHANGED <<entries, looping, seen>>
    BY <1>16 DEF mapVars, tableVars, loopVars
  <2> QED
    BY <1>5, <1>6, <2>1
<1> QED
  BY <1>7, <1>8, <1>9, <1>10, <1>11, <1>12, <1>13, <1>14, <1>15, <1>16 DEF MapNext

(* The table answers as a dictionary does, and a loop over it that only     *)
(* deletes or overwrites in place meets every key exactly once.             *)
THEOREM TableIsADictionary == MapSpec => ImplementsDictionary
<1>1. MapInit => Promise!Init
  <2> SUFFICES ASSUME MapInit PROVE Promise!Init
    OBVIOUS
  <2>1. entries = NewTable(Cap0) /\ looping = FALSE /\ seen = {} /\ Cap0 \in Nat
    BY MapAssumption DEF MapInit
  <2>2. [k \in Keys |-> Answer(k)] = Answers(entries)
    BY DEF Answers, Lookup, Answer, Exists
  <2>3. Answers(entries) = [k \in Keys |-> Absent]
    BY <2>1, LookupNew
  <2> QED
    BY <2>1, <2>2, <2>3 DEF Promise!Init
<1> QED
  BY <1>1, Always, DictionarySteps, PTL DEF MapSpec, ImplementsDictionary, Promise!Spec
=============================================================================
