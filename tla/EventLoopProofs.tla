-------------------------- MODULE EventLoopProofs ---------------------------
(***************************************************************************)
(* Proofs about EventLoop, for any threads, tasks, timers, delays and size  *)
(* of the wake pipe: wakeups, the memory of timers, cancels, and the order  *)
(* of tasks.                                                                *)
(***************************************************************************)
EXTENDS EventLoop, FiniteSetTheorems, SequenceTheorems, WellFoundedInduction, TLAPS

Distinct(list) == \A i, j \in DOMAIN list : list[i] = list[j] => i = j

(* Where the loop thread stands while its two detached lists have entries,  *)
(* and that it leaves tua_loop_run only when it was asked to.               *)
Places == /\ batch # <<>> => pc \in {"tasks", "inTask"}
          /\ pc = "inTask" => batch # <<>>
          /\ dueList # <<>> => pc \in {"due", "call", "inTimer"}
          /\ pc \in {"call", "inTimer"} => dueList # <<>>
          /\ pc \in {"stopped", "freed"} => stop

(* A byte in the pipe has its edge, until the loop thread drains the pipe;  *)
(* so a full pipe, which takes no more bytes, loses no wakeup.  Until they  *)
(* are detached tasks have a wakeup, wherever the loop thread stands.       *)
WakeupsKept == /\ pipe > 0 => edge \/ pc = "drain"
               /\ tasks # <<>> /\ pc \notin {"drain", "detach"} => WakeupUnderway
               /\ NoLostWakeup

(* The two lists of timers share their entries with nothing, and hold all   *)
(* that is live.                                                            *)
ListsOwn == /\ Sorted /\ Distinct(timers) /\ Distinct(dueList)
            /\ Listed(timers) \cup Listed(dueList) = Live
            /\ Listed(timers) \cap Listed(dueList) = {}

(* What is active, or was not yet started, was never cancelled; and a timer *)
(* whose flag the loop thread has just read was then neither cancelled by   *)
(* that thread nor called since a cancel.                                   *)
CancelsSound ==
  /\ \A t \in Timers : timer[t].active \/ timer[t].mem = "unused" =>
       quiet[t].by = "nobody" /\ quiet[t].since = 0
  /\ pc = "call" => quiet[Head(dueList)].by # "loop" /\ quiet[Head(dueList)].since = 0
  /\ CancelIsFinal

IInv == TypeOK /\ Places /\ WakeupsKept /\ ListsOwn /\ CancelsSound
-----------------------------------------------------------------------------
(* A set of natural numbers has a least element.                            *)
LEMMA LeastNatural ==
  ASSUME NEW T, T \subseteq Nat, T # {}
  PROVE  \E x \in T : \A y \in T : x <= y
<1> DEFINE R == OpToRel(<, Nat)
<1>1. IsWellFoundedOn(R, Nat)
  BY NatLessThanWellFounded
<1>2. \A x, y \in Nat : y < x => <<y, x>> \in R
  BY DEF OpToRel
<1> HIDE DEF R
<1>3. PICK x \in T : \A y \in T : ~(<<y, x>> \in R)
  BY <1>1, WFMin
<1>4. \A y \in T : ~(y < x)
  BY <1>2, <1>3
<1> QED
  BY <1>4

(* A set of positions that holds all before each of its own is a prefix,    *)
(* and its size is the length of that prefix.                               *)
LEMMA PrefixLength ==
  ASSUME NEW n \in Nat, NEW S, S \subseteq 1..n, \A i \in S : 1..i \subseteq S
  PROVE  Cardinality(S) \in 0..n /\ S = 1..Cardinality(S)
<1> DEFINE T == {i \in Nat : i > 0 /\ i \notin S}
<1>1. n + 1 \in T
  OBVIOUS
<1>2. PICK m \in T : \A i \in T : m <= i
  BY <1>1, LeastNatural
<1>3. m - 1 \in 0..n
  BY <1>1, <1>2
<1>4. S = 1..(m - 1)
  <2>1. \A i \in 1..(m - 1) : i \in S
    BY <1>2
  <2>2. ASSUME NEW i \in S
        PROVE  i \in 1..(m - 1)
    <3>1. CASE i >= m
      <4>1. m \in 1..i
        BY <1>2, <3>1
      <4> QED
        BY <1>2, <4>1
    <3> QED
      BY <1>2, <3>1
  <2> QED
    BY <2>1, <2>2
<1>5. Cardinality(1..(m - 1)) = m - 1
  BY <1>3, FS_Interval
<1> QED
  BY <1>3, <1>4, <1>5

(* Pruning leaves the active timers, in the order of the list.              *)
LEMMA PrunedFacts ==
  ASSUME timers \in Seq(Timers)
  PROVE  /\ Pruned \in Seq(Timers)
         /\ \E at \in [DOMAIN Pruned -> DOMAIN timers] :
              /\ \A k, l \in DOMAIN Pruned : k < l => at[k] < at[l]
              /\ \A k \in DOMAIN Pruned : Pruned[k] = timers[at[k]] /\ timer[Pruned[k]].active
         /\ Listed(Pruned) = {t \in Listed(timers) : timer[t].active}
<1> DEFINE kept == {i \in DOMAIN timers : timer[timers[i]].active}
           below(i) == {j \in kept : j <= i}
           place(i) == Cardinality(below(i))
           n == Cardinality(kept)
           at == [k \in 1..n |-> CHOOSE i \in kept : place(i) = k]
<1>1. Pruned = [k \in 1..n |-> timers[CHOOSE i \in kept : place(i) = k]]
  BY DEF Pruned
<1>2. kept \subseteq 1..Len(timers) /\ Len(timers) \in Nat /\ DOMAIN timers = 1..Len(timers)
  OBVIOUS
<1>3. IsFiniteSet(kept) /\ n \in Nat
  <2>1. IsFiniteSet(1..Len(timers)) /\ kept \in SUBSET (1..Len(timers))
    BY <1>2, FS_Interval
  <2> HIDE DEF kept
  <2>2. IsFiniteSet(kept)
    BY <2>1, FS_Subset
  <2> QED
    BY <2>2, FS_CardinalityType
<1>4. \A i \in kept : i \in below(i) /\ below(i) \subseteq kept /\ i \in Nat
  BY <1>2
<1>5. \A i, j \in kept : i < j => below(i) \subseteq below(j) /\ j \in below(j) /\ j \notin below(i)
  BY <1>4
<1> HIDE DEF kept
<1>6. \A i \in kept : IsFiniteSet(below(i)) /\ place(i) \in 1..n
  <2> SUFFICES ASSUME NEW i \in kept PROVE IsFiniteSet(below(i)) /\ place(i) \in 1..n
    OBVIOUS
  <2>1. below(i) \in SUBSET kept /\ below(i) # {}
    BY <1>4
  <2> HIDE DEF below
  <2>2. IsFiniteSet(below(i)) /\ Cardinality(below(i)) <= n
    BY <1>3, <2>1, FS_Subset
  <2>3. Cardinality(below(i)) \in Nat /\ Cardinality(below(i)) # 0
    BY <2>1, <2>2, FS_EmptySet, FS_CardinalityType
  <2> QED
    BY <1>3, <2>2, <2>3
<1>7. \A i, j \in kept : i < j => place(i) < place(j)
  <2> SUFFICES ASSUME NEW i \in kept, NEW j \in kept, i < j PROVE place(i) < place(j)
    OBVIOUS
  <2>1. below(i) \in SUBSET below(j) /\ below(i) # below(j)
    BY <1>5
  <2>2. IsFiniteSet(below(j)) /\ place(i) \in 1..n /\ place(j) \in 1..n
    BY <1>6
  <2> HIDE DEF below
  <2>3. Cardinality(below(i)) <= Cardinality(below(j)) /\ Cardinality(below(i)) # Cardinality(below(j))
    BY <2>1, <2>2, FS_Subset
  <2> QED
    BY <1>3, <2>2, <2>3
<1> HIDE DEF below, place, n
<1>8. \A k \in 1..n : \E i \in kept : place(i) = k
  <2> DEFINE f == [i \in kept |-> place(i)]
  <2>1. f \in [kept -> 1..n]
    BY <1>6
  <2>2. \A i, j \in kept : f[i] = f[j] => i = j
    BY <1>3, <1>4, <1>6, <1>7
  <2>3. f \in Injection(kept, 1..n)
    BY <2>1, <2>2 DEF Injection, IsInjective
  <2>4. IsFiniteSet(1..n) /\ Cardinality(1..n) = Cardinality(kept)
    BY <1>3, FS_Interval DEF n
  <2>5. f \in Surjection(kept, 1..n)
    BY <2>3, <2>4, FS_Injection
  <2>6. \A k \in 1..n : \E i \in kept : f[i] = k
    BY <2>5 DEF Surjection
  <2> QED
    BY <2>6
<1>9. \A k \in 1..n : at[k] \in kept /\ place(at[k]) = k
  BY <1>8
<1>10. \A k, l \in 1..n : k < l => at[k] < at[l]
  <2> SUFFICES ASSUME NEW k \in 1..n, NEW l \in 1..n, k < l PROVE at[k] < at[l]
    OBVIOUS
  <2>1. /\ at[k] \in kept /\ at[l] \in kept /\ at[k] \in Nat /\ at[l] \in Nat
        /\ place(at[k]) = k /\ place(at[l]) = l /\ k \in Nat /\ l \in Nat
    BY <1>3, <1>4, <1>9
  <2> HIDE DEF at
  <2>2. at[k] # at[l]
    BY <2>1
  <2>3. ~(at[l] < at[k])
    BY <1>7, <2>1
  <2> QED
    BY <2>1, <2>2, <2>3
<1>11. /\ DOMAIN Pruned = 1..n
       /\ \A k \in 1..n : Pruned[k] = timers[at[k]]
  BY <1>1
<1>12. \A i \in kept : \E k \in 1..n : at[k] = i
  <2> SUFFICES ASSUME NEW i \in kept PROVE at[place(i)] = i /\ place(i) \in 1..n
    OBVIOUS
  <2>1. place(i) \in 1..n /\ at[place(i)] \in kept /\ place(at[place(i)]) = place(i)
    BY <1>6, <1>9
  <2> HIDE DEF at
  <2>2. at[place(i)] \in Nat /\ i \in Nat /\ place(i) \in Nat
    BY <1>3, <1>4, <2>1
  <2>3. ~(at[place(i)] < i) /\ ~(i < at[place(i)])
    BY <1>7, <2>1, <2>2
  <2> QED
    BY <2>1, <2>2, <2>3
<1>13. at \in [1..n -> kept]
  BY <1>9
<1> HIDE DEF at
<1>14. \A i \in kept : i \in DOMAIN timers /\ timer[timers[i]].active
  BY DEF kept
<1>15. \A i \in DOMAIN timers : timer[timers[i]].active => i \in kept
  BY DEF kept
<1>16. Pruned \in Seq(Timers)
  <2>1. \A k \in 1..n : Pruned[k] \in Timers
    BY <1>11, <1>13, <1>14
  <2>2. Pruned \in [1..n -> Timers]
    BY <1>1, <2>1
  <2> QED
    BY <1>3, <2>2, IsASeq
<1>17. at \in [DOMAIN Pruned -> DOMAIN timers]
  BY <1>11, <1>13, <1>14
<1>18. Listed(Pruned) = {t \in Listed(timers) : timer[t].active}
  <2>1. \A k \in 1..n : Pruned[k] \in Listed(timers) /\ timer[Pruned[k]].active
    BY <1>11, <1>13, <1>14 DEF Listed
  <2>2. \A i \in DOMAIN timers : timer[timers[i]].active => \E k \in 1..n : Pruned[k] = timers[i]
    BY <1>11, <1>12, <1>15
  <2> QED
    BY <1>11, <2>1, <2>2 DEF Listed
<1>19. /\ \A k, l \in DOMAIN Pruned : k < l => at[k] < at[l]
       /\ \A k \in DOMAIN Pruned : Pruned[k] = timers[at[k]] /\ timer[Pruned[k]].active
  BY <1>10, <1>11, <1>13, <1>14
<1> QED
  BY <1>16, <1>17, <1>18, <1>19

(* The first entry of a list and the others.                                *)
LEMMA HeadAndTail ==
  ASSUME NEW T, NEW s \in Seq(T), s # <<>>
  PROVE  /\ Head(s) \in T /\ Tail(s) \in Seq(T)
         /\ Listed(s) = {Head(s)} \cup Listed(Tail(s))
         /\ Distinct(s) => Distinct(Tail(s)) /\ Head(s) \notin Listed(Tail(s))
<1>1. /\ Head(s) \in T /\ Tail(s) \in Seq(T) /\ Head(s) = s[1]
      /\ DOMAIN s = 1..Len(s) /\ Len(s) \in Nat /\ Len(s) >= 1
      /\ DOMAIN Tail(s) = 1..(Len(s) - 1)
      /\ \A k \in 1..(Len(s) - 1) : Tail(s)[k] = s[k + 1]
  OBVIOUS
<1>2. Listed(s) \subseteq {Head(s)} \cup Listed(Tail(s))
  <2> SUFFICES ASSUME NEW i \in DOMAIN s, i # 1 PROVE \E k \in DOMAIN Tail(s) : Tail(s)[k] = s[i]
    BY <1>1 DEF Listed
  <2>1. i - 1 \in 1..(Len(s) - 1) /\ (i - 1) + 1 = i
    BY <1>1
  <2> QED
    BY <1>1, <2>1
<1>3. \A k \in DOMAIN Tail(s) : k + 1 \in DOMAIN s /\ k + 1 # 1 /\ Tail(s)[k] = s[k + 1]
  BY <1>1
<1>4. {Head(s)} \cup Listed(Tail(s)) \subseteq Listed(s)
  BY <1>1, <1>3 DEF Listed
<1>5. ASSUME Distinct(s)
      PROVE  Distinct(Tail(s)) /\ Head(s) \notin Listed(Tail(s))
  <2>1. \A k, l \in DOMAIN Tail(s) : k \in Nat /\ l \in Nat /\ (k + 1 = l + 1 => k = l)
    BY <1>1
  <2>2. Distinct(Tail(s))
    BY <1>3, <1>5, <2>1 DEF Distinct
  <2>3. Head(s) \notin Listed(Tail(s))
    BY <1>1, <1>3, <1>5 DEF Distinct, Listed
  <2> QED
    BY <2>2, <2>3
<1> QED
  BY <1>1, <1>2, <1>4, <1>5

(* What InsertAt puts where.                                                *)
LEMMA InsertAtFacts ==
  ASSUME NEW T, NEW s \in Seq(T), NEW i \in 1..(Len(s) + 1), NEW e \in T
  PROVE  /\ InsertAt(s, i, e) \in Seq(T) /\ DOMAIN InsertAt(s, i, e) = 1..(Len(s) + 1)
         /\ \A k \in 1..(Len(s) + 1) :
              InsertAt(s, i, e)[k] = IF k < i THEN s[k] ELSE IF k = i THEN e ELSE s[k - 1]
<1> DEFINE a == SubSeq(s, 1, i - 1)
           b == SubSeq(s, i, Len(s))
<1>1. Len(s) \in Nat /\ i \in Nat /\ i >= 1 /\ i <= Len(s) + 1
  OBVIOUS
<1>2. /\ a \in Seq(T) /\ Len(a) = i - 1
      /\ \A k \in 1..(i - 1) : a[k] = s[k]
  BY <1>1
<1>3. /\ b \in Seq(T) /\ Len(b) = Len(s) - i + 1
      /\ \A k \in 1..(Len(s) - i + 1) : b[k] = s[k + i - 1]
  BY <1>1
<1>4. InsertAt(s, i, e) = a \o <<e>> \o b
  BY DEF InsertAt
<1> HIDE DEF a, b
<1>5. /\ a \o <<e>> \in Seq(T) /\ Len(a \o <<e>>) = i
      /\ \A k \in 1..i : (a \o <<e>>)[k] = IF k < i THEN a[k] ELSE e
  BY <1>1, <1>2
<1> DEFINE c == a \o <<e>>
<1> HIDE DEF c
<1>6. /\ c \o b \in Seq(T) /\ Len(c \o b) = Len(s) + 1
      /\ \A k \in 1..(Len(s) + 1) : (c \o b)[k] = IF k <= i THEN c[k] ELSE b[k - i]
  BY <1>1, <1>3, <1>5 DEF c
<1>7. ASSUME NEW k \in 1..(Len(s) + 1)
      PROVE  (c \o b)[k] = IF k < i THEN s[k] ELSE IF k = i THEN e ELSE s[k - 1]
  <2>1. CASE k <= i
    <3>1. k \in 1..i
      BY <1>1, <2>1
    <3>2. c[k] = IF k < i THEN a[k] ELSE e
      BY <1>5, <3>1 DEF c
    <3>3. k < i => a[k] = s[k]
      BY <1>1, <1>2, <3>1
    <3> QED
      BY <1>1, <1>6, <2>1, <3>1, <3>2, <3>3
  <2>2. CASE k > i
    <3>1. k - i \in 1..(Len(s) - i + 1) /\ (k - i) + i - 1 = k - 1
      BY <1>1, <2>2
    <3>2. b[k - i] = s[k - 1]
      BY <1>3, <3>1
    <3> QED
      BY <1>1, <1>6, <2>2, <3>2
  <2>3. k <= i \/ k > i
    BY <1>1
  <2> QED
    BY <2>1, <2>2, <2>3
<1> QED
  BY <1>4, <1>6, <1>7 DEF c

(* Inserting a timer keeps the list sorted and adds that timer to it.       *)
LEMMA InsertSortedFacts ==
  ASSUME timers \in Seq(Timers), NEW t \in Timers, t \notin Listed(timers),
         Sorted, Distinct(timers), InsertSorted(t),
         timer'[t].due \in Nat, \A u \in Timers : timer[u].due \in Nat,
         \A u \in Listed(timers) : timer'[u].due = timer[u].due
  PROVE  /\ timers' \in Seq(Timers) /\ Sorted' /\ Distinct(timers')
         /\ Listed(timers') = Listed(timers) \cup {t}
<1> DEFINE earlier == {i \in DOMAIN timers : \A j \in 1..i : timer[timers[j]].due <= timer'[t].due}
           n == Cardinality(earlier)
           old(k) == IF k < n + 1 THEN k ELSE k - 1
<1>1. Len(timers) \in Nat /\ DOMAIN timers = 1..Len(timers) /\ \A k \in 1..Len(timers) : timers[k] \in Timers
  OBVIOUS
<1>2. n \in 0..Len(timers) /\ earlier = 1..n
  <2>1. earlier \subseteq 1..Len(timers)
    BY <1>1
  <2>2. \A i \in earlier : 1..i \subseteq earlier
    BY <1>1
  <2> HIDE DEF earlier
  <2> QED
    BY <1>1, <2>1, <2>2, PrefixLength
<1>3. timers' = InsertAt(timers, n + 1, t)
  BY DEF InsertSorted
<1>4. \A i \in 1..n : timer[timers[i]].due <= timer'[t].due
  BY <1>2
<1>5. \A i \in (n + 1)..Len(timers) : timer[timers[i]].due > timer'[t].due
  <2>1. CASE n = Len(timers)
    BY <1>1, <2>1
  <2>2. CASE n < Len(timers)
    <3>1. n + 1 \in DOMAIN timers /\ n + 1 \notin earlier
      <4> HIDE DEF n, earlier
      <4> QED
        BY <1>1, <1>2, <2>2
    <3>2. PICK j \in 1..(n + 1) : ~(timer[timers[j]].due <= timer'[t].due)
      BY <3>1
    <3>3. j = n + 1
      BY <1>2, <1>4, <3>2
    <3>4. timer[timers[n + 1]].due > timer'[t].due
      <4>1. n + 1 \in 1..Len(timers)
        BY <1>1, <3>1
      <4>2. timer[timers[n + 1]].due \in Nat /\ timer'[t].due \in Nat
        <5> HIDE DEF n, earlier
        <5> QED
          BY <1>1, <4>1
      <4>3. ~(timer[timers[n + 1]].due <= timer'[t].due)
        BY <3>2, <3>3
      <4> HIDE DEF n, earlier
      <4> QED
        BY <4>2, <4>3
    <3>5. ASSUME NEW i \in (n + 1)..Len(timers)
          PROVE  timer[timers[n + 1]].due <= timer[timers[i]].due
      <4>1. CASE i = n + 1
        BY <1>1, <3>1, <4>1
      <4>2. CASE i # n + 1
        BY <1>1, <1>2, <3>1, <4>2 DEF Sorted
      <4> QED
        BY <4>1, <4>2
    <3> QED
      <4> SUFFICES ASSUME NEW i \in (n + 1)..Len(timers) PROVE timer[timers[i]].due > timer'[t].due
        OBVIOUS
      <4>1. timers[i] \in Timers /\ timers[n + 1] \in Timers
        BY <1>1, <1>2, <3>1
      <4> QED
        BY <3>4, <3>5, <4>1
  <2> QED
    BY <1>2, <2>1, <2>2
<1> HIDE DEF n
<1>6. /\ timers' \in Seq(Timers) /\ DOMAIN timers' = 1..(Len(timers) + 1)
      /\ \A k \in 1..(Len(timers) + 1) :
           timers'[k] = IF k < n + 1 THEN timers[k] ELSE IF k = n + 1 THEN t ELSE timers[k - 1]
  <2>1. PICK p \in 1..(Len(timers) + 1) : p = n + 1
    BY <1>1, <1>2
  <2>2. timers' = InsertAt(timers, p, t)
    BY <1>3, <2>1
  <2>3. /\ InsertAt(timers, p, t) \in Seq(Timers) /\ DOMAIN InsertAt(timers, p, t) = 1..(Len(timers) + 1)
        /\ \A k \in 1..(Len(timers) + 1) :
             InsertAt(timers, p, t)[k] = IF k < p THEN timers[k] ELSE IF k = p THEN t ELSE timers[k - 1]
    BY InsertAtFacts
  <2>4. \A k \in 1..(Len(timers) + 1) :
          timers'[k] = IF k < p THEN timers[k] ELSE IF k = p THEN t ELSE timers[k - 1]
    BY <2>2, <2>3
  <2> QED
    BY <2>1, <2>2, <2>3, <2>4
<1>7. \A k \in DOMAIN timers' : k # n + 1 => old(k) \in DOMAIN timers /\ timers'[k] = timers[old(k)]
  BY <1>1, <1>2, <1>6
<1>8. n + 1 \in DOMAIN timers' /\ timers'[n + 1] = t
  BY <1>1, <1>2, <1>6
<1>9. \A k, l \in DOMAIN timers' : k # n + 1 /\ l # n + 1 => (old(k) = old(l) => k = l) /\ (k < l => old(k) < old(l))
  BY <1>1, <1>2, <1>6
<1>10. Distinct(timers')
  <2> SUFFICES ASSUME NEW k \in DOMAIN timers', NEW l \in DOMAIN timers', timers'[k] = timers'[l] PROVE k = l
    BY DEF Distinct
  <2>1. (k = n + 1 /\ l # n + 1) \/ (k # n + 1 /\ l = n + 1) => FALSE
    BY <1>7, <1>8 DEF Listed
  <2>2. k # n + 1 /\ l # n + 1 => k = l
    BY <1>7, <1>9 DEF Distinct
  <2> QED
    BY <2>1, <2>2
<1>11. Listed(timers') = Listed(timers) \cup {t}
  <2>1. \A i \in DOMAIN timers : \E k \in DOMAIN timers' : timers'[k] = timers[i]
    <3> SUFFICES ASSUME NEW i \in DOMAIN timers PROVE \E k \in DOMAIN timers' : timers'[k] = timers[i]
      OBVIOUS
    <3>1. CASE i < n + 1
      <4>1. i \in 1..(Len(timers) + 1)
        BY <1>1
      <4>2. i \in DOMAIN timers' /\ timers'[i] = timers[i]
        BY <1>6, <3>1, <4>1
      <4> QED
        BY <4>2
    <3>2. CASE i >= n + 1
      <4>1. i + 1 \in DOMAIN timers' /\ (i + 1) - 1 = i /\ ~(i + 1 < n + 1) /\ i + 1 # n + 1
        BY <1>1, <1>2, <1>6, <3>2
      <4> QED
        BY <1>6, <4>1
    <3> QED
      BY <1>1, <1>2, <3>1, <3>2
  <2> QED
    BY <1>7, <1>8, <2>1 DEF Listed
<1>12. Sorted'
  <2> SUFFICES ASSUME NEW k \in DOMAIN timers', NEW l \in DOMAIN timers', k < l
               PROVE  timer'[timers'[k]].due <= timer'[timers'[l]].due
    BY DEF Sorted
  <2>1. \A i \in DOMAIN timers : timers[i] \in Timers /\ timer'[timers[i]].due = timer[timers[i]].due
    BY <1>1 DEF Listed
  <2>2. CASE k # n + 1 /\ l # n + 1
    BY <1>7, <1>9, <2>1, <2>2 DEF Sorted
  <2>3. CASE l = n + 1
    <3>1. k # n + 1 /\ old(k) = k /\ k \in 1..n
      BY <1>1, <1>2, <1>6, <2>3
    <3> QED
      BY <1>4, <1>7, <1>8, <2>1, <2>3, <3>1
  <2>4. CASE k = n + 1
    <3>1. l # n + 1 /\ old(l) \in (n + 1)..Len(timers)
      BY <1>1, <1>2, <1>6, <2>4
    <3>2. timer[timers[old(l)]].due > timer'[t].due /\ timers[old(l)] \in Timers
      BY <1>1, <1>2, <1>5, <3>1
    <3> QED
      BY <1>7, <1>8, <2>1, <2>4, <3>1, <3>2
  <2> QED
    BY <2>2, <2>3, <2>4
<1> QED
  BY <1>6, <1>10, <1>11, <1>12

(* The due prefix goes to dueList, back to front, and the rest stays.       *)
LEMMA CollectFacts ==
  ASSUME NEW list \in Seq(Timers), Distinct(list), CollectFrom(list)
  PROVE  /\ timers' \in Seq(Timers) /\ dueList' \in Seq(Timers)
         /\ Distinct(timers') /\ Distinct(dueList')
         /\ Listed(timers') \cup Listed(dueList') = Listed(list)
         /\ Listed(timers') \cap Listed(dueList') = {}
         /\ \E n \in 0..Len(list) : \A k \in DOMAIN timers' : n + k \in DOMAIN list /\ timers'[k] = list[n + k]
<1> DEFINE due == {i \in DOMAIN list : \A j \in 1..i : timer[list[j]].due <= clock}
           n == Cardinality(due)
<1>1. Len(list) \in Nat /\ DOMAIN list = 1..Len(list) /\ \A k \in 1..Len(list) : list[k] \in Timers
  OBVIOUS
<1>2. n \in 0..Len(list)
  <2>1. due \subseteq 1..Len(list) /\ \A i \in due : 1..i \subseteq due
    BY <1>1
  <2> HIDE DEF due
  <2> QED
    BY <1>1, <2>1, PrefixLength
<1>3. timers' = SubSeq(list, n + 1, Len(list)) /\ dueList' = Reverse(SubSeq(list, 1, n))
  BY DEF CollectFrom
<1> HIDE DEF n
<1>4. /\ timers' \in Seq(Timers) /\ DOMAIN timers' = 1..(Len(list) - n)
      /\ \A k \in 1..(Len(list) - n) : timers'[k] = list[n + k]
  BY <1>1, <1>2, <1>3
<1>5. /\ dueList' \in Seq(Timers) /\ DOMAIN dueList' = 1..n
      /\ \A k \in 1..n : dueList'[k] = list[n - k + 1]
  <2> DEFINE s == SubSeq(list, 1, n)
  <2>1. s \in Seq(Timers) /\ Len(s) = n /\ \A k \in 1..n : s[k] = list[k]
    BY <1>1, <1>2
  <2>2. dueList' = [k \in 1..Len(s) |-> s[(Len(s) - k) + 1]]
    BY <1>3 DEF Reverse
  <2> HIDE DEF s
  <2>3. dueList' = [k \in 1..n |-> s[(n - k) + 1]]
    BY <2>1, <2>2
  <2>4. \A k \in 1..n : (n - k) + 1 \in 1..n /\ s[(n - k) + 1] = list[(n - k) + 1] /\ list[(n - k) + 1] \in Timers
    BY <1>1, <1>2, <2>1
  <2>5. dueList' \in [1..n -> Timers]
    BY <2>3, <2>4
  <2>6. dueList' \in Seq(Timers)
    BY <1>2, <2>5, IsASeq
  <2>7. \A k \in 1..n : dueList'[k] = s[(n - k) + 1]
    BY <2>3
  <2>8. \A k \in 1..n : dueList'[k] = list[n - k + 1]
    BY <2>4, <2>7
  <2>9. DOMAIN dueList' = 1..n
    BY <2>3
  <2> QED
    BY <2>6, <2>8, <2>9
<1>6. \A k \in 1..(Len(list) - n) : n + k \in 1..Len(list) /\ n + k > n /\ n + k \in Nat /\ k \in Nat
  BY <1>1, <1>2
<1>7. \A k \in 1..n : n - k + 1 \in 1..Len(list) /\ n - k + 1 <= n /\ n - k + 1 \in Nat /\ k \in Nat
  BY <1>1, <1>2
<1>8. Distinct(timers')
  <2> SUFFICES ASSUME NEW k \in 1..(Len(list) - n), NEW l \in 1..(Len(list) - n), timers'[k] = timers'[l] PROVE k = l
    BY <1>4 DEF Distinct
  <2>1. n + k = n + l
    BY <1>1, <1>4, <1>6 DEF Distinct
  <2> QED
    BY <1>2, <1>6, <2>1
<1>9. Distinct(dueList')
  <2> SUFFICES ASSUME NEW k \in 1..n, NEW l \in 1..n, dueList'[k] = dueList'[l] PROVE k = l
    BY <1>5 DEF Distinct
  <2>1. n - k + 1 = n - l + 1
    BY <1>1, <1>5, <1>7 DEF Distinct
  <2> QED
    BY <1>2, <1>7, <2>1
<1>10. Listed(timers') \cap Listed(dueList') = {}
  <2> SUFFICES ASSUME NEW k \in 1..(Len(list) - n), NEW l \in 1..n, timers'[k] = dueList'[l] PROVE FALSE
    BY <1>4, <1>5 DEF Listed
  <2>1. n + k = n - l + 1
    BY <1>1, <1>4, <1>5, <1>6, <1>7 DEF Distinct
  <2> QED
    BY <1>2, <1>6, <1>7, <2>1
<1>11. Listed(timers') \cup Listed(dueList') \subseteq Listed(list)
  BY <1>1, <1>4, <1>5, <1>6, <1>7 DEF Listed
<1>12. Listed(list) \subseteq Listed(timers') \cup Listed(dueList')
  <2> SUFFICES ASSUME NEW i \in 1..Len(list)
               PROVE  list[i] \in Listed(timers') \cup Listed(dueList')
    BY <1>1 DEF Listed
  <2> SUFFICES (\E k \in 1..(Len(list) - n) : timers'[k] = list[i]) \/ (\E k \in 1..n : dueList'[k] = list[i])
    BY <1>4, <1>5 DEF Listed
  <2>1. CASE i > n
    <3>1. i - n \in 1..(Len(list) - n) /\ n + (i - n) = i
      BY <1>1, <1>2, <2>1
    <3> QED
      BY <1>4, <3>1
  <2>2. CASE i <= n
    <3>1. n - i + 1 \in 1..n /\ n - (n - i + 1) + 1 = i
      BY <1>1, <1>2, <2>2
    <3> QED
      BY <1>5, <3>1
  <2>3. i > n \/ i <= n
    BY <1>1, <1>2
  <2> QED
    BY <2>1, <2>2, <2>3
<1>13. \A k \in DOMAIN timers' : n + k \in DOMAIN list /\ timers'[k] = list[n + k]
  BY <1>1, <1>4, <1>6
<1> QED
  BY <1>2, <1>4, <1>5, <1>8, <1>9, <1>10, <1>11, <1>12, <1>13

(* A list without repetitions is as long as it has members.                 *)
LEMMA DistinctLength ==
  ASSUME NEW T, NEW s \in Seq(T), Distinct(s)
  PROVE  IsFiniteSet(Listed(s)) /\ Cardinality(Listed(s)) = Len(s)
<1>1. s \in [1..Len(s) -> Listed(s)] /\ Len(s) \in Nat /\ DOMAIN s = 1..Len(s)
  BY DEF Listed
<1>2. IsFiniteSet(1..Len(s)) /\ Cardinality(1..Len(s)) = Len(s)
  <2> DEFINE n == Len(s)
  <2>1. n \in Nat
    BY <1>1
  <2> HIDE DEF n
  <2>2. IsFiniteSet(1..n) /\ Cardinality(1..n) = n
    BY <2>1, FS_Interval
  <2> QED
    BY <2>2 DEF n
<1>3. s \in Surjection(1..Len(s), Listed(s))
  BY <1>1 DEF Surjection, Listed
<1>4. s \in Injection(1..Len(s), Listed(s))
  BY <1>1 DEF Injection, IsInjective, Distinct
<1> QED
  BY <1>2, <1>3, <1>4, FS_Surjection

(* Freeing changes nothing of a timer but its memory.                       *)
LEMMA FreeFacts ==
  ASSUME TypeOK, NEW S, FreeTimers(S)
  PROVE  /\ timer' \in [Timers -> [mem : {"unused", "live", "freed"}, due : Nat, repeat : Nat, active : BOOLEAN]]
         /\ \A t \in Timers : /\ timer'[t].due = timer[t].due
                              /\ timer'[t].active = timer[t].active
                              /\ timer'[t].mem = IF t \in S THEN "freed" ELSE timer[t].mem
         /\ Live' = Live \ S
<1>1. timer \in [Timers -> [mem : {"unused", "live", "freed"}, due : Nat, repeat : Nat, active : BOOLEAN]]
  BY DEF TypeOK
<1>2. timer' = [t \in Timers |-> IF t \in S THEN [timer[t] EXCEPT !.mem = "freed"] ELSE timer[t]]
  BY DEF FreeTimers
<1>3. timer' \in [Timers -> [mem : {"unused", "live", "freed"}, due : Nat, repeat : Nat, active : BOOLEAN]]
  BY <1>1, <1>2
<1>4. \A t \in Timers : /\ timer'[t].due = timer[t].due
                        /\ timer'[t].active = timer[t].active
                        /\ timer'[t].mem = IF t \in S THEN "freed" ELSE timer[t].mem
  BY <1>1, <1>2
<1> QED
  BY <1>3, <1>4 DEF Live

(* A wakeup owed is under way, and owing one forgets none.                  *)
LEMMA OwedIsUnderway ==
  ASSUME TypeOK, NEW a \in Actors, OwesWakeup(a)
  PROVE  calling' \in [Actors -> BOOLEAN] /\ WakeupUnderway'
<1>1. calling' \in [Actors -> BOOLEAN] /\ calling'[a]
  BY DEF OwesWakeup, TypeOK
<1> QED
  BY <1>1 DEF WakeupUnderway
-----------------------------------------------------------------------------
LEMMA InitIInv == Init => IInv
<1> SUFFICES ASSUME Init PROVE IInv
  OBVIOUS
<1> USE LoopAssumption DEF Init
<1>1. TypeOK
  <2>1. tasks \in Seq(Tasks) /\ batch \in Seq(Tasks) /\ timers \in Seq(Timers) /\ dueList \in Seq(Timers)
    OBVIOUS
  <2>2. timer \in [Timers -> [mem : {"unused", "live", "freed"}, due : Nat, repeat : Nat, active : BOOLEAN]]
    OBVIOUS
  <2>3. clock \in 0..MaxTime /\ wakeAt \in Nat /\ pipe \in 0..PipeCap
    BY DEF Forever
  <2> QED
    BY <2>1, <2>2, <2>3 DEF TypeOK
<1>2. Places /\ WakeupsKept /\ CancelsSound
  BY DEF Places, WakeupsKept, NoLostWakeup, CancelsSound, CancelIsFinal
<1>3. ListsOwn
  <2>1. DOMAIN timers = {} /\ DOMAIN dueList = {} /\ Live = {}
    BY DEF Live
  <2> QED
    BY <2>1 DEF ListsOwn, Sorted, Distinct, Listed
<1> QED
  BY <1>1, <1>2, <1>3 DEF IInv

(* A step that leaves the timers and their lists alone.                     *)
LEMMA TimersAlone ==
  ASSUME ListsOwn, UNCHANGED timerVars
  PROVE  ListsOwn'
BY DEF timerVars, ListsOwn, Sorted, Distinct, Listed, Live

(* Posting and stopping owe a wakeup; giving it finds room in the pipe, or  *)
(* a byte whose edge is still there.                                        *)
LEMMA CallsKeep ==
  ASSUME IInv, NEW a \in Actors, (\E k \in Tasks : Post(a, k)) \/ Stop(a) \/ Wakeup(a)
  PROVE  IInv'
<1> USE LoopAssumption DEF IInv
<1>1. UNCHANGED timerVars /\ UNCHANGED loopVars /\ UNCHANGED history /\ UNCHANGED <<batch, ran>>
  BY DEF Post, Stop, Wakeup, taskVars
<1>2. ListsOwn'
  BY <1>1, TimersAlone
<1>3. CancelsSound'
  BY <1>1 DEF CancelsSound, CancelIsFinal, timerVars, loopVars, history
<1>4. CASE (\E k \in Tasks : Post(a, k)) \/ Stop(a)
  <2>1. OwesWakeup(a) /\ UNCHANGED <<pipe, edge>>
    BY <1>4 DEF Post, Stop
  <2>2. calling' \in [Actors -> BOOLEAN] /\ WakeupUnderway'
    BY <2>1, OwedIsUnderway
  <2>3. tasks' \in Seq(Tasks) /\ stop' \in BOOLEAN /\ (stop => stop')
    <3>1. tasks \in Seq(Tasks) /\ stop \in BOOLEAN
      BY DEF TypeOK
    <3>2. CASE \E k \in Tasks : Post(a, k)
      BY <3>1, <3>2 DEF Post
    <3>3. CASE Stop(a)
      BY <3>1, <3>3 DEF Stop, taskVars
    <3> QED
      BY <1>4, <3>2, <3>3
  <2>4. TypeOK'
    BY <1>1, <2>1, <2>2, <2>3 DEF TypeOK, timerVars, loopVars, history
  <2>5. Places'
    BY <1>1, <2>3 DEF Places, timerVars, loopVars
  <2>6. WakeupsKept'
    BY <1>1, <2>1, <2>2 DEF WakeupsKept, NoLostWakeup, loopVars
  <2> QED
    BY <1>2, <1>3, <2>4, <2>5, <2>6
<1>5. CASE Wakeup(a)
  <2>1. UNCHANGED <<tasks, stop>> /\ calling' \in [Actors -> BOOLEAN]
    BY <1>5 DEF Wakeup, taskVars, TypeOK
  <2>2. pipe' \in 0..PipeCap /\ edge' \in BOOLEAN /\ pipe' > 0
    <3>1. pipe \in Nat /\ PipeCap \in Nat /\ PipeCap > 0 /\ pipe <= PipeCap /\ edge \in BOOLEAN
      BY DEF TypeOK
    <3>2. CASE pipe < PipeCap
      BY <1>5, <3>1, <3>2 DEF Wakeup
    <3>3. CASE ~(pipe < PipeCap)
      BY <1>5, <3>1, <3>3 DEF Wakeup
    <3> QED
      BY <3>2, <3>3
  <2>3. edge' \/ pc = "drain"
    BY <1>5 DEF Wakeup, WakeupsKept, TypeOK
  <2>4. TypeOK'
    BY <1>1, <2>1, <2>2 DEF TypeOK, timerVars, loopVars, history
  <2>5. Places'
    BY <1>1, <2>1 DEF Places, timerVars, loopVars
  <2>6. WakeupsKept'
    BY <1>1, <2>1, <2>3 DEF WakeupsKept, NoLostWakeup, WakeupUnderway, loopVars
  <2> QED
    BY <1>2, <1>3, <2>4, <2>5, <2>6
<1> QED
  BY <1>4, <1>5

(* A new timer takes its place on the list.                                 *)
LEMMA StartKeeps ==
  ASSUME IInv, NEW a \in Actors, NEW t \in Timers, NEW d \in Delays, NEW r \in Repeats, StartTimer(a, t, d, r)
  PROVE  IInv'
<1> USE LoopAssumption DEF IInv
<1>1. /\ timer[t].mem = "unused" /\ InsertSorted(t) /\ OwesWakeup(a)
      /\ timer' = [timer EXCEPT ![t] = [mem |-> "live", due |-> clock + d, repeat |-> r, active |-> TRUE]]
      /\ UNCHANGED <<tasks, batch, ran, pipe, edge, stop, dueList, clock, pc, wakeAt, fired, quiet>>
  BY DEF StartTimer, taskVars, loopVars, history
<1>2. clock + d \in Nat /\ r \in Nat
  BY DEF TypeOK
<1>3. /\ timer' \in [Timers -> [mem : {"unused", "live", "freed"}, due : Nat, repeat : Nat, active : BOOLEAN]]
      /\ timer'[t].due = clock + d /\ timer'[t].mem = "live" /\ timer'[t].active
      /\ \A u \in Timers \ {t} : timer'[u] = timer[u]
  BY <1>1, <1>2 DEF TypeOK
<1>4. t \notin Listed(timers) /\ t \notin Listed(dueList)
  BY <1>1 DEF ListsOwn, Live
<1>5. Live' = Live \cup {t}
  BY <1>3 DEF Live
<1>6. /\ timers' \in Seq(Timers) /\ Sorted' /\ Distinct(timers')
      /\ Listed(timers') = Listed(timers) \cup {t}
  <2>1. timers \in Seq(Timers) /\ \A u \in Timers : timer[u].due \in Nat
    BY DEF TypeOK
  <2>2. \A u \in Listed(timers) : timer'[u].due = timer[u].due
    BY <1>3, <1>4 DEF ListsOwn, Live
  <2> QED
    BY <1>1, <1>2, <1>3, <1>4, <2>1, <2>2, InsertSortedFacts DEF ListsOwn
<1>7. calling' \in [Actors -> BOOLEAN] /\ WakeupUnderway'
  BY <1>1, OwedIsUnderway
<1>8. TypeOK'
  BY <1>1, <1>3, <1>6, <1>7 DEF TypeOK
<1>9. ListsOwn'
  <2>1. Listed(timers)' = Listed(timers') /\ Listed(dueList)' = Listed(dueList)
    BY <1>1 DEF Listed
  <2> QED
    BY <1>1, <1>4, <1>5, <1>6, <2>1 DEF ListsOwn, Distinct
<1>10. Places'
  BY <1>1 DEF Places
<1>11. WakeupsKept'
  BY <1>1, <1>7 DEF WakeupsKept, NoLostWakeup
<1>12. CancelsSound'
  BY <1>1, <1>3 DEF CancelsSound, CancelIsFinal
<1> QED
  BY <1>8, <1>9, <1>10, <1>11, <1>12

(* A cancel only marks the timer.                                           *)
LEMMA CancelKeeps ==
  ASSUME IInv, NEW a \in Actors, NEW t \in Timers, CancelTimer(a, t)
  PROVE  IInv'
<1> USE LoopAssumption DEF IInv
<1>1. /\ timer' = [timer EXCEPT ![t].active = FALSE] /\ OwesWakeup(a)
      /\ quiet' = [quiet EXCEPT ![t].by = IF a = LoopThread THEN "loop" ELSE "other"]
      /\ UNCHANGED <<tasks, batch, ran, pipe, edge, stop, timers, dueList, clock, pc, wakeAt, fired>>
      /\ timer[t].active /\ timer[t].mem = "live"
      /\ a = LoopThread => pc # "call"
  BY DEF CancelTimer, MayCancel, MayCall, Live, taskVars, loopVars
<1>2. /\ timer' \in [Timers -> [mem : {"unused", "live", "freed"}, due : Nat, repeat : Nat, active : BOOLEAN]]
      /\ \A u \in Timers : timer'[u].due = timer[u].due /\ timer'[u].mem = timer[u].mem
      /\ ~timer'[t].active
      /\ \A u \in Timers \ {t} : timer'[u] = timer[u]
  <2>1. timer \in [Timers -> [mem : {"unused", "live", "freed"}, due : Nat, repeat : Nat, active : BOOLEAN]]
    BY DEF TypeOK
  <2> QED
    BY <1>1, <2>1
<1>3. /\ quiet' \in [Timers -> [by : {"nobody", "loop", "other"}, since : Nat]]
      /\ quiet'[t].since = 0 /\ (quiet'[t].by = "loop" => a = LoopThread)
      /\ \A u \in Timers \ {t} : quiet'[u] = quiet[u]
  <2>1. quiet \in [Timers -> [by : {"nobody", "loop", "other"}, since : Nat]] /\ quiet[t].since = 0
    BY <1>1 DEF TypeOK, CancelsSound
  <2> QED
    BY <1>1, <2>1
<1>4. Live' = Live
  BY <1>2 DEF Live
<1>5. calling' \in [Actors -> BOOLEAN] /\ WakeupUnderway'
  BY <1>1, OwedIsUnderway
<1>6. TypeOK'
  BY <1>1, <1>2, <1>3, <1>5 DEF TypeOK
<1>7. ListsOwn'
  <2>1. Sorted'
    <3>1. \A i \in DOMAIN timers : timers[i] \in Timers
      BY DEF TypeOK
    <3> QED
      BY <1>1, <1>2, <3>1 DEF ListsOwn, Sorted
  <2> QED
    BY <1>1, <1>4, <2>1 DEF ListsOwn, Distinct, Listed
<1>8. Places'
  BY <1>1 DEF Places
<1>9. WakeupsKept'
  BY <1>1, <1>5 DEF WakeupsKept, NoLostWakeup
<1>10. CancelsSound'
  <2>1. \A u \in Timers : timer'[u].active \/ timer'[u].mem = "unused" => quiet'[u].by = "nobody" /\ quiet'[u].since = 0
    BY <1>1, <1>2, <1>3 DEF CancelsSound
  <2>2. pc = "call" => quiet'[Head(dueList)].by # "loop" /\ quiet'[Head(dueList)].since = 0
    BY <1>1, <1>3, HeadAndTail DEF CancelsSound, Places, TypeOK
  <2>3. CancelIsFinal'
    BY <1>3 DEF CancelsSound, CancelIsFinal
  <2> QED
    BY <1>1, <2>1, <2>2, <2>3 DEF CancelsSound
<1> QED
  BY <1>6, <1>7, <1>8, <1>9, <1>10

(* The steps of the loop thread that touch no timer, and the clock.         *)
LEMMA LoopKeeps ==
  ASSUME IInv,
         \/ Run \/ Leave \/ Awakened \/ TimedOut \/ Interrupted \/ Drain \/ DetachTasks
         \/ BeginTask \/ EndTask \/ CheckActive \/ NextRound \/ Tick
  PROVE  IInv'
<1> USE LoopAssumption DEF IInv
<1>1. UNCHANGED timerVars /\ UNCHANGED history
  BY DEF Run, Leave, Awakened, TimedOut, Interrupted, Drain, DetachTasks, BeginTask, EndTask,
         CheckActive, NextRound, Tick
<1>2. ListsOwn'
  BY <1>1, TimersAlone
<1>3. CASE Run \/ Leave \/ TimedOut \/ Interrupted \/ BeginTask \/ CheckActive \/ NextRound \/ Tick
  <2>1. UNCHANGED <<tasks, batch, ran, calling, pipe, edge, stop, wakeAt>>
    BY <1>3 DEF Run, Leave, TimedOut, Interrupted, BeginTask, CheckActive, NextRound, Tick, taskVars, wakeVars
  <2>2. TypeOK'
    <3>1. clock' \in 0..MaxTime
      BY <1>3 DEF Run, Leave, TimedOut, Interrupted, BeginTask, CheckActive, NextRound, Tick, TypeOK
    <3>2. pc' \in {"outside", "top", "wait", "drain", "detach", "tasks", "inTask",
                   "due", "call", "inTimer", "stopped", "freed"}
      BY <1>3 DEF Run, Leave, TimedOut, Interrupted, BeginTask, CheckActive, NextRound, Tick, TypeOK
    <3> QED
      BY <1>1, <2>1, <3>1, <3>2 DEF TypeOK, timerVars, history
  <2>3. Places'
    BY <1>1, <1>3, <2>1 DEF Run, Leave, TimedOut, Interrupted, BeginTask, CheckActive, NextRound, Tick,
                            Places, timerVars
  <2>4. WakeupsKept'
    <3>1. pc' = "wait" => pc = "wait" /\ (clock' < wakeAt => clock < wakeAt)
      BY <1>3, <2>2 DEF Run, Leave, TimedOut, Interrupted, BeginTask, CheckActive, NextRound, Tick, TypeOK
    <3>2. /\ pc' # "drain" => pc # "drain"
          /\ pc' \notin {"drain", "detach"} => pc \notin {"drain", "detach"}
      BY <1>3 DEF Run, Leave, TimedOut, Interrupted, BeginTask, CheckActive, NextRound, Tick
    <3>3. WakeupUnderway' = WakeupUnderway
      BY <2>1 DEF WakeupUnderway
    <3>4. (pipe > 0 => edge \/ pc = "drain")'
      BY <1>3, <2>1 DEF Run, Leave, TimedOut, Interrupted, BeginTask, CheckActive, NextRound, Tick, WakeupsKept
    <3> QED
      BY <1>1, <2>1, <3>1, <3>2, <3>3, <3>4 DEF WakeupsKept, NoLostWakeup, Listed, timerVars
  <2>5. CancelsSound'
    <3>1. CASE pc' = "call"
      <4>1. pc = "call" \/ CheckActive
        BY <1>3, <3>1 DEF Run, Leave, TimedOut, Interrupted, BeginTask, NextRound, Tick
      <4>2. CheckActive => timer[Head(dueList)].active /\ Head(dueList) \in Timers
        BY HeadAndTail DEF CheckActive, TypeOK
      <4> QED
        BY <1>1, <4>1, <4>2 DEF CancelsSound, CancelIsFinal, timerVars, history
    <3>2. CASE pc' # "call"
      BY <1>1, <3>2 DEF CancelsSound, CancelIsFinal, timerVars, history
    <3> QED
      BY <3>1, <3>2
  <2> QED
    BY <1>2, <2>2, <2>3, <2>4, <2>5
<1>4. CASE Awakened \/ Drain
  <2>1. /\ UNCHANGED <<tasks, batch, ran, calling, stop, clock, wakeAt>>
        /\ pc \in {"wait", "drain"} /\ pc' \in {"drain", "detach"}
        /\ pipe' \in 0..PipeCap /\ edge' \in BOOLEAN
        /\ pipe' > 0 => pc' = "drain"
    <3>1. CASE Awakened
      BY <3>1 DEF Awakened, taskVars, TypeOK
    <3>2. CASE Drain
      BY <3>2 DEF Drain, taskVars, TypeOK
    <3> QED
      BY <1>4, <3>1, <3>2
  <2>2. TypeOK'
    BY <1>1, <2>1 DEF TypeOK, timerVars, history
  <2>3. Places'
    BY <1>1, <2>1 DEF Places, timerVars
  <2>4. WakeupsKept'
    BY <1>1, <2>1 DEF WakeupsKept, NoLostWakeup
  <2>5. CancelsSound'
    BY <1>1, <2>1 DEF CancelsSound, CancelIsFinal, timerVars, history
  <2> QED
    BY <1>2, <2>2, <2>3, <2>4, <2>5
<1>5. CASE DetachTasks
  <2>1. tasks' = <<>> /\ batch' = tasks /\ pc = "detach" /\ pc' = "tasks"
        /\ UNCHANGED <<ran, calling, pipe, edge, stop, clock, wakeAt>>
    BY <1>5 DEF DetachTasks, wakeVars
  <2>2. TypeOK'
    BY <1>1, <2>1 DEF TypeOK, timerVars, history
  <2>3. Places' /\ CancelsSound'
    BY <1>1, <2>1 DEF Places, CancelsSound, CancelIsFinal, timerVars, history
  <2>4. WakeupsKept'
    BY <2>1 DEF WakeupsKept, NoLostWakeup
  <2> QED
    BY <1>2, <2>2, <2>3, <2>4
<1>6. CASE EndTask
  <2>1. ran' = ran \cup {Head(batch)} /\ batch' = Tail(batch) /\ pc = "inTask" /\ pc' = "tasks"
        /\ UNCHANGED <<tasks, calling, pipe, edge, stop, clock, wakeAt>>
    BY <1>6 DEF EndTask, wakeVars
  <2>2. Head(batch) \in Tasks /\ Tail(batch) \in Seq(Tasks)
    BY <2>1, HeadAndTail DEF Places, TypeOK
  <2>3. TypeOK'
    BY <1>1, <2>1, <2>2 DEF TypeOK, timerVars, history
  <2>4. Places' /\ CancelsSound'
    BY <1>1, <2>1 DEF Places, CancelsSound, CancelIsFinal, timerVars, history
  <2>5. WakeupsKept'
    BY <2>1 DEF WakeupsKept, NoLostWakeup, WakeupUnderway
  <2> QED
    BY <1>2, <2>3, <2>4, <2>5
<1> QED
  BY <1>3, <1>4, <1>5, <1>6

(* Going to sleep: the cancelled timers are freed, the head of the list     *)
(* gives the timeout, so nothing on the list is due before it.              *)
LEMMA EnterKeeps ==
  ASSUME IInv, Enter
  PROVE  IInv'
<1> USE LoopAssumption DEF IInv
<1>1. /\ pc = "top" /\ ~stop /\ pc' = "wait" /\ timers' = Pruned
      /\ FreeTimers(Listed(timers) \ Listed(timers')) /\ wakeAt' \in Timeout(timers')
      /\ UNCHANGED <<tasks, batch, ran, calling, pipe, edge, stop, dueList, clock, fired, quiet>>
  BY DEF Enter, taskVars, wakeVars, history
<1>2. dueList = <<>> /\ Listed(dueList) = {}
  BY <1>1 DEF Places, Listed
<1>3. Pruned \in Seq(Timers) /\ Listed(Pruned) = {t \in Listed(timers) : timer[t].active}
  BY PrunedFacts DEF TypeOK
<1>4. PICK at \in [DOMAIN timers' -> DOMAIN timers] :
        /\ \A k, l \in DOMAIN timers' : k < l => at[k] < at[l]
        /\ \A k \in DOMAIN timers' : timers'[k] = timers[at[k]]
  <2>1. \E at \in [DOMAIN Pruned -> DOMAIN timers] :
           /\ \A k, l \in DOMAIN Pruned : k < l => at[k] < at[l]
           /\ \A k \in DOMAIN Pruned : Pruned[k] = timers[at[k]] /\ timer[Pruned[k]].active
    BY PrunedFacts DEF TypeOK
  <2>2. timers' = Pruned
    BY <1>1
  <2> QED
    BY <2>1, <2>2
<1>5. /\ timer' \in [Timers -> [mem : {"unused", "live", "freed"}, due : Nat, repeat : Nat, active : BOOLEAN]]
      /\ \A t \in Timers : /\ timer'[t].due = timer[t].due
                           /\ timer'[t].active = timer[t].active
                           /\ timer'[t].mem = "unused" => timer[t].mem = "unused"
      /\ Live' = Live \ (Listed(timers) \ Listed(timers'))
  BY <1>1, FreeFacts
<1>6. timers' \in Seq(Timers) /\ DOMAIN timers' = 1..Len(timers') /\ Len(timers') \in Nat
  BY <1>1, <1>3
<1>7. /\ \A k \in DOMAIN timers' : k \in Nat /\ timers'[k] \in Timers
      /\ \A i \in DOMAIN timers : i \in Nat /\ timers[i] \in Timers
  <2>1. timers \in Seq(Timers)
    BY DEF TypeOK
  <2>2. \A i \in DOMAIN timers : i \in Nat /\ timers[i] \in Timers
    BY <2>1
  <2> QED
    BY <1>6, <2>2
<1>8. Sorted'
  BY <1>4, <1>5, <1>7 DEF Sorted, ListsOwn
<1>9. Distinct(timers')
  <2> SUFFICES ASSUME NEW k \in DOMAIN timers', NEW l \in DOMAIN timers', timers'[k] = timers'[l] PROVE k = l
    BY DEF Distinct
  <2>1. at[k] = at[l] /\ at[k] \in Nat /\ at[l] \in Nat
    BY <1>4, <1>7 DEF Distinct, ListsOwn
  <2>2. k \in Nat /\ l \in Nat /\ ~(k < l) /\ ~(l < k)
    BY <1>4, <1>7, <2>1
  <2> QED
    BY <2>2
<1>10. ListsOwn'
  <2>1. Listed(timers)' = Listed(timers') /\ Listed(dueList)' = {}
    BY <1>1, <1>2 DEF Listed
  <2>2. Listed(timers') \subseteq Listed(timers) /\ Listed(timers) = Live
    BY <1>1, <1>2, <1>3 DEF ListsOwn
  <2>3. Distinct(dueList')
    BY <1>1 DEF ListsOwn
  <2> QED
    BY <1>5, <1>8, <1>9, <2>1, <2>2, <2>3 DEF ListsOwn, Distinct
<1>11. wakeAt' \in Nat /\ \A k \in DOMAIN timers' : clock < wakeAt' => wakeAt' <= timer'[timers'[k]].due
  <2>1. CASE timers' = <<>>
    <3>1. wakeAt' = Forever /\ DOMAIN timers' = {}
      BY <1>1, <2>1 DEF Timeout
    <3> QED
      BY <3>1 DEF Forever
  <2>2. CASE timers' # <<>>
    <3>1. Head(timers') = timers'[1] /\ 1 \in DOMAIN timers' /\ timers'[1] \in Timers
      BY <1>6, <2>2
    <3>2. wakeAt' \in LET due == timer[timers'[1]].due
                      IN IF due <= clock THEN {clock} ELSE {due - 1, due}
      BY <1>1, <2>2, <3>1 DEF Timeout
    <3>3. timer[timers'[1]].due \in Nat /\ clock \in Nat
      BY <3>1 DEF TypeOK
    <3>4. wakeAt' \in Nat /\ (clock < wakeAt' => wakeAt' <= timer[timers'[1]].due)
      BY <3>2, <3>3
    <3>5. ASSUME NEW k \in DOMAIN timers'
          PROVE  timer'[timers'[1]].due <= timer'[timers'[k]].due
      <4>1. timer'[timers'[1]].due \in Nat
        BY <1>5, <3>1
      <4>2. k = 1 \/ 1 < k
        BY <1>6
      <4> QED
        BY <1>8, <3>1, <4>1, <4>2 DEF Sorted
    <3>6. \A k \in DOMAIN timers' : timer'[timers'[k]].due \in Nat
      BY <1>5, <1>7
    <3> QED
      BY <1>5, <3>1, <3>3, <3>4, <3>5, <3>6
  <2> QED
    BY <2>1, <2>2
<1>12. TypeOK'
  BY <1>1, <1>5, <1>6, <1>11 DEF TypeOK
<1>13. Places'
  BY <1>1 DEF Places
<1>14. WakeupsKept'
  <2>1. WakeupUnderway' = WakeupUnderway
    BY <1>1 DEF WakeupUnderway
  <2>2. (pc = "wait" /\ clock < wakeAt =>
           \A t \in Listed(timers) : timer[t].active /\ timer[t].due < wakeAt => WakeupUnderway)'
    <3> SUFFICES ASSUME clock' < wakeAt', NEW k \in DOMAIN timers', timer'[timers'[k]].due < wakeAt' PROVE FALSE
      BY DEF Listed
    <3>1. wakeAt' <= timer'[timers'[k]].due /\ timer'[timers'[k]].due \in Nat /\ wakeAt' \in Nat
      BY <1>1, <1>5, <1>7, <1>11
    <3> QED
      BY <3>1
  <2> QED
    BY <1>1, <2>1, <2>2 DEF WakeupsKept, NoLostWakeup
<1>15. CancelsSound'
  BY <1>1, <1>5 DEF CancelsSound, CancelIsFinal
<1> QED
  BY <1>10, <1>12, <1>13, <1>14, <1>15

(* Collecting moves the due prefix of what is active and frees the rest.    *)
LEMMA CollectKeeps ==
  ASSUME IInv, CollectDue
  PROVE  IInv'
<1> USE LoopAssumption DEF IInv
<1>1. /\ pc = "tasks" /\ batch = <<>> /\ pc' = "due" /\ CollectFrom(Pruned)
      /\ UNCHANGED <<tasks, batch, ran, calling, pipe, edge, stop, clock, wakeAt, fired, quiet>>
  BY DEF CollectDue, taskVars, wakeVars, history
<1>2. dueList = <<>> /\ Listed(dueList) = {}
  BY <1>1 DEF Places, Listed
<1>3. /\ Pruned \in Seq(Timers) /\ Listed(Pruned) = {t \in Listed(timers) : timer[t].active}
      /\ DOMAIN Pruned = 1..Len(Pruned) /\ Len(Pruned) \in Nat
  BY PrunedFacts DEF TypeOK
<1>4. PICK at \in [DOMAIN Pruned -> DOMAIN timers] :
        /\ \A k, l \in DOMAIN Pruned : k < l => at[k] < at[l]
        /\ \A k \in DOMAIN Pruned : Pruned[k] = timers[at[k]] /\ timer[Pruned[k]].active
  BY PrunedFacts DEF TypeOK
<1>5. \A i \in DOMAIN timers : i \in Nat /\ timers[i] \in Timers
  <2>1. timers \in Seq(Timers)
    BY DEF TypeOK
  <2> QED
    BY <2>1
<1>6. Distinct(Pruned)
  <2> SUFFICES ASSUME NEW k \in DOMAIN Pruned, NEW l \in DOMAIN Pruned, Pruned[k] = Pruned[l] PROVE k = l
    BY DEF Distinct
  <2>1. at[k] = at[l] /\ at[k] \in Nat /\ at[l] \in Nat
    BY <1>4, <1>5 DEF Distinct, ListsOwn
  <2>2. k \in Nat /\ l \in Nat /\ ~(k < l) /\ ~(l < k)
    BY <1>3, <1>4, <2>1
  <2> QED
    BY <2>2
<1>7. \A k, l \in DOMAIN Pruned : k < l => timer[Pruned[k]].due <= timer[Pruned[l]].due
  BY <1>4, <1>5 DEF Sorted, ListsOwn
<1>8. /\ timers' \in Seq(Timers) /\ dueList' \in Seq(Timers)
      /\ Distinct(timers') /\ Distinct(dueList')
      /\ Listed(timers') \cup Listed(dueList') = Listed(Pruned)
      /\ Listed(timers') \cap Listed(dueList') = {}
  BY <1>1, <1>3, <1>6, CollectFacts
<1>9. PICK n \in 0..Len(Pruned) : \A k \in DOMAIN timers' : n + k \in DOMAIN Pruned /\ timers'[k] = Pruned[n + k]
  BY <1>1, <1>3, <1>6, CollectFacts
<1>10. /\ timer' \in [Timers -> [mem : {"unused", "live", "freed"}, due : Nat, repeat : Nat, active : BOOLEAN]]
       /\ \A t \in Timers : /\ timer'[t].due = timer[t].due
                            /\ timer'[t].active = timer[t].active
                            /\ timer'[t].mem = "unused" => timer[t].mem = "unused"
       /\ Live' = Live \ (Listed(timers) \ Listed(Pruned))
  <2>1. FreeTimers(Listed(timers) \ Listed(Pruned))
    BY <1>1 DEF CollectFrom
  <2> QED
    BY <2>1, FreeFacts
<1>11. Sorted'
  <2> SUFFICES ASSUME NEW k \in DOMAIN timers', NEW l \in DOMAIN timers', k < l
               PROVE  timer'[timers'[k]].due <= timer'[timers'[l]].due
    BY DEF Sorted
  <2>1. k \in Nat /\ l \in Nat /\ n + k < n + l
    BY <1>3, <1>8
  <2>2. timer[timers'[k]].due <= timer[timers'[l]].due
    BY <1>7, <1>9, <2>1
  <2>3. timers'[k] \in Timers /\ timers'[l] \in Timers
    BY <1>8
  <2> QED
    BY <1>10, <2>2, <2>3
<1>12. ListsOwn'
  <2>1. Listed(timers)' = Listed(timers') /\ Listed(dueList)' = Listed(dueList')
    BY DEF Listed
  <2>2. Listed(Pruned) \subseteq Listed(timers) /\ Listed(timers) = Live
    BY <1>2, <1>3 DEF ListsOwn
  <2> QED
    BY <1>8, <1>10, <1>11, <2>1, <2>2 DEF ListsOwn, Distinct
<1>13. TypeOK'
  BY <1>1, <1>8, <1>10 DEF TypeOK
<1>14. Places' /\ WakeupsKept'
  BY <1>1 DEF Places, WakeupsKept, NoLostWakeup, WakeupUnderway
<1>15. CancelsSound'
  BY <1>1, <1>10 DEF CancelsSound, CancelIsFinal
<1> QED
  BY <1>12, <1>13, <1>14, <1>15

(* Skipping, calling and putting back the head of dueList.                  *)
LEMMA DueKeeps ==
  ASSUME IInv, SkipCancelled \/ FireTimer \/ EndTimer
  PROVE  IInv'
<1> USE LoopAssumption DEF IInv
<1> DEFINE h == Head(dueList)
<1>1. /\ UNCHANGED <<tasks, batch, ran, calling, pipe, edge, stop, clock, wakeAt>>
      /\ pc \in {"due", "call", "inTimer"} /\ pc' \in {"due", "inTimer"}
      /\ batch = <<>>
  <2>1. /\ UNCHANGED <<tasks, batch, ran, calling, pipe, edge, stop, clock, wakeAt>>
        /\ pc \in {"due", "call", "inTimer"} /\ pc' \in {"due", "inTimer"}
    BY DEF SkipCancelled, FireTimer, EndTimer, taskVars, wakeVars, loopVars
  <2> QED
    BY <2>1 DEF Places
<1>2. /\ h \in Timers /\ Tail(dueList) \in Seq(Timers)
      /\ Listed(dueList) = {h} \cup Listed(Tail(dueList))
      /\ Distinct(Tail(dueList)) /\ h \notin Listed(Tail(dueList))
      /\ h \notin Listed(timers) /\ timer[h].mem = "live"
  <2>1. dueList # <<>> /\ dueList \in Seq(Timers)
    BY DEF SkipCancelled, FireTimer, EndTimer, Places, TypeOK
  <2>2. /\ h \in Timers /\ Tail(dueList) \in Seq(Timers)
        /\ Listed(dueList) = {h} \cup Listed(Tail(dueList))
        /\ Distinct(Tail(dueList)) /\ h \notin Listed(Tail(dueList))
    BY <2>1, HeadAndTail DEF ListsOwn
  <2> QED
    BY <2>2 DEF ListsOwn, Live
<1> HIDE DEF h
<1>3. WakeupsKept'
  BY <1>1 DEF WakeupsKept, NoLostWakeup, WakeupUnderway
<1>4. CASE SkipCancelled \/ (EndTimer /\ FreeTimers({h}) /\ UNCHANGED timers)
  <2>1. /\ FreeTimers({h}) /\ dueList' = Tail(dueList) /\ pc' = "due"
        /\ UNCHANGED <<timers, fired, quiet>>
    BY <1>4 DEF SkipCancelled, EndTimer, loopVars, history, h
  <2>2. /\ timer' \in [Timers -> [mem : {"unused", "live", "freed"}, due : Nat, repeat : Nat, active : BOOLEAN]]
        /\ \A t \in Timers : /\ timer'[t].due = timer[t].due
                             /\ timer'[t].active = timer[t].active
                             /\ timer'[t].mem = "unused" => timer[t].mem = "unused"
        /\ Live' = Live \ {h}
    BY <2>1, FreeFacts
  <2>3. TypeOK'
    BY <1>1, <1>2, <2>1, <2>2 DEF TypeOK
  <2>4. ListsOwn'
    <3>1. Listed(timers)' = Listed(timers) /\ Listed(dueList)' = Listed(Tail(dueList)) /\ Distinct(dueList)'
      BY <1>2, <2>1 DEF Listed, Distinct
    <3>2. Sorted'
      <4>1. \A i \in DOMAIN timers : timers[i] \in Timers
        BY DEF TypeOK
      <4> QED
        BY <2>1, <2>2, <4>1 DEF Sorted, ListsOwn
    <3> QED
      BY <1>2, <2>1, <2>2, <3>1, <3>2 DEF ListsOwn, Distinct
  <2>5. Places' /\ CancelsSound'
    BY <1>1, <2>1, <2>2 DEF Places, CancelsSound, CancelIsFinal
  <2> QED
    BY <1>3, <2>3, <2>4, <2>5
<1>5. CASE FireTimer
  <2>1. /\ pc = "call" /\ pc' = "inTimer" /\ UNCHANGED <<timers, dueList, timer>>
        /\ fired' = [fired EXCEPT ![h] = @ + 1]
        /\ quiet' = IF timer[h].active THEN quiet ELSE [quiet EXCEPT ![h].since = @ + 1]
    BY <1>5 DEF FireTimer, timerVars, h
  <2>2. /\ quiet[h].by # "loop" /\ quiet[h].since = 0
        /\ quiet \in [Timers -> [by : {"nobody", "loop", "other"}, since : Nat]]
        /\ fired' \in [Timers -> Nat]
    <3>1. quiet[h].by # "loop" /\ quiet[h].since = 0
      BY <2>1 DEF CancelsSound, h
    <3>2. fired \in [Timers -> Nat] /\ quiet \in [Timers -> [by : {"nobody", "loop", "other"}, since : Nat]]
      BY DEF TypeOK
    <3>3. fired' \in [Timers -> Nat]
      BY <1>2, <2>1, <3>2
    <3> QED
      BY <3>1, <3>2, <3>3
  <2>3. /\ quiet' \in [Timers -> [by : {"nobody", "loop", "other"}, since : Nat]]
        /\ \A t \in Timers \ {h} : quiet'[t] = quiet[t]
        /\ quiet'[h].by = quiet[h].by
        /\ quiet'[h].since = IF timer[h].active THEN 0 ELSE 1
    <3>1. CASE timer[h].active
      BY <1>2, <2>1, <2>2, <3>1
    <3>2. CASE ~timer[h].active
      <4>1. quiet' = [quiet EXCEPT ![h].since = 1]
        BY <2>1, <2>2, <3>2
      <4> QED
        BY <1>2, <2>2, <3>2, <4>1
    <3> QED
      BY <3>1, <3>2
  <2>4. TypeOK'
    BY <1>1, <2>1, <2>2, <2>3 DEF TypeOK
  <2>5. ListsOwn' /\ Places'
    BY <1>1, <2>1, TimersAlone DEF Places, timerVars
  <2>6. CancelsSound'
    <3>1. \A t \in Timers : quiet[t].since <= 1 /\ (quiet[t].by = "loop" => quiet[t].since = 0)
      BY DEF CancelsSound, CancelIsFinal
    <3>2. CancelIsFinal'
      BY <2>2, <2>3, <3>1 DEF CancelIsFinal
    <3>3. \A t \in Timers : timer[t].active \/ timer[t].mem = "unused" => quiet'[t].by = "nobody" /\ quiet'[t].since = 0
      BY <1>2, <2>3 DEF CancelsSound
    <3> QED
      BY <2>1, <3>2, <3>3 DEF CancelsSound
  <2> QED
    BY <1>3, <2>4, <2>5, <2>6
<1>6. CASE EndTimer /\ timer[h].repeat > 0
  <2>1. /\ timer' = [timer EXCEPT ![h].due = clock + timer[h].repeat] /\ InsertSorted(h)
        /\ dueList' = Tail(dueList) /\ pc' = "due" /\ UNCHANGED <<fired, quiet>>
    BY <1>6 DEF EndTimer, history, h
  <2>2. clock + timer[h].repeat \in Nat
    <3>1. clock \in Nat
      BY LoopAssumption DEF TypeOK
    <3>2. timer[h].repeat \in Nat
      BY <1>2 DEF TypeOK
    <3> QED
      BY <3>1, <3>2
  <2>3. /\ timer' \in [Timers -> [mem : {"unused", "live", "freed"}, due : Nat, repeat : Nat, active : BOOLEAN]]
        /\ \A t \in Timers : timer'[t].mem = timer[t].mem /\ timer'[t].active = timer[t].active
        /\ \A t \in Timers \ {h} : timer'[t].due = timer[t].due
    <3>1. timer \in [Timers -> [mem : {"unused", "live", "freed"}, due : Nat, repeat : Nat, active : BOOLEAN]]
      BY DEF TypeOK
    <3> QED
      BY <1>2, <2>1, <2>2, <3>1
  <2>4. Live' = Live
    BY <2>3 DEF Live
  <2>5. /\ timers' \in Seq(Timers) /\ Sorted' /\ Distinct(timers')
        /\ Listed(timers') = Listed(timers) \cup {h}
    <3>1. timers \in Seq(Timers) /\ (\A u \in Timers : timer[u].due \in Nat) /\ timer'[h].due \in Nat
      BY <1>2, <2>3 DEF TypeOK
    <3>2. \A u \in Listed(timers) : timer'[u].due = timer[u].due
      BY <1>2, <2>3 DEF ListsOwn, Live
    <3> QED
      BY <1>2, <2>1, <3>1, <3>2, InsertSortedFacts DEF ListsOwn
  <2>6. TypeOK'
    BY <1>1, <1>2, <2>1, <2>3, <2>5 DEF TypeOK
  <2>7. ListsOwn'
    <3>1. Listed(timers)' = Listed(timers') /\ Listed(dueList)' = Listed(Tail(dueList)) /\ Distinct(dueList)'
      BY <1>2, <2>1 DEF Listed, Distinct
    <3> QED
      BY <1>2, <2>4, <2>5, <3>1 DEF ListsOwn, Distinct
  <2>8. Places' /\ CancelsSound'
    BY <1>1, <2>1, <2>3 DEF Places, CancelsSound, CancelIsFinal
  <2> QED
    BY <1>3, <2>6, <2>7, <2>8
<1>7. CASE EndTimer
  <2>1. CASE timer[h].repeat > 0
    BY <1>6, <1>7, <2>1
  <2>2. CASE ~(timer[h].repeat > 0)
    <3>1. FreeTimers({h}) /\ UNCHANGED timers
      BY <1>7, <2>2 DEF EndTimer, h
    <3> QED
      BY <1>4, <1>7, <3>1
  <2> QED
    BY <2>1, <2>2
<1>8. CASE SkipCancelled
  BY <1>4, <1>8
<1> QED
  BY <1>5, <1>7, <1>8

(* Freeing the loop frees the timers that are left on its list.             *)
LEMMA FreeKeeps ==
  ASSUME IInv, Free
  PROVE  IInv'
<1> USE LoopAssumption DEF IInv
<1>1. /\ pc = "stopped" /\ pc' = "freed" /\ tasks' = <<>> /\ timers' = <<>>
      /\ FreeTimers(Listed(timers))
      /\ UNCHANGED <<batch, ran, calling, pipe, edge, stop, dueList, clock, wakeAt, fired, quiet>>
  BY DEF Free, wakeVars, history
<1>2. dueList = <<>> /\ batch = <<>> /\ Listed(dueList) = {}
  BY <1>1 DEF Places, Listed
<1>3. /\ timer' \in [Timers -> [mem : {"unused", "live", "freed"}, due : Nat, repeat : Nat, active : BOOLEAN]]
      /\ \A t \in Timers : /\ timer'[t].active = timer[t].active
                           /\ timer'[t].mem = "unused" => timer[t].mem = "unused"
      /\ Live' = Live \ Listed(timers)
  BY <1>1, FreeFacts
<1>4. TypeOK'
  BY <1>1, <1>3 DEF TypeOK
<1>5. ListsOwn'
  <2>1. DOMAIN timers' = {} /\ DOMAIN dueList' = {} /\ Live' = {}
    BY <1>1, <1>2, <1>3 DEF ListsOwn
  <2> QED
    BY <2>1 DEF ListsOwn, Sorted, Distinct, Listed
<1>6. Places' /\ CancelsSound'
  BY <1>1, <1>3 DEF Places, CancelsSound, CancelIsFinal
<1>7. WakeupsKept'
  BY <1>1 DEF WakeupsKept, NoLostWakeup
<1> QED
  BY <1>4, <1>5, <1>6, <1>7
-----------------------------------------------------------------------------
LEMMA Inductive == Spec => []IInv
<1>1. ASSUME IInv, [Next]_vars
      PROVE  IInv'
  <2>1. ASSUME NEW a \in Actors, (\E k \in Tasks : Post(a, k)) \/ Stop(a) \/ Wakeup(a)
        PROVE  IInv'
    BY <1>1, <2>1, CallsKeep
  <2>2. ASSUME NEW a \in Actors, NEW t \in Timers, NEW d \in Delays, NEW r \in Repeats, StartTimer(a, t, d, r)
        PROVE  IInv'
    BY <1>1, <2>2, StartKeeps
  <2>3. ASSUME NEW a \in Actors, NEW t \in Timers, CancelTimer(a, t)
        PROVE  IInv'
    BY <1>1, <2>3, CancelKeeps
  <2>4. CASE \/ Run \/ Leave \/ Awakened \/ TimedOut \/ Interrupted \/ Drain \/ DetachTasks
             \/ BeginTask \/ EndTask \/ CheckActive \/ NextRound \/ Tick
    BY <1>1, <2>4, LoopKeeps
  <2>5. CASE Enter
    BY <1>1, <2>5, EnterKeeps
  <2>6. CASE CollectDue
    BY <1>1, <2>6, CollectKeeps
  <2>7. CASE SkipCancelled \/ FireTimer \/ EndTimer
    BY <1>1, <2>7, DueKeeps
  <2>8. CASE Free
    BY <1>1, <2>8, FreeKeeps
  <2>9. CASE UNCHANGED vars
    <3>1. /\ UNCHANGED timerVars
          /\ UNCHANGED <<tasks, batch, ran, calling, pipe, edge, stop, clock, pc, wakeAt, fired, quiet>>
      BY <2>9 DEF vars, taskVars, wakeVars, loopVars, history
    <3>2. ListsOwn' /\ UNCHANGED <<timers, dueList, timer>>
      BY <1>1, <3>1, TimersAlone DEF IInv, timerVars
    <3>3. TypeOK' /\ Places'
      BY <1>1, <3>1, <3>2 DEF IInv, TypeOK, Places
    <3>4. WakeupsKept' /\ CancelsSound'
      BY <1>1, <3>1, <3>2 DEF IInv, WakeupsKept, NoLostWakeup, WakeupUnderway, Listed, CancelsSound, CancelIsFinal
    <3> QED
      BY <3>2, <3>3, <3>4 DEF IInv
  <2> QED
    BY <1>1, <2>1, <2>2, <2>3, <2>4, <2>5, <2>6, <2>7, <2>8, <2>9 DEF Next, Call, LoopStep
<1> QED
  BY <1>1, InitIInv, PTL DEF Spec

(* The loop thread never sleeps on a task, a stop or an earlier timer that  *)
(* was put behind its back: however many threads call, and however small    *)
(* the pipe.                                                                *)
THEOREM WakeupsArrive == Spec => []NoLostWakeup
<1>1. IInv => NoLostWakeup
  BY DEF IInv, WakeupsKept
<1> QED
  BY <1>1, Inductive, PTL

(* A timer is in exactly one of the two lists while it is live, and in none *)
(* when it is freed; the list is sorted.                                    *)
THEOREM TimersOwned == Spec => []TimerMemory
<1>1. ASSUME IInv
      PROVE  TimerMemory
  <2> USE <1>1 DEF IInv, ListsOwn
  <2>1. timers \in Seq(Timers) /\ dueList \in Seq(Timers) /\ Len(timers) \in Nat /\ Len(dueList) \in Nat
    BY DEF TypeOK
  <2>2. /\ IsFiniteSet(Listed(timers)) /\ Cardinality(Listed(timers)) = Len(timers)
        /\ IsFiniteSet(Listed(dueList)) /\ Cardinality(Listed(dueList)) = Len(dueList)
    BY <2>1, DistinctLength
  <2>3. Cardinality(Listed(timers) \cup Listed(dueList)) =
          Cardinality(Listed(timers)) + Cardinality(Listed(dueList)) - Cardinality(Listed(timers) \cap Listed(dueList))
    BY <2>2, FS_Union
  <2>4. Cardinality(Listed(timers) \cap Listed(dueList)) = 0
    BY FS_EmptySet
  <2>5. Cardinality(Live) = Len(timers) + Len(dueList)
    <3>1. Cardinality(Live) = Cardinality(Listed(timers)) + Cardinality(Listed(dueList)) - 0
      BY <2>3, <2>4
    <3> QED
      BY <2>1, <2>2, <3>1
  <2> QED
    BY <2>5 DEF TimerMemory
<1> QED
  BY <1>1, Inductive, PTL

(* A cancelled timer is not called again, but for the one call the loop     *)
(* thread may already have decided on when another thread cancels.          *)
THEOREM CancelsAreFinal == Spec => []CancelIsFinal
<1>1. IInv => CancelIsFinal
  BY DEF IInv, CancelsSound
<1> QED
  BY <1>1, Inductive, PTL
-----------------------------------------------------------------------------
(* What is pending for the promise: the rest of the batch, then the list.   *)
LEMMA PendingFacts ==
  ASSUME NEW b \in Seq(Tasks), NEW s \in Seq(Tasks)
  PROVE  /\ \A k \in Tasks : b \o Append(s, k) = Append(b \o s, k)
         /\ b # <<>> => /\ b \o s # <<>> /\ Head(b \o s) = Head(b)
                        /\ Tail(b \o s) = Tail(b) \o s
         /\ \A k : k \notin Listed(b) \cup Listed(s) => \A i \in DOMAIN (b \o s) : (b \o s)[i] # k
         /\ <<>> \o s = s /\ b \o <<>> = b
<1>1. \A k \in Tasks : b \o Append(s, k) = Append(b \o s, k)
  OBVIOUS
<1>2. ASSUME b # <<>>
      PROVE  b \o s # <<>> /\ Head(b \o s) = Head(b) /\ Tail(b \o s) = Tail(b) \o s
  BY <1>2
<1>3. ASSUME NEW k, k \notin Listed(b) \cup Listed(s), NEW i \in DOMAIN (b \o s)
      PROVE  (b \o s)[i] # k
  <2>1. /\ Len(b) \in Nat /\ Len(s) \in Nat /\ i \in 1..(Len(b) + Len(s))
        /\ (b \o s)[i] = IF i <= Len(b) THEN b[i] ELSE s[i - Len(b)]
    BY <1>3
  <2>2. i <= Len(b) => i \in DOMAIN b
    BY <2>1
  <2>3. ~(i <= Len(b)) => i - Len(b) \in DOMAIN s
    BY <2>1
  <2> QED
    BY <1>3, <2>1, <2>2, <2>3 DEF Listed
<1>4. <<>> \o s = s /\ b \o <<>> = b
  OBVIOUS
<1> QED
  BY <1>1, <1>2, <1>3, <1>4

(* Every step of the loop and its callers is a step of LoopTasks or none:   *)
(* tasks run one at a time, each once, in the order of the tua_loop_post    *)
(* calls, whether they wait on the list or in the detached batch; only a    *)
(* stopped loop drops any.                                                  *)
THEOREM TasksInOrder == Spec => Promise!Init /\ [][Promise!Next]_(Promise!vars)
<1>1. Init => Promise!Init
  BY DEF Init, Promise!Init
<1>2. ASSUME IInv, [Next]_vars
      PROVE  [Promise!Next]_(Promise!vars)
  <2> USE <1>2 DEF IInv
  <2>1. batch \in Seq(Tasks) /\ tasks \in Seq(Tasks)
    BY DEF TypeOK
  <2>2. ASSUME NEW a \in Actors, NEW k \in Tasks, Post(a, k)
        PROVE  Promise!Post(k)
    <3>1. /\ k \notin ran /\ k \notin Listed(batch) \cup Listed(tasks)
          /\ tasks' = Append(tasks, k) /\ UNCHANGED <<batch, ran, stop, pc>>
      BY <2>2 DEF Post, Posted, loopVars
    <3>2. /\ batch \o Append(tasks, k) = Append(batch \o tasks, k)
          /\ \A i \in DOMAIN (batch \o tasks) : (batch \o tasks)[i] # k
      <4> HIDE <1>2 DEF IInv
      <4>1. batch \o Append(tasks, k) = Append(batch \o tasks, k)
        BY <2>1, PendingFacts
      <4>2. \A i \in DOMAIN (batch \o tasks) : (batch \o tasks)[i] # k
        BY <2>1, <3>1, PendingFacts
      <4> QED
        BY <4>1, <4>2
    <3>3. batch' \o tasks' = Append(batch \o tasks, k)
      BY <3>1, <3>2
    <3> QED
      BY <3>1, <3>2, <3>3 DEF Promise!Post
  <2>3. ASSUME NEW a \in Actors, Stop(a)
        PROVE  Promise!Stop
    BY <2>3 DEF Stop, Promise!Stop, taskVars, loopVars
  <2>4. CASE BeginTask
    <3>1. batch # <<>> /\ pc = "tasks" /\ pc' = "inTask" /\ UNCHANGED <<tasks, batch, ran, stop>>
      BY <2>4 DEF BeginTask, taskVars, wakeVars
    <3>2. Promise!Begin
      BY <2>1, <3>1, PendingFacts DEF Promise!Begin
    <3> QED
      BY <3>2 DEF Promise!Next
  <2>5. CASE EndTask
    <3>1. /\ batch # <<>> /\ pc = "inTask" /\ pc' = "tasks"
          /\ ran' = ran \cup {Head(batch)} /\ batch' = Tail(batch) /\ UNCHANGED <<tasks, stop>>
      BY <2>5 DEF EndTask, wakeVars, Places
    <3>2. Promise!End
      BY <2>1, <3>1, PendingFacts DEF Promise!End
    <3> QED
      BY <3>2 DEF Promise!Next
  <2>6. CASE DetachTasks
    <3>1. /\ pc = "detach" /\ pc' = "tasks" /\ batch = <<>>
          /\ batch' = tasks /\ tasks' = <<>> /\ UNCHANGED <<ran, stop>>
      BY <2>6 DEF DetachTasks, wakeVars, Places
    <3>2. batch' \o tasks' = batch \o tasks
      BY <2>1, <3>1, PendingFacts
    <3> QED
      BY <3>1, <3>2 DEF Promise!vars
  <2>7. CASE Free
    <3>1. /\ pc = "stopped" /\ pc' = "freed" /\ batch = <<>> /\ stop
          /\ batch' = <<>> /\ tasks' = <<>> /\ UNCHANGED <<ran, stop>>
      BY <2>7 DEF Free, wakeVars, Places
    <3>2. Promise!Discard
      BY <3>1 DEF Promise!Discard
    <3> QED
      BY <3>2 DEF Promise!Next
  <2>8. ASSUME \/ \E a \in Actors : Wakeup(a) \/ \E t \in Timers : CancelTimer(a, t)
               \/ \E a \in Actors, t \in Timers, d \in Delays, r \in Repeats : StartTimer(a, t, d, r)
               \/ Tick \/ UNCHANGED vars
        PROVE  UNCHANGED Promise!vars
    BY <2>8 DEF Wakeup, CancelTimer, StartTimer, Tick, vars, taskVars, wakeVars, loopVars, Promise!vars
  <2>9. ASSUME \/ Run \/ Leave \/ Enter \/ Awakened \/ TimedOut \/ Interrupted \/ Drain
               \/ CollectDue \/ CheckActive \/ SkipCancelled \/ FireTimer \/ EndTimer \/ NextRound
        PROVE  UNCHANGED Promise!vars
    <3>1. UNCHANGED <<tasks, batch, ran, stop>>
      BY <2>9 DEF Run, Leave, Enter, Awakened, TimedOut, Interrupted, Drain, CollectDue, CheckActive,
                  SkipCancelled, FireTimer, EndTimer, NextRound, taskVars, wakeVars
    <3>2. pc # "inTask" /\ pc' # "inTask"
      BY <2>9 DEF Run, Leave, Enter, Awakened, TimedOut, Interrupted, Drain, CollectDue, CheckActive,
                  SkipCancelled, FireTimer, EndTimer, NextRound, loopVars
    <3> QED
      BY <3>1, <3>2 DEF Promise!vars
  <2> QED
    BY <2>2, <2>3, <2>4, <2>5, <2>6, <2>7, <2>8, <2>9 DEF Next, Call, LoopStep, Promise!Next
<1> QED
  BY <1>1, <1>2, Inductive, PTL DEF Spec
=============================================================================
