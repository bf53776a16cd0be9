-------------------------- MODULE IoWatchersProofs --------------------------
(***************************************************************************)
(* Proofs about IoWatchers, for any number of descriptors, watchers and     *)
(* events in a round: types, memory, registration and edges.                *)
(***************************************************************************)
EXTENDS IoWatchers, SequenceTheorems, TLAPS

(* The ready list holds active watchers, each once; tasks run when all      *)
(* events of the round are served; an active watcher has a descriptor.      *)
ReadyOnce == /\ \A k \in DOMAIN rdy : Watching(rdy[k])
             /\ \A k, l \in DOMAIN rdy : rdy[k] = rdy[l] => k = l
Rounds == /\ pc = "tasks" => batch = <<>>
          /\ \A i \in Ios : Watching(i) => io[i].fd \in Fds

IInv == TypeOK /\ EventsAlive /\ Registered /\ EdgeKept /\ ReadyOnce /\ Rounds
-----------------------------------------------------------------------------
(* Becoming ready adds a watcher to the list, once.                         *)
LEMMA WithReadyAdds ==
  ASSUME rdy \in Seq(Ios), NEW i \in Ios \cup {None}, None \notin Ios,
         \A k, l \in DOMAIN rdy : rdy[k] = rdy[l] => k = l
  PROVE  /\ WithReady(i) \in Seq(Ios)
         /\ \A j \in Ios : Contains(WithReady(i), j) <=> Contains(rdy, j) \/ j = i
         /\ \A k \in DOMAIN WithReady(i) : WithReady(i)[k] = i \/ Contains(rdy, WithReady(i)[k])
         /\ \A k, l \in DOMAIN WithReady(i) : WithReady(i)[k] = WithReady(i)[l] => k = l
<1>1. CASE i = None \/ Contains(rdy, i)
  BY <1>1 DEF WithReady, Contains
<1>2. CASE i # None /\ ~Contains(rdy, i)
  <2>1. WithReady(i) = Append(rdy, i)
    BY <1>2 DEF WithReady
  <2>2. i \in Ios
    BY <1>2
  <2>3. /\ Append(rdy, i) \in Seq(Ios)
        /\ Len(Append(rdy, i)) = Len(rdy) + 1
        /\ \A k \in 1..Len(rdy) : Append(rdy, i)[k] = rdy[k]
        /\ Append(rdy, i)[Len(rdy) + 1] = i
    BY <2>2
  <2>4. \A k \in 1..Len(rdy) : rdy[k] # i
    BY <1>2 DEF Contains
  <2> QED
    BY <2>1, <2>2, <2>3, <2>4 DEF Contains
<1> QED
  BY <1>1, <1>2

(* Cancelling takes a watcher off the list and no other.                    *)
LEMMA WithoutReadyRemoves ==
  ASSUME rdy \in Seq(Ios), NEW i \in Ios \cup {None}, None \notin Ios,
         \A k, l \in DOMAIN rdy : rdy[k] = rdy[l] => k = l
  PROVE  /\ WithoutReady(i) \in Seq(Ios)
         /\ \A j \in Ios : Contains(WithoutReady(i), j) <=> Contains(rdy, j) /\ j # i
         /\ \A k \in DOMAIN WithoutReady(i) : WithoutReady(i)[k] # i /\ Contains(rdy, WithoutReady(i)[k])
         /\ \A k, l \in DOMAIN WithoutReady(i) : WithoutReady(i)[k] = WithoutReady(i)[l] => k = l
<1>1. CASE ~Contains(rdy, i)
  BY <1>1 DEF WithoutReady, Contains
<1>2. CASE Contains(rdy, i)
  <2>1. PICK n \in DOMAIN rdy : n = CHOOSE k \in DOMAIN rdy : rdy[k] = i
    BY <1>2 DEF Contains
  <2>2. rdy[n] = i /\ n \in 1..Len(rdy) /\ Len(rdy) \in Nat
    BY <1>2, <2>1 DEF Contains
  <2> DEFINE w == SubSeq(rdy, 1, n - 1) \o SubSeq(rdy, n + 1, Len(rdy))
  <2>3. WithoutReady(i) = w
    BY <1>2, <2>1 DEF WithoutReady, RemoveAt
  <2>4. /\ w \in Seq(Ios)
        /\ Len(w) = Len(rdy) - 1
        /\ \A k \in 1..(Len(rdy) - 1) : w[k] = IF k < n THEN rdy[k] ELSE rdy[k + 1]
    <3> DEFINE a == SubSeq(rdy, 1, n - 1)
               b == SubSeq(rdy, n + 1, Len(rdy))
    <3>1. /\ a \in Seq(Ios) /\ Len(a) = n - 1
          /\ \A k \in 1..(n - 1) : a[k] = rdy[k]
      BY <2>2
    <3>2. /\ b \in Seq(Ios) /\ Len(b) = Len(rdy) - n
          /\ \A k \in 1..(Len(rdy) - n) : b[k] = rdy[k + n]
      BY <2>2
    <3> HIDE DEF a, b
    <3>3. /\ a \o b \in Seq(Ios) /\ Len(a \o b) = Len(a) + Len(b)
          /\ \A k \in 1..(Len(a) + Len(b)) :
               (a \o b)[k] = IF k <= Len(a) THEN a[k] ELSE b[k - Len(a)]
      BY <3>1, <3>2, ConcatProperties
    <3>4. ASSUME NEW k \in 1..(Len(rdy) - 1)
          PROVE  (a \o b)[k] = IF k < n THEN rdy[k] ELSE rdy[k + 1]
      <4>1. k \in 1..(Len(a) + Len(b))
        BY <3>1, <3>2, <2>2
      <4>2. CASE k < n
        BY <4>1, <4>2, <3>1, <3>3, <2>2
      <4>3. CASE k >= n
        <5>1. k - (n - 1) \in 1..(Len(rdy) - n) /\ (k - (n - 1)) + n = k + 1
          BY <4>3, <2>2
        <5>2. b[k - (n - 1)] = rdy[k + 1]
          BY <5>1, <3>2
        <5>3. (a \o b)[k] = b[k - (n - 1)]
          BY <4>1, <4>3, <3>1, <3>3, <2>2
        <5> QED
          BY <4>3, <5>2, <5>3, <2>2
      <4>4. k < n \/ k >= n
        BY <2>2
      <4> QED
        BY <4>2, <4>3, <4>4
    <3>5. w = a \o b
      BY DEF w, a, b
    <3>6. Len(a \o b) = Len(rdy) - 1
      BY <3>1, <3>2, <3>3, <2>2
    <3> QED
      BY <3>3, <3>4, <3>5, <3>6
  <2> HIDE DEF w
  <2>5. \A k \in 1..Len(w) : w[k] # i /\ Contains(rdy, w[k])
    BY <2>2, <2>4 DEF Contains
  <2>6. \A j \in Ios : Contains(rdy, j) /\ j # i => Contains(w, j)
    <3> SUFFICES ASSUME NEW j \in Ios, NEW m \in 1..Len(rdy), rdy[m] = j, j # i
                 PROVE  \E k \in 1..Len(w) : w[k] = j
      BY DEF Contains
    <3>1. CASE m < n
      BY <3>1, <2>2, <2>4
    <3>2. CASE m > n
      <4>1. m - 1 \in 1..Len(w) /\ w[m - 1] = rdy[m]
        BY <3>2, <2>2, <2>4
      <4> QED
        BY <4>1
    <3> QED
      BY <3>1, <3>2, <2>2
  <2>7. ASSUME NEW k \in 1..Len(w), NEW l \in 1..Len(w), w[k] = w[l]
        PROVE  k = l
    <3> DEFINE at(m) == IF m < n THEN m ELSE m + 1
    <3>1. at(k) \in DOMAIN rdy /\ at(l) \in DOMAIN rdy
      BY <2>2, <2>4
    <3>2. rdy[at(k)] = w[k] /\ rdy[at(l)] = w[l]
      BY <2>2, <2>4
    <3>3. at(k) = at(l)
      BY <2>7, <3>1, <3>2
    <3> QED
      BY <3>3, <2>2, <2>4
  <2>8. DOMAIN w = 1..Len(w)
    BY <2>4
  <2>9. \A j \in Ios : Contains(w, j) => Contains(rdy, j) /\ j # i
    BY <2>5 DEF Contains
  <2> QED
    BY <2>3, <2>4, <2>5, <2>6, <2>7, <2>8, <2>9
<1> QED
  BY <1>1, <1>2

(* The first event of a batch, or of the ready list, and the others.        *)
LEMMA HeadAndTail ==
  ASSUME NEW s \in Seq(Ios), s # <<>>
  PROVE  /\ Head(s) \in Ios /\ Tail(s) \in Seq(Ios)
         /\ Len(Tail(s)) = Len(s) - 1 /\ Len(s) \in Nat /\ Len(s) >= 1
         /\ DOMAIN s = 1..Len(s) /\ DOMAIN Tail(s) = 1..(Len(s) - 1)
         /\ Head(s) = s[1]
         /\ \A k \in DOMAIN Tail(s) : k + 1 \in DOMAIN s /\ Tail(s)[k] = s[k + 1]
         /\ \A j : Contains(s, j) <=> j = Head(s) \/ Contains(Tail(s), j)
<1>1. /\ Head(s) \in Ios /\ Tail(s) \in Seq(Ios)
      /\ Len(Tail(s)) = Len(s) - 1 /\ Len(s) \in Nat /\ Len(s) >= 1
      /\ DOMAIN s = 1..Len(s) /\ Head(s) = s[1]
      /\ \A k \in 1..(Len(s) - 1) : Tail(s)[k] = s[k + 1]
  OBVIOUS
<1>2. DOMAIN Tail(s) = 1..(Len(s) - 1)
  BY <1>1
<1>3. ASSUME NEW j, NEW k \in 1..Len(s), s[k] = j, j # Head(s)
      PROVE  Contains(Tail(s), j)
  <2>1. k # 1 /\ k - 1 \in 1..(Len(s) - 1) /\ (k - 1) + 1 = k
    BY <1>1, <1>3
  <2>2. Tail(s)[k - 1] = j /\ k - 1 \in 1..Len(Tail(s))
    BY <1>1, <1>3, <2>1
  <2> QED
    BY <2>2 DEF Contains
<1>4. ASSUME NEW j, NEW k \in 1..Len(Tail(s)), Tail(s)[k] = j
      PROVE  Contains(s, j)
  <2>1. k + 1 \in 1..Len(s) /\ s[k + 1] = j
    BY <1>1, <1>4
  <2> QED
    BY <2>1 DEF Contains
<1>5. Contains(s, Head(s))
  BY <1>1 DEF Contains
<1> QED
  BY <1>1, <1>2, <1>3, <1>4, <1>5 DEF Contains

(* One more event in the batch.                                             *)
LEMMA AppendAdds ==
  ASSUME NEW s \in Seq(Ios), NEW i \in Ios
  PROVE  /\ Append(s, i) \in Seq(Ios) /\ Len(Append(s, i)) = Len(s) + 1 /\ Len(s) \in Nat
         /\ \A j \in Ios : Contains(Append(s, i), j) <=> Contains(s, j) \/ j = i
         /\ \A k \in DOMAIN Append(s, i) : Append(s, i)[k] = i \/ Contains(s, Append(s, i)[k])
<1>1. /\ Append(s, i) \in Seq(Ios) /\ Len(Append(s, i)) = Len(s) + 1 /\ Len(s) \in Nat
      /\ DOMAIN Append(s, i) = 1..(Len(s) + 1)
      /\ \A k \in 1..Len(s) : Append(s, i)[k] = s[k]
      /\ Append(s, i)[Len(s) + 1] = i
  OBVIOUS
<1>2. \A k \in 1..(Len(s) + 1) : k \in 1..Len(s) \/ k = Len(s) + 1
  BY <1>1
<1>3. Len(s) + 1 \in 1..(Len(s) + 1) /\ \A k \in 1..Len(s) : k \in 1..(Len(s) + 1)
  BY <1>1
<1> QED
  BY <1>1, <1>2, <1>3 DEF Contains
-----------------------------------------------------------------------------
LEMMA InitIInv == Init => IInv
<1> SUFFICES ASSUME Init PROVE IInv
  OBVIOUS
<1>1. rdy = <<>> /\ batch = <<>> /\ Len(batch) = 0 /\ DOMAIN rdy = {} /\ DOMAIN batch = {}
  BY DEF Init
<1>2. \A i \in Ios : ~Listed(i) /\ ~Watching(i)
  BY DEF Init, Listed, Watching
<1> QED
  BY <1>1, <1>2, WatcherAssumption
  DEF Init, IInv, TypeOK, EventsAlive, Registered, EdgeKept, ReadyOnce, Rounds

(* The environment.                                                         *)
LEMMA EnvironmentKeeps ==
  ASSUME IInv, NEW f \in Fds, Open(f) \/ Arrive(f) \/ Consume(f) \/ Close(f)
  PROVE  IInv'
<1> USE WatcherAssumption DEF IInv
<1>1. CASE Open(f) \/ Consume(f)
  BY <1>1 DEF Open, Consume, TypeOK, EventsAlive, Registered, EdgeKept, ReadyOnce, Rounds, Watching, Listed, Contains
<1>2. CASE Arrive(f)
  <2> DEFINE i == epoll[f]
  <2>1. i \in Ios \cup {None} /\ rdy' = WithReady(i) /\ level' = level \cup {f}
    BY <1>2 DEF Arrive, TypeOK
  <2>2. /\ rdy' \in Seq(Ios)
        /\ \A j \in Ios : Contains(rdy', j) <=> Contains(rdy, j) \/ j = i
        /\ \A k \in DOMAIN rdy' : rdy'[k] = i \/ Contains(rdy, rdy'[k])
        /\ \A k, l \in DOMAIN rdy' : rdy'[k] = rdy'[l] => k = l
    BY <2>1, WithReadyAdds DEF TypeOK, ReadyOnce
  <2>3. (\A k \in DOMAIN rdy : Watching(rdy[k]))'
    <3> SUFFICES ASSUME NEW k \in DOMAIN rdy' PROVE Watching(rdy'[k])
      BY <1>2 DEF Arrive, Watching, Listed
    <3>1. rdy'[k] \in Ios
      BY <2>2
    <3>2. CASE rdy'[k] = i
      BY <3>1, <3>2 DEF Registered
    <3>3. CASE Contains(rdy, rdy'[k])
      BY <3>3 DEF TypeOK, ReadyOnce, Contains
    <3> QED
      BY <2>2, <3>2, <3>3
  <2>4. TypeOK'
    BY <1>2, <2>1, <2>2 DEF Arrive, TypeOK
  <2>5. EdgeKept'
    BY <1>2, <2>1, <2>2 DEF Arrive, EdgeKept, Registered, Watching, Listed
  <2> QED
    BY <1>2, <2>2, <2>3, <2>4, <2>5 DEF Arrive, EventsAlive, Registered, ReadyOnce, Rounds, Watching, Listed
<1>3. CASE Close(f)
  <2>1. epoll[f] = None
    BY <1>3 DEF Close, Registered, TypeOK
  <2>2. epoll' = epoll
    BY <1>3, <2>1 DEF Close, TypeOK
  <2>3. rdy' = rdy
    BY <1>3, <2>1 DEF Close, WithoutReady, TypeOK, Contains
  <2> QED
    BY <1>3, <2>2, <2>3 DEF Close, TypeOK, EventsAlive, Registered, EdgeKept, ReadyOnce, Rounds, Watching, Listed
<1> QED
  BY <1>1, <1>2, <1>3

(* Starting a watcher; one that epoll refuses is inert.                     *)
LEMMA StartsKeep ==
  ASSUME IInv, NEW i \in Ios, NEW f \in Fds, Start(i, f) \/ StartFails(i, f)
  PROVE  IInv'
<1> USE WatcherAssumption DEF IInv
<1>1. CASE StartFails(i, f)
  <2>1. \A j \in Ios : Watching(j)' <=> Watching(j)
    BY <1>1 DEF StartFails, Watching, Listed, TypeOK
  <2>2. \A j \in Ios : Watching(j) => io'[j] = io[j]
    BY <1>1 DEF StartFails, Watching, Listed, TypeOK
  <2>3. \A j \in Ios : Listed(j) => Listed(j)'
    BY <1>1 DEF StartFails, Listed, TypeOK
  <2>4. TypeOK'
    BY <1>1 DEF StartFails, kernel, TypeOK
  <2>5. Registered'
    BY <1>1, <2>1, <2>2 DEF StartFails, kernel, Registered
  <2>6. EdgeKept'
    BY <1>1, <2>1, <2>2 DEF StartFails, kernel, EdgeKept
  <2>7. EventsAlive'
    BY <1>1, <2>3 DEF StartFails, kernel, EventsAlive, TypeOK
  <2> QED
    BY <1>1, <2>1, <2>2, <2>4, <2>5, <2>6, <2>7 DEF StartFails, kernel, ReadyOnce, Rounds, TypeOK
<1>2. CASE Start(i, f)
  <2>1. /\ ~Listed(i) /\ ~Watching(i) /\ Watching(i)' /\ io'[i].fd = f
        /\ \A j \in Ios \ {i} : io'[j] = io[j]
    BY <1>2 DEF Start, Watching, Listed, TypeOK
  <2>2. \A j \in Ios : Watching(j)' <=> Watching(j) \/ j = i
    BY <2>1 DEF Watching, Listed
  <2>3. \A j \in Ios : Listed(j) => Listed(j)'
    BY <2>1 DEF Listed
  <2>4. \A g \in Fds : epoll[g] # i
    BY <2>1 DEF Registered
  <2>5. /\ rdy' \in Seq(Ios)
        /\ \A j \in Ios : Contains(rdy', j) <=> Contains(rdy, j) \/ (j = i /\ f \in level)
        /\ \A k \in DOMAIN rdy' : rdy'[k] = i \/ Contains(rdy, rdy'[k])
        /\ \A k, l \in DOMAIN rdy' : rdy'[k] = rdy'[l] => k = l
    <3>1. ~Contains(rdy, i)
      BY <2>1 DEF ReadyOnce, Contains, TypeOK
    <3>2. CASE f \in level
      BY <1>2, <3>2, WithReadyAdds DEF Start, TypeOK, ReadyOnce
    <3>3. CASE f \notin level
      BY <1>2, <3>3 DEF Start, TypeOK, ReadyOnce, Contains
    <3> QED
      BY <3>2, <3>3
  <2>6. TypeOK'
    BY <1>2, <2>5 DEF Start, TypeOK
  <2>7. Registered'
    BY <1>2, <2>1, <2>2, <2>4 DEF Start, Registered, TypeOK
  <2>8. (\A k \in DOMAIN rdy : Watching(rdy[k]))'
    BY <2>1, <2>2, <2>5 DEF ReadyOnce, Contains, TypeOK
  <2>9. EventsAlive'
    <3>1. (\A g \in Fds : epoll[g] # None => Listed(epoll[g]))'
      BY <1>2, <2>1, <2>3 DEF Start, EventsAlive, TypeOK, Watching, Listed
    <3> QED
      BY <1>2, <2>3, <2>8, <3>1 DEF Start, EventsAlive, TypeOK, Watching
  <2>10. EdgeKept'
    BY <1>2, <2>1, <2>2, <2>5 DEF Start, EdgeKept
  <2> QED
    BY <1>2, <2>1, <2>2, <2>5, <2>6, <2>7, <2>8, <2>9, <2>10 DEF Start, ReadyOnce, Rounds
<1> QED
  BY <1>1, <1>2

(* A cancelled watcher stays on the list, and is forgotten by the kernel.   *)
LEMMA CancelKeeps ==
  ASSUME IInv, NEW i \in Ios, Cancel(i)
  PROVE  IInv'
<1> USE WatcherAssumption DEF IInv
<1>1. io[i].fd \in Fds /\ epoll[io[i].fd] = i /\ Listed(i)
  BY DEF Cancel, Rounds, Registered, Watching
<1>2. /\ \A j \in Ios : Watching(j)' <=> Watching(j) /\ j # i
      /\ \A j \in Ios : Listed(j)' <=> Listed(j)
      /\ \A j \in Ios : io'[j].fd = io[j].fd
  BY DEF Cancel, Watching, Listed, TypeOK
<1>3. /\ rdy' \in Seq(Ios)
      /\ \A j \in Ios : Contains(rdy', j) <=> Contains(rdy, j) /\ j # i
      /\ \A k \in DOMAIN rdy' : rdy'[k] # i /\ Contains(rdy, rdy'[k])
      /\ \A k, l \in DOMAIN rdy' : rdy'[k] = rdy'[l] => k = l
  BY <1>1, WithoutReadyRemoves DEF Cancel, TypeOK, ReadyOnce
<1>4. TypeOK'
  <2>1. io' \in [Ios -> [st : {"unused", "listed", "freed"}, fd : Fds \cup {None}, active : BOOLEAN]]
    BY DEF Cancel, TypeOK
  <2>2. epoll' \in [Fds -> Ios \cup {None}]
    BY <1>1 DEF Cancel, TypeOK
  <2> QED
    BY <1>3, <2>1, <2>2 DEF Cancel, TypeOK
<1>5. Registered'
  BY <1>1, <1>2 DEF Cancel, Registered, TypeOK
<1>6. (\A k \in DOMAIN rdy : Watching(rdy[k]))'
  <2>1. \A k \in DOMAIN rdy' : rdy'[k] \in Ios /\ rdy'[k] # i /\ Contains(rdy, rdy'[k])
    BY <1>3
  <2>2. \A j \in Ios : Contains(rdy, j) => Watching(j)
    BY DEF ReadyOnce, Contains, TypeOK
  <2>3. \A j \in Ios : Contains(rdy, j) /\ j # i => Watching(j)'
    BY <1>2, <2>2
  <2> QED
    BY <2>1, <2>3 DEF Watching, Listed
<1>7. EventsAlive'
  <2>1. (\A k \in DOMAIN rdy : Listed(rdy[k]))'
    BY <1>6 DEF Watching
  <2>2. (\A g \in Fds : epoll[g] # None => Listed(epoll[g]))'
    BY <1>1, <1>2 DEF Cancel, EventsAlive, TypeOK
  <2> QED
    BY <1>2, <2>1, <2>2 DEF Cancel, EventsAlive, TypeOK
<1>8. EdgeKept'
  BY <1>2, <1>3 DEF Cancel, EdgeKept
<1> QED
  BY <1>2, <1>3, <1>4, <1>5, <1>6, <1>7, <1>8 DEF Cancel, ReadyOnce, Rounds

(* The kernel reports the head of its list, if it is still ready.           *)
LEMMA ReportKeeps ==
  ASSUME IInv, Report
  PROVE  IInv'
<1> USE WatcherAssumption DEF IInv
<1> DEFINE h == Head(rdy)
<1>1. /\ h \in Ios /\ rdy' = Tail(rdy) /\ rdy' \in Seq(Ios)
      /\ DOMAIN rdy = 1..Len(rdy) /\ DOMAIN rdy' = 1..(Len(rdy) - 1) /\ Len(rdy) \in Nat
      /\ \A k \in DOMAIN rdy' : k + 1 \in DOMAIN rdy /\ rdy'[k] = rdy[k + 1]
      /\ \A j : Contains(rdy, j) <=> j = h \/ Contains(rdy', j)
      /\ 1 \in DOMAIN rdy /\ h = rdy[1]
  BY HeadAndTail DEF Report, TypeOK
<1>2. Watching(h)
  BY <1>1 DEF ReadyOnce
<1>3. /\ batch' \in Seq(Ios) /\ Len(batch') <= MaxEvents
      /\ \A j \in Ios : Contains(batch, j) => Contains(batch', j)
      /\ \A k \in DOMAIN batch' : batch'[k] = h \/ Contains(batch, batch'[k])
      /\ io[h].fd \in level => Contains(batch', h)
  <2>1. CASE io[h].fd \in level
    <3>1. batch' = Append(batch, h)
      BY <2>1 DEF Report
    <3>2. Len(batch) < MaxEvents /\ batch \in Seq(Ios)
      BY DEF Report, TypeOK
    <3> HIDE DEF h
    <3> QED
      BY <1>1, <3>1, <3>2, AppendAdds
  <2>2. CASE io[h].fd \notin level
    BY <2>2 DEF Report, TypeOK, Contains
  <2> QED
    BY <2>1, <2>2
<1> HIDE DEF h
<1>4. TypeOK'
  BY <1>1, <1>3 DEF Report, TypeOK
<1>5. EventsAlive'
  <2>1. \A k \in DOMAIN batch' : Listed(batch'[k])
    BY <1>2, <1>3 DEF EventsAlive, Contains, TypeOK, Watching
  <2>2. \A k \in DOMAIN rdy' : Listed(rdy'[k])
    BY <1>1 DEF EventsAlive
  <2> QED
    BY <2>1, <2>2 DEF Report, EventsAlive, Listed
<1>6. EdgeKept'
  <2>1. ASSUME NEW i \in Ios, Watching(i), io[i].fd \in level
        PROVE  Contains(rdy', i) \/ i = current \/ Contains(batch', i)
    <3>1. CASE i = h
      BY <2>1, <3>1, <1>3
    <3>2. CASE i # h
      BY <2>1, <3>2, <1>1, <1>3 DEF EdgeKept
    <3> QED
      BY <3>1, <3>2
  <2> QED
    BY <2>1 DEF Report, EdgeKept, Watching, Listed
<1>7. ReadyOnce'
  <2>1. \A k \in DOMAIN rdy' : Watching(rdy'[k])
    BY <1>1 DEF ReadyOnce
  <2>2. \A k, l \in DOMAIN rdy' : rdy'[k] = rdy'[l] => k = l
    BY <1>1 DEF ReadyOnce
  <2> QED
    BY <2>1, <2>2 DEF Report, ReadyOnce, Watching, Listed
<1> QED
  BY <1>4, <1>5, <1>6, <1>7 DEF Report, Registered, Rounds, Watching, Listed

(* The loop looks at the first event of the batch; one that was cancelled   *)
(* meanwhile owes nothing.                                                  *)
LEMMA DispatchKeeps ==
  ASSUME IInv, Dispatch
  PROVE  IInv'
<1> USE WatcherAssumption DEF IInv
<1> DEFINE h == Head(batch)
<1>1. /\ h \in Ios /\ batch' = Tail(batch) /\ batch' \in Seq(Ios)
      /\ Len(batch') = Len(batch) - 1 /\ Len(batch) \in Nat
      /\ \A k \in DOMAIN batch' : k + 1 \in DOMAIN batch /\ batch'[k] = batch[k + 1]
      /\ \A j : Contains(batch, j) <=> j = h \/ Contains(batch', j)
      /\ Listed(h)
  <2>1. batch \in Seq(Ios) /\ batch # <<>> /\ batch' = Tail(batch)
    BY DEF Dispatch, TypeOK
  <2>2. 1 \in DOMAIN batch /\ h = batch[1]
    BY <2>1, HeadAndTail
  <2> QED
    BY <2>1, <2>2, HeadAndTail DEF EventsAlive
<1>2. \/ io[h].active /\ pc' = "callback" /\ current' = h
      \/ ~io[h].active /\ pc' = pc /\ current' = current
  BY DEF Dispatch
<1> HIDE DEF h
<1>3. pc = "events" /\ current = None /\ pc' \in {"events", "callback"}
  BY <1>2 DEF Dispatch, TypeOK
<1>4. TypeOK'
  BY <1>1, <1>2, <1>3 DEF Dispatch, kernel, TypeOK
<1>5. EventsAlive'
  BY <1>1, <1>2, <1>3 DEF Dispatch, kernel, EventsAlive, Listed
<1>6. EdgeKept'
  <2>1. ASSUME NEW i \in Ios, Watching(i), io[i].fd \in level
        PROVE  Contains(rdy, i) \/ i = current' \/ Contains(batch', i)
    <3>1. Contains(rdy, i) \/ Contains(batch, i)
      BY <2>1, <1>3 DEF EdgeKept
    <3>2. i = h => i = current'
      BY <2>1, <1>2 DEF Watching
    <3> QED
      BY <3>1, <3>2, <1>1
  <2> QED
    BY <2>1 DEF Dispatch, kernel, EdgeKept, Watching, Listed
<1> QED
  BY <1>3, <1>4, <1>5, <1>6 DEF Dispatch, kernel, Registered, ReadyOnce, Rounds, Watching, Listed

(* The end of a callback, of the events and of the round.                   *)
LEMMA RoundKeeps ==
  ASSUME IInv, EndWait \/ Return \/ RunTasks
  PROVE  IInv'
<1> USE WatcherAssumption DEF IInv
<1>1. CASE EndWait
  BY <1>1 DEF EndWait, kernel, TypeOK, EventsAlive, Registered, EdgeKept, ReadyOnce, Rounds, Watching, Listed
<1>2. CASE Return
  BY <1>2 DEF Return, kernel, TypeOK, EventsAlive, Registered, EdgeKept, ReadyOnce, Rounds, Watching, Listed
<1>3. CASE RunTasks
  BY <1>3 DEF RunTasks, kernel, TypeOK, EventsAlive, Registered, EdgeKept, ReadyOnce, Rounds, Watching, Listed
<1> QED
  BY <1>1, <1>2, <1>3

(* Pruning frees what is not active, which nothing points to any more; and  *)
(* memory that is used again was freed.                                     *)
LEMMA PruneKeeps ==
  ASSUME IInv, Prune \/ \E i \in Ios : Reuse(i)
  PROVE  IInv'
<1> USE WatcherAssumption DEF IInv
<1>1. CASE Prune
  <2>1. batch = <<>> /\ DOMAIN batch = {} /\ pc' = "wait" /\ current = None
    BY <1>1 DEF Prune, Rounds, TypeOK
  <2>2. \A i \in Ios : Watching(i)' <=> Watching(i)
    BY <1>1 DEF Prune, Watching, Listed, TypeOK
  <2>3. \A i \in Ios : io'[i].fd = io[i].fd
    BY <1>1 DEF Prune, TypeOK
  <2>4. TypeOK'
    <3>1. io' \in [Ios -> [st : {"unused", "listed", "freed"}, fd : Fds \cup {None}, active : BOOLEAN]]
      BY <1>1 DEF Prune, TypeOK
    <3> QED
      BY <1>1, <2>1, <3>1 DEF Prune, kernel, TypeOK
  <2>5. \A i \in Ios : Watching(i) => Watching(i)' /\ Listed(i)'
    BY <2>2 DEF Watching
  <2>6. (\A k \in DOMAIN rdy : Watching(rdy[k]) /\ Listed(rdy[k]))'
    <3>1. \A k \in DOMAIN rdy' : rdy'[k] \in Ios /\ Watching(rdy'[k])
      BY <1>1 DEF Prune, kernel, ReadyOnce, TypeOK
    <3> QED
      BY <2>5, <3>1 DEF Watching, Listed
  <2>7. (\A f \in Fds : epoll[f] # None => Listed(epoll[f]))'
    <3>1. \A f \in Fds : epoll'[f] # None => epoll'[f] \in Ios /\ Watching(epoll'[f])
      BY <1>1 DEF Prune, kernel, Registered, TypeOK
    <3> QED
      BY <2>5, <3>1 DEF Watching, Listed
  <2>8. EventsAlive'
    BY <1>1, <2>1, <2>6, <2>7 DEF Prune, kernel, EventsAlive
  <2>9. Registered' /\ EdgeKept'
    BY <1>1, <2>1, <2>2, <2>3 DEF Prune, kernel, Registered, EdgeKept
  <2> QED
    BY <1>1, <2>1, <2>2, <2>3, <2>4, <2>6, <2>8, <2>9 DEF Prune, kernel, ReadyOnce, Rounds
<1>2. CASE \E i \in Ios : Reuse(i)
  <2>1. PICK i \in Ios : Reuse(i)
    BY <1>2
  <2>2. /\ \A j \in Ios : Watching(j)' <=> Watching(j)
        /\ \A j \in Ios : Listed(j)' <=> Listed(j)
        /\ \A j \in Ios : io'[j].fd = io[j].fd
    BY <2>1 DEF Reuse, Watching, Listed, TypeOK
  <2>3. TypeOK'
    <3>1. io' \in [Ios -> [st : {"unused", "listed", "freed"}, fd : Fds \cup {None}, active : BOOLEAN]]
      BY <2>1 DEF Reuse, TypeOK
    <3>2. UNCHANGED <<epoll, rdy, open, level, batch, pc, current>>
      BY <2>1 DEF Reuse, kernel
    <3> QED
      BY <3>1, <3>2 DEF TypeOK
  <2>4. Registered' /\ EdgeKept'
    BY <2>1, <2>2 DEF Reuse, kernel, Registered, EdgeKept
  <2>5. EventsAlive'
    <3>1. /\ \A k \in DOMAIN batch : batch[k] \in Ios
          /\ \A k \in DOMAIN rdy : rdy[k] \in Ios
          /\ \A f \in Fds : epoll[f] # None => epoll[f] \in Ios
          /\ pc = "callback" => current \in Ios
      BY DEF TypeOK
    <3> QED
      BY <2>1, <2>2, <3>1 DEF Reuse, kernel, EventsAlive, Listed
  <2>6. ReadyOnce'
    BY <2>1, <2>2 DEF Reuse, kernel, ReadyOnce, TypeOK, Watching, Listed
  <2> QED
    BY <2>1, <2>2, <2>3, <2>4, <2>5, <2>6 DEF Reuse, kernel, Rounds
<1> QED
  BY <1>1, <1>2
-----------------------------------------------------------------------------
LEMMA Inductive == Spec => []IInv
<1>1. ASSUME IInv, [Next]_vars
      PROVE  IInv'
  <2>1. ASSUME NEW f \in Fds, Open(f) \/ Arrive(f) \/ Consume(f) \/ Close(f)
        PROVE  IInv'
    BY <1>1, <2>1, EnvironmentKeeps
  <2>2. ASSUME NEW i \in Ios, NEW f \in Fds, Start(i, f) \/ StartFails(i, f)
        PROVE  IInv'
    BY <1>1, <2>2, StartsKeep
  <2>3. ASSUME NEW i \in Ios, Cancel(i)
        PROVE  IInv'
    BY <1>1, <2>3, CancelKeeps
  <2>4. CASE Report
    BY <1>1, <2>4, ReportKeeps
  <2>5. CASE Dispatch
    BY <1>1, <2>5, DispatchKeeps
  <2>6. CASE EndWait \/ Return \/ RunTasks
    BY <1>1, <2>6, RoundKeeps
  <2>7. CASE Prune \/ \E i \in Ios : Reuse(i)
    BY <1>1, <2>7, PruneKeeps
  <2>8. CASE UNCHANGED vars
    BY <1>1, <2>8 DEF vars, kernel, IInv, TypeOK, EventsAlive, Registered, EdgeKept, ReadyOnce, Rounds, Watching, Listed
  <2> QED
    BY <1>1, <2>1, <2>2, <2>3, <2>4, <2>5, <2>6, <2>7, <2>8 DEF Next, LoopStep
<1> QED
  BY <1>1, InitIInv, PTL DEF Spec

(* Every variable keeps its type, and a round its bound, in every loop.     *)
THEOREM TypeCorrect == Spec => []TypeOK
BY Inductive, PTL DEF IInv

(* No event, no entry of the kernel's and no running callback ever points   *)
(* to a watcher that tua_loop_prune_ios_locked has freed.                   *)
THEOREM EventsPointToLive == Spec => []EventsAlive
BY Inductive, PTL DEF IInv

(* The kernel's registrations are exactly the active watchers.              *)
THEOREM RegistrationAgrees == Spec => []Registered
BY Inductive, PTL DEF IInv

(* Data on a watched descriptor is always on its way to the callback: what  *)
(* edge-triggered epoll reports once is not lost.                           *)
THEOREM EdgesAreKept == Spec => []EdgeKept
BY Inductive, PTL DEF IInv
=============================================================================
