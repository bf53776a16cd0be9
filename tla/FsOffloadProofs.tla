-------------------------- MODULE FsOffloadProofs ---------------------------
(***************************************************************************)
(* Proofs about FsOffload, for any operations and workers: each operation   *)
(* ends once, the loop outlives the workers, and one worker gives reads the *)
(* latest write.                                                            *)
(***************************************************************************)
EXTENDS FsOffload, FiniteSetTheorems, TLAPS

Listed(list) == {list[i] : i \in DOMAIN list}

(* An operation is on the pool's list, with a worker or on the loop's list  *)
(* as its stage says; a worker has an operation to itself.                  *)
Places ==
  /\ Distinct(queue) /\ Distinct(tasks)
  /\ Listed(queue) = {o \in Ops : stage[o] = "queued"}
  /\ Listed(tasks) \subseteq {o \in Ops : stage[o] = "posted"}
  /\ \A w \in Workers : working[w] # None => stage[working[w]] \in {"begun", "opened", "worked", "posted", "done"}
  /\ \A v, w \in Workers : working[v] = working[w] /\ working[v] # None => v = w
  /\ \A o \in Ops : stage[o] \in {"begun", "opened", "worked"} => \E w \in team : working[w] = o
  /\ \A w \in Workers \ team : working[w] = None

(* What is allocated at each stage, and that nothing is freed before.       *)
Sound(s, k, f) ==
  /\ s = "idle" => \A p \in Pieces : f[p] = "none"
  /\ s \in {"queued", "begun", "opened", "worked", "posted"} =>
       /\ \A p \in Pieces : f[p] \in {"none", "live"}
       /\ \A p \in PiecesOf(k) : f[p] = "live"
  /\ s \in {"refused", "done"} =>
       \A p \in Pieces : f[p] \in {"none", "freed"} \/ (p = "names" /\ f[p] = "twice")

PiecesSound == \A o \in Ops : Sound(stage[o], kind[o], piece[o])

(* A freed pool has no work and no worker at work; the loop is freed last.  *)
Frees == /\ pool = "freed" => queue = <<>> /\ \A w \in Workers : working[w] = None
         /\ loop = "freed" => pool = "freed"

(* One callback for each operation that is over.                            *)
Calls == /\ \A i, j \in DOMAIN called : called[i][1] = called[j][1] => i = j
         /\ {called[i][1] : i \in DOMAIN called} = {o \in Ops : stage[o] = "done"}

Shape == TypeOK /\ Places /\ PiecesSound /\ Frees /\ Calls
-----------------------------------------------------------------------------
(* The order of one worker.  The first Begun calls have left the queue.     *)
Begun == Len(accepted) - Len(queue)
Unfinished(i) == stage[accepted[i]] \in {"begun", "opened"}

(* c is what the latest of the writes W left, or what was there before any. *)
Holds(c, W) == IF W = {} THEN c = "first"
               ELSE \E j \in W : c = accepted[j] /\ \A m \in W : m <= j

(* The calls are carried out in their order: the queue is the end of        *)
(* accepted, and only what was begun has seen data.                         *)
InOrder ==
  /\ Begun \in Nat
  /\ \A k \in DOMAIN queue : queue[k] = accepted[Begun + k]
  /\ Distinct(accepted)
  /\ Listed(accepted) = {o \in Ops : stage[o] \notin {"idle", "refused"}}
  /\ \A o \in Ops : data[o] # None => stage[o] \in {"worked", "posted", "done"}
  /\ \A o \in Ops : stage[o] = "opened" => kind[o] = "write"

(* Of the first n calls only the last may still be under way.  The file is  *)
(* what the writes that are finished left, unless one failed or one is      *)
(* between its open and its write; so is what a read has seen.              *)
Follows(n) ==
  /\ \A i \in 1..n : Unfinished(i) => i = n
  /\ n > 0 /\ stage[accepted[n]] = "begun" /\ FailedBefore(n) = {} => Holds(file, WritesBefore(n))
  /\ ~(n > 0 /\ Unfinished(n)) /\ FailedBefore(n + 1) = {} => Holds(file, WritesBefore(n + 1))
  /\ \A i \in 1..n : data[accepted[i]] # None /\ FailedBefore(i) = {} =>
       Holds(data[accepted[i]], WritesBefore(i))

FileFollows == Cardinality(team) = 1 => Follows(Begun)

IInv == Shape /\ InOrder /\ FileFollows
-----------------------------------------------------------------------------
(* One more at the end of a list.                                           *)
LEMMA AppendFacts ==
  ASSUME NEW T, NEW s \in Seq(T), NEW e \in T
  PROVE  /\ Append(s, e) \in Seq(T) /\ Len(Append(s, e)) = Len(s) + 1 /\ Len(s) \in Nat
         /\ \A k \in 1..Len(s) : Append(s, e)[k] = s[k]
         /\ Append(s, e)[Len(s) + 1] = e
         /\ Listed(Append(s, e)) = Listed(s) \cup {e}
         /\ Distinct(s) /\ e \notin Listed(s) => Distinct(Append(s, e))
<1>1. /\ Append(s, e) \in Seq(T) /\ Len(Append(s, e)) = Len(s) + 1 /\ Len(s) \in Nat
      /\ \A k \in 1..Len(s) : Append(s, e)[k] = s[k]
      /\ Append(s, e)[Len(s) + 1] = e
      /\ DOMAIN s = 1..Len(s) /\ DOMAIN Append(s, e) = 1..(Len(s) + 1)
  OBVIOUS
<1>2. \A k \in 1..(Len(s) + 1) : k \in 1..Len(s) \/ k = Len(s) + 1
  BY <1>1
<1>3. Len(s) + 1 \in 1..(Len(s) + 1) /\ \A k \in 1..Len(s) : k \in 1..(Len(s) + 1)
  BY <1>1
<1>4. Listed(Append(s, e)) = Listed(s) \cup {e}
  BY <1>1, <1>2, <1>3 DEF Listed
<1>5. Distinct(s) /\ e \notin Listed(s) => Distinct(Append(s, e))
  BY <1>1, <1>2 DEF Distinct, Listed
<1> QED
  BY <1>1, <1>4, <1>5

(* The first of a list and the others.                                      *)
LEMMA HeadAndTail ==
  ASSUME NEW T, NEW s \in Seq(T), s # <<>>
  PROVE  /\ Head(s) \in T /\ Head(s) = s[1] /\ Tail(s) \in Seq(T)
         /\ Len(Tail(s)) = Len(s) - 1 /\ Len(s) \in Nat /\ Len(s) >= 1
         /\ \A k \in 1..(Len(s) - 1) : Tail(s)[k] = s[k + 1]
         /\ Listed(s) = {Head(s)} \cup Listed(Tail(s))
         /\ Distinct(s) => Distinct(Tail(s)) /\ Head(s) \notin Listed(Tail(s))
<1>1. /\ Head(s) \in T /\ Tail(s) \in Seq(T) /\ Head(s) = s[1]
      /\ DOMAIN s = 1..Len(s) /\ Len(s) \in Nat /\ Len(s) >= 1
      /\ Len(Tail(s)) = Len(s) - 1
      /\ DOMAIN Tail(s) = 1..(Len(s) - 1)
      /\ \A k \in 1..(Len(s) - 1) : Tail(s)[k] = s[k + 1]
  OBVIOUS
<1>2. Listed(s) \subseteq {Head(s)} \cup Listed(Tail(s))
  <2> SUFFICES ASSUME NEW i \in DOMAIN s, i # 1 PROVE \E k \in DOMAIN Tail(s) : Tail(s)[k] = s[i]
    BY <1>1 DEF Listed
  <2>1. i - 1 \in 1..(Len(s) - 1) /\ (i - 1) + 1 = i
    BY <1>1
  <2> QED
    BY <1>1, <2>1
<1>3. \A k \in DOMAIN Tail(s) : k + 1 \in DOMAIN s /\ k + 1 # 1 /\ Tail(s)[k] = s[k + 1]
  BY <1>1
<1>4. {Head(s)} \cup Listed(Tail(s)) \subseteq Listed(s)
  BY <1>1, <1>3 DEF Listed
<1>5. ASSUME Distinct(s)
      PROVE  Distinct(Tail(s)) /\ Head(s) \notin Listed(Tail(s))
  <2>1. \A k, l \in DOMAIN Tail(s) : k \in Nat /\ l \in Nat /\ (k + 1 = l + 1 => k = l)
    BY <1>1
  <2>2. Distinct(Tail(s))
    BY <1>3, <1>5, <2>1 DEF Distinct
  <2>3. Head(s) \notin Listed(Tail(s))
    BY <1>1, <1>3, <1>5 DEF Distinct, Listed
  <2> QED
    BY <2>2, <2>3
<1> QED
  BY <1>1, <1>2, <1>4, <1>5

(* What a call or a worker adds to the allocations of an operation.         *)
LEMMA WithFacts ==
  ASSUME TypeOK, NEW o \in Ops, NEW ps
  PROVE  /\ With(o, ps) \in [Ops -> [Pieces -> {"none", "live", "freed", "twice"}]]
         /\ \A p \in Pieces : With(o, ps)[o][p] = IF p \in ps THEN "live" ELSE piece[o][p]
         /\ \A q \in Ops \ {o} : With(o, ps)[q] = piece[q]
<1>1. piece \in [Ops -> [Pieces -> {"none", "live", "freed", "twice"}]]
  BY DEF TypeOK
<1>2. With(o, ps) = [piece EXCEPT ![o] = [p \in Pieces |-> IF p \in ps THEN "live" ELSE piece[o][p]]]
  BY <1>1 DEF With
<1> QED
  BY <1>1, <1>2

(* Freeing: a second free shows.                                            *)
LEMMA FreeFacts ==
  ASSUME NEW f \in [Pieces -> {"none", "live", "freed", "twice"}], NEW ps
  PROVE  /\ FreeOf(f, ps) \in [Pieces -> {"none", "live", "freed", "twice"}]
         /\ \A p \in Pieces : FreeOf(f, ps)[p] =
              IF p \notin ps \/ f[p] = "none" THEN f[p] ELSE IF f[p] = "live" THEN "freed" ELSE "twice"
BY DEF FreeOf

(* What a callback and the end of its task leave of the allocations.        *)
LEMMA CompletedFacts ==
  ASSUME TypeOK, PiecesSound, NEW o \in Ops,
         stage[o] \in {"queued", "begun", "opened", "worked", "posted"}
  PROVE  /\ Completed(o)[o] \in [Pieces -> {"none", "live", "freed", "twice"}]
         /\ Completed(o) = [piece EXCEPT ![o] = Completed(o)[o]]
         /\ \A p \in Pieces : Completed(o)[o][p] \in {"none", "freed"}
<1> DEFINE f == piece[o]
           g == FreeOf(f, {"data", "names", "ctx"})
           h == FreeOf(g, {"path", "copy", "job"})
<1>1. /\ piece \in [Ops -> [Pieces -> {"none", "live", "freed", "twice"}]]
      /\ f \in [Pieces -> {"none", "live", "freed", "twice"}]
  BY DEF TypeOK
<1>2. \A p \in Pieces : f[p] \in {"none", "live"}
  BY DEF PiecesSound, Sound
<1>3. Completed(o) = [piece EXCEPT ![o] = h]
  BY DEF Completed
<1> HIDE DEF f
<1>4. /\ g \in [Pieces -> {"none", "live", "freed", "twice"}]
      /\ \A p \in Pieces : g[p] =
           IF p \notin {"data", "names", "ctx"} \/ f[p] = "none" THEN f[p]
           ELSE IF f[p] = "live" THEN "freed" ELSE "twice"
  BY <1>1, FreeFacts
<1> HIDE DEF g
<1>5. /\ h \in [Pieces -> {"none", "live", "freed", "twice"}]
      /\ \A p \in Pieces : h[p] =
           IF p \notin {"path", "copy", "job"} \/ g[p] = "none" THEN g[p]
           ELSE IF g[p] = "live" THEN "freed" ELSE "twice"
  BY <1>4, FreeFacts
<1> HIDE DEF h
<1>6. Completed(o)[o] = h
  BY <1>1, <1>3
<1>7. \A p \in Pieces : h[p] \in {"none", "freed"}
  BY <1>2, <1>4, <1>5 DEF Pieces
<1> QED
  BY <1>3, <1>5, <1>6, <1>7

(* One operation moves on, the others stay.                                 *)
LEMMA OneMoves ==
  ASSUME PiecesSound, NEW o \in Ops, Sound(stage'[o], kind'[o], piece'[o]),
         \A q \in Ops \ {o} : stage'[q] = stage[q],
         \A q \in Ops \ {o} : kind'[q] = kind[q],
         \A q \in Ops \ {o} : piece'[q] = piece[q]
  PROVE  PiecesSound'
<1>1. \A q \in Ops : Sound(stage'[q], kind'[q], piece'[q])
  BY DEF PiecesSound
<1>2. (\A q \in Ops : Sound(stage[q], kind[q], piece[q]))'
      <=> \A q \in Ops : Sound(stage'[q], kind'[q], piece'[q])
  BY DEF Sound, PiecesOf, Wanted
<1> QED
  BY <1>1, <1>2 DEF PiecesSound

(* No callback is called.                                                   *)
LEMMA NoCall ==
  ASSUME Calls, called' = called, \A o \in Ops : stage'[o] = "done" <=> stage[o] = "done"
  PROVE  Calls'
BY DEF Calls

(* The callback of an operation that had none.                              *)
LEMMA OneCall ==
  ASSUME TypeOK, Calls, NEW o \in Ops, stage[o] # "done", NEW t \in {"loop", "worker"}, Called(o, t)
  PROVE  Calls' /\ called' \in Seq(Ops \X {"loop", "worker"})
<1>1. /\ called \in Seq(Ops \X {"loop", "worker"}) /\ <<o, t>> \in Ops \X {"loop", "worker"}
      /\ called' = Append(called, <<o, t>>)
      /\ \A q \in Ops : stage'[q] = "done" <=> stage[q] = "done" \/ q = o
  BY DEF Called, TypeOK
<1>2. /\ called' \in Seq(Ops \X {"loop", "worker"}) /\ Len(called) \in Nat
      /\ DOMAIN called = 1..Len(called) /\ DOMAIN called' = 1..(Len(called) + 1)
      /\ \A i \in 1..Len(called) : called'[i] = called[i]
      /\ called'[Len(called) + 1] = <<o, t>>
  BY <1>1, AppendFacts
<1>3. \A i \in 1..(Len(called) + 1) : i \in 1..Len(called) \/ i = Len(called) + 1
  BY <1>2
<1>4. \A i \in DOMAIN called : called[i][1] # o
  BY DEF Calls
<1>5. \A i, j \in DOMAIN called' : called'[i][1] = called'[j][1] => i = j
  BY <1>2, <1>3, <1>4 DEF Calls
<1>6. {called'[i][1] : i \in DOMAIN called'} = {called[i][1] : i \in DOMAIN called} \cup {o}
  <2>1. \A i \in DOMAIN called' : called'[i][1] = o \/ \E j \in DOMAIN called : called'[i][1] = called[j][1]
    BY <1>2, <1>3
  <2>2. \A i \in DOMAIN called : i \in DOMAIN called' /\ called'[i][1] = called[i][1]
    BY <1>2
  <2>3. Len(called) + 1 \in DOMAIN called' /\ called'[Len(called) + 1][1] = o
    BY <1>2
  <2> QED
    BY <2>1, <2>2, <2>3
<1> QED
  BY <1>1, <1>2, <1>5, <1>6 DEF Calls
-----------------------------------------------------------------------------
LEMMA InitShape == Init => Shape
<1> SUFFICES ASSUME Init PROVE Shape
  OBVIOUS
<1> USE OffloadAssumption DEF Init
<1>1. TypeOK
  <2>1. queue \in Seq(Ops) /\ tasks \in Seq(Ops) /\ accepted \in Seq(Ops) /\ called \in Seq(Ops \X {"loop", "worker"})
    OBVIOUS
  <2>2. piece \in [Ops -> [Pieces -> {"none", "live", "freed", "twice"}]]
    OBVIOUS
  <2> QED
    BY <2>1, <2>2 DEF TypeOK, AllKinds, Stages, Contents
<1>2. DOMAIN queue = {} /\ DOMAIN tasks = {} /\ DOMAIN called = {}
  OBVIOUS
<1>3. Places
  BY <1>2 DEF Places, Distinct, Listed
<1>4. PiecesSound /\ Frees
  BY DEF PiecesSound, Sound, Frees
<1>5. Calls
  BY <1>2 DEF Calls
<1> QED
  BY <1>1, <1>3, <1>4, <1>5 DEF Shape

(* A call that is accepted.                                                 *)
LEMMA AcceptShape ==
  ASSUME Shape, NEW o \in Ops, NEW k \in Kinds, Accept(o, k), team' = team
  PROVE  Shape'
<1> USE OffloadAssumption DEF Shape
<1>1. /\ stage[o] = "idle" /\ pool = "open" /\ kind' = [kind EXCEPT ![o] = k]
      /\ piece' = With(o, PiecesOf(k)) /\ stage' = [stage EXCEPT ![o] = "queued"]
      /\ queue' = Append(queue, o) /\ accepted' = Append(accepted, o)
      /\ UNCHANGED <<err, data, working, pool, tasks, loop, file, called, team>>
  BY DEF Accept
<1>2. /\ stage' \in [Ops -> Stages] /\ stage'[o] = "queued" /\ kind' \in [Ops -> AllKinds] /\ kind'[o] = k
      /\ \A q \in Ops \ {o} : stage'[q] = stage[q] /\ kind'[q] = kind[q]
  BY <1>1 DEF TypeOK, Stages
<1>3. /\ queue' \in Seq(Ops) /\ Listed(queue') = Listed(queue) \cup {o}
      /\ Distinct(queue) /\ o \notin Listed(queue) => Distinct(queue')
      /\ accepted' \in Seq(Ops)
  BY <1>1, AppendFacts DEF TypeOK
<1>4. /\ piece' \in [Ops -> [Pieces -> {"none", "live", "freed", "twice"}]]
      /\ \A p \in Pieces : piece'[o][p] = IF p \in PiecesOf(k) THEN "live" ELSE piece[o][p]
      /\ \A q \in Ops \ {o} : piece'[q] = piece[q]
  BY <1>1, WithFacts
<1>5. TypeOK'
  BY <1>1, <1>2, <1>3, <1>4 DEF TypeOK
<1>6. Places'
  <2>1. Listed(queue)' = Listed(queue') /\ Distinct(queue)' /\ Listed(tasks)' = Listed(tasks) /\ Distinct(tasks)'
    BY <1>1, <1>3 DEF Places, Distinct, Listed
  <2>2. \A w \in Workers : working[w] # o
    BY <1>1 DEF Places
  <2>3. \A q \in Ops : stage'[q] \in {"begun", "opened", "worked"} => stage[q] \in {"begun", "opened", "worked"}
    BY <1>1, <1>2
  <2>4. \A w \in Workers : working[w] # None => stage'[working[w]] = stage[working[w]]
    BY <1>2, <2>2 DEF TypeOK
  <2>5. Listed(queue') = {q \in Ops : stage'[q] = "queued"} /\ Listed(tasks) \subseteq {q \in Ops : stage'[q] = "posted"}
    BY <1>1, <1>2, <1>3 DEF Places
  <2> QED
    BY <1>1, <2>1, <2>3, <2>4, <2>5 DEF Places
<1>7. PiecesSound'
  <2>1. \A p \in PiecesOf(k) : p \in Pieces
    BY DEF PiecesOf, Wanted, Pieces
  <2>2. Sound(stage'[o], kind'[o], piece'[o])
    BY <1>1, <1>2, <1>4, <2>1 DEF PiecesSound, Sound
  <2> QED
    BY <1>2, <1>4, <2>2, OneMoves
<1>8. Frees'
  BY <1>1 DEF Frees
<1>9. Calls'
  BY <1>1, <1>2, NoCall
<1> QED
  BY <1>5, <1>6, <1>7, <1>8, <1>9

(* A call that is refused frees what it had allocated.                      *)
LEMMA RefuseShape ==
  ASSUME Shape, NEW o \in Ops, NEW k \in Kinds, NEW n, Refuse(o, k, n), team' = team
  PROVE  Shape'
<1> USE OffloadAssumption DEF Shape
<1> DEFINE ps == {Wanted(k)[i] : i \in 1..n}
<1>1. /\ stage[o] = "idle" /\ kind' = [kind EXCEPT ![o] = k]
      /\ piece' = [piece EXCEPT ![o] = FreeOf(With(o, ps)[o], Pieces)]
      /\ stage' = [stage EXCEPT ![o] = "refused"]
      /\ UNCHANGED <<err, data, queue, working, pool, tasks, loop, file, accepted, called, team>>
  BY DEF Refuse, history
<1> HIDE DEF ps
<1>2. /\ stage' \in [Ops -> Stages] /\ stage'[o] = "refused" /\ kind' \in [Ops -> AllKinds]
      /\ \A q \in Ops \ {o} : stage'[q] = stage[q] /\ kind'[q] = kind[q]
  BY <1>1 DEF TypeOK, Stages
<1>3. /\ piece' \in [Ops -> [Pieces -> {"none", "live", "freed", "twice"}]]
      /\ \A p \in Pieces : piece'[o][p] \in {"none", "freed"}
      /\ \A q \in Ops \ {o} : piece'[q] = piece[q]
  <2> DEFINE f == With(o, ps)[o]
  <2>1. /\ f \in [Pieces -> {"none", "live", "freed", "twice"}]
        /\ \A p \in Pieces : f[p] = IF p \in ps THEN "live" ELSE piece[o][p]
    BY WithFacts
  <2>2. \A p \in Pieces : f[p] \in {"none", "live"}
    BY <1>1, <2>1 DEF PiecesSound, Sound
  <2> HIDE DEF f
  <2>3. /\ FreeOf(f, Pieces) \in [Pieces -> {"none", "live", "freed", "twice"}]
        /\ \A p \in Pieces : FreeOf(f, Pieces)[p] \in {"none", "freed"}
    BY <2>1, <2>2, FreeFacts
  <2> QED
    BY <1>1, <2>3 DEF TypeOK, f
<1>4. TypeOK'
  BY <1>1, <1>2, <1>3 DEF TypeOK
<1>5. Places'
  <2>1. Listed(queue)' = Listed(queue) /\ Distinct(queue)' /\ Listed(tasks)' = Listed(tasks) /\ Distinct(tasks)'
    BY <1>1 DEF Places, Distinct, Listed
  <2>2. \A w \in Workers : working[w] # None => stage'[working[w]] = stage[working[w]]
    <3> SUFFICES ASSUME NEW w \in Workers, working[w] # None PROVE stage'[working[w]] = stage[working[w]]
      OBVIOUS
    <3>1. working[w] \in Ops
      BY DEF TypeOK
    <3>2. working[w] # o
      BY <1>1 DEF Places
    <3> QED
      BY <1>2, <3>1, <3>2
  <2>3. \A q \in Ops : stage'[q] # "refused" => stage[q] = stage'[q]
    BY <1>2
  <2>4. {q \in Ops : stage'[q] = "queued"} = {q \in Ops : stage[q] = "queued"}
        /\ {q \in Ops : stage'[q] = "posted"} = {q \in Ops : stage[q] = "posted"}
    BY <1>1, <1>2
  <2> QED
    BY <1>1, <2>1, <2>2, <2>3, <2>4 DEF Places
<1>6. PiecesSound'
  <2>1. Sound(stage'[o], kind'[o], piece'[o])
    BY <1>2, <1>3 DEF Sound
  <2> QED
    BY <1>2, <1>3, <2>1, OneMoves
<1>7. Frees'
  BY <1>1 DEF Frees
<1>8. Calls'
  BY <1>1, <1>2, NoCall
<1> QED
  BY <1>4, <1>5, <1>6, <1>7, <1>8

(* A worker takes the first job.                                            *)
LEMMA BeginShape ==
  ASSUME Shape, NEW w \in team, Begin(w), team' = team
  PROVE  Shape'
<1> USE OffloadAssumption DEF Shape
<1> DEFINE o == Head(queue)
<1>1. /\ working[w] = None /\ pool # "freed" /\ queue # <<>>
      /\ working' = [working EXCEPT ![w] = o] /\ stage' = [stage EXCEPT ![o] = "begun"]
      /\ queue' = Tail(queue)
      /\ UNCHANGED <<kind, err, data, piece, pool, tasks, loop, file, accepted, called, team>>
  BY DEF Begin, job, history
<1>2. /\ o \in Ops /\ queue' \in Seq(Ops)
      /\ Listed(queue) = {o} \cup Listed(queue') /\ Distinct(queue') /\ o \notin Listed(queue')
  <2>1. queue \in Seq(Ops)
    BY DEF TypeOK
  <2> QED
    BY <1>1, <2>1, HeadAndTail DEF Places
<1> HIDE DEF o
<1>3. stage[o] = "queued" /\ \A v \in Workers : working[v] # o
  BY <1>2 DEF Places
<1>4. /\ stage' \in [Ops -> Stages] /\ stage'[o] = "begun"
      /\ \A q \in Ops \ {o} : stage'[q] = stage[q]
      /\ w \in Workers /\ working' \in [Workers -> Ops \cup {None}] /\ working'[w] = o
      /\ \A v \in Workers \ {w} : working'[v] = working[v]
  BY <1>1, <1>2 DEF TypeOK, Stages
<1>5. TypeOK'
  BY <1>1, <1>2, <1>4 DEF TypeOK
<1>6. Places'
  <2>1. Listed(queue)' = Listed(queue') /\ Distinct(queue)' /\ Listed(tasks)' = Listed(tasks) /\ Distinct(tasks)'
    BY <1>1, <1>2 DEF Places, Distinct, Listed
  <2>2. Listed(queue') = {q \in Ops : stage'[q] = "queued"} /\ Listed(tasks) \subseteq {q \in Ops : stage'[q] = "posted"}
    BY <1>2, <1>3, <1>4 DEF Places
  <2>3. \A v \in Workers : working'[v] # None => stage'[working'[v]] \in {"begun", "opened", "worked", "posted", "done"}
    <3> SUFFICES ASSUME NEW v \in Workers, v # w, working[v] # None
                 PROVE  stage'[working[v]] \in {"begun", "opened", "worked", "posted", "done"}
      BY <1>4
    <3>1. working[v] \in Ops
      BY DEF TypeOK
    <3>2. working[v] # o
      BY <1>3
    <3> QED
      BY <1>4, <3>1, <3>2 DEF Places
  <2>4. \A u, v \in Workers : working'[u] = working'[v] /\ working'[u] # None => u = v
    BY <1>3, <1>4 DEF Places
  <2>5. \A q \in Ops : stage'[q] \in {"begun", "opened", "worked"} => \E v \in team : working'[v] = q
    <3> SUFFICES ASSUME NEW q \in Ops, q # o, stage[q] \in {"begun", "opened", "worked"}
                 PROVE  \E v \in team : working'[v] = q
      BY <1>4
    <3>1. PICK v \in team : working[v] = q
      BY DEF Places
    <3>2. v # w /\ v \in Workers
      BY <1>1, <3>1 DEF TypeOK
    <3> QED
      BY <1>4, <3>1, <3>2
  <2>6. \A v \in Workers \ team : working'[v] = None
    BY <1>4 DEF Places
  <2> QED
    BY <1>1, <2>1, <2>2, <2>3, <2>4, <2>5, <2>6 DEF Places
<1>7. PiecesSound'
  <2>1. Sound(stage'[o], kind'[o], piece'[o])
    BY <1>1, <1>2, <1>3, <1>4 DEF PiecesSound, Sound
  <2> QED
    BY <1>1, <1>2, <1>4, <2>1, OneMoves
<1>8. Frees' /\ Calls'
  BY <1>1, <1>2, <1>3, <1>4, NoCall DEF Frees
<1> QED
  BY <1>5, <1>6, <1>7, <1>8

(* A worker goes on with its operation: what it has allocated it still has, *)
(* and it may have more.                                                    *)
LEMMA WorkShape ==
  ASSUME Shape, NEW w \in team, NEW ps, NEW s \in {"opened", "worked"},
         working[w] # None, stage[working[w]] \in {"begun", "opened"},
         stage' = [stage EXCEPT ![working[w]] = s],
         piece' = piece \/ piece' = With(working[w], ps),
         UNCHANGED <<kind, queue, team, working, pool, tasks, loop, accepted, called>>,
         err' \in [Ops -> BOOLEAN], data' \in [Ops -> Contents \cup {None}], file' \in Contents
  PROVE  Shape'
<1> USE OffloadAssumption DEF Shape
<1> DEFINE o == working[w]
<1>1. o \in Ops /\ w \in Workers
  BY DEF TypeOK
<1>a. stage[o] \in {"begun", "opened"} /\ working[w] = o /\ o # None
      /\ stage' = [stage EXCEPT ![o] = s] /\ (piece' = piece \/ piece' = With(o, ps))
  OBVIOUS
<1> HIDE DEF o
<1>2. /\ stage' \in [Ops -> Stages] /\ stage'[o] = s /\ \A q \in Ops \ {o} : stage'[q] = stage[q]
  BY <1>1, <1>a DEF TypeOK, Stages
<1>3. /\ piece' \in [Ops -> [Pieces -> {"none", "live", "freed", "twice"}]]
      /\ \A p \in Pieces : piece'[o][p] = "live" \/ piece'[o][p] = piece[o][p]
      /\ \A q \in Ops \ {o} : piece'[q] = piece[q]
  <2>1. CASE piece' = piece
    BY <2>1 DEF TypeOK
  <2>2. CASE piece' = With(o, ps)
    <3>1. /\ With(o, ps) \in [Ops -> [Pieces -> {"none", "live", "freed", "twice"}]]
          /\ \A p \in Pieces : With(o, ps)[o][p] = IF p \in ps THEN "live" ELSE piece[o][p]
          /\ \A q \in Ops \ {o} : With(o, ps)[q] = piece[q]
      BY <1>1, WithFacts
    <3> QED
      BY <2>2, <3>1
  <2> QED
    BY <1>a, <2>1, <2>2
<1>4. TypeOK'
  BY <1>2, <1>3 DEF TypeOK
<1>5. Places'
  <2>1. Listed(queue)' = Listed(queue) /\ Distinct(queue)' /\ Listed(tasks)' = Listed(tasks) /\ Distinct(tasks)'
    BY DEF Places, Distinct, Listed
  <2>2. {q \in Ops : stage'[q] = "queued"} = {q \in Ops : stage[q] = "queued"}
        /\ {q \in Ops : stage'[q] = "posted"} = {q \in Ops : stage[q] = "posted"}
    BY <1>1, <1>a, <1>2
  <2>3. \A v \in Workers : working[v] # None => stage'[working[v]] \in {"begun", "opened", "worked", "posted", "done"}
    <3> SUFFICES ASSUME NEW v \in Workers, working[v] # None
                 PROVE  stage'[working[v]] \in {"begun", "opened", "worked", "posted", "done"}
      OBVIOUS
    <3>1. working[v] \in Ops
      BY DEF TypeOK
    <3> QED
      BY <1>2, <3>1 DEF Places
  <2>4. \A q \in Ops : stage'[q] \in {"begun", "opened", "worked"} => stage[q] \in {"begun", "opened", "worked"}
    BY <1>a, <1>2
  <2> QED
    BY <2>1, <2>2, <2>3, <2>4 DEF Places
<1>6. PiecesSound'
  <2>1. \A p \in PiecesOf(kind[o]) : p \in Pieces
    BY DEF PiecesOf, Wanted, Pieces
  <2>2. Sound(stage'[o], kind'[o], piece'[o])
    BY <1>1, <1>a, <1>2, <1>3, <2>1 DEF PiecesSound, Sound
  <2> QED
    BY <1>1, <1>2, <1>3, <2>2, OneMoves
<1>7. Frees'
  BY DEF Frees
<1>8. Calls'
  BY <1>a, <1>2, NoCall
<1> QED
  BY <1>4, <1>5, <1>6, <1>7, <1>8

(* The operations of the workers are operations.                            *)
LEMMA WorkingOps ==
  ASSUME TypeOK, NEW w \in Workers, working[w] # None
  PROVE  working[w] \in Ops
BY DEF TypeOK

(* A worker posts its task to the loop.                                     *)
LEMMA PostShape ==
  ASSUME Shape, NEW w \in team, PostDone(w), team' = team
  PROVE  Shape'
<1> USE OffloadAssumption DEF Shape
<1> DEFINE o == working[w]
<1>1. /\ o # None /\ stage[o] = "worked" /\ tasks' = Append(tasks, o) /\ stage' = [stage EXCEPT ![o] = "posted"]
      /\ UNCHANGED <<kind, err, data, piece, queue, team, working, pool, loop, file, accepted, called>>
  BY DEF PostDone, At, job, history
<1>2. o \in Ops
  BY <1>1 DEF TypeOK
<1> HIDE DEF o
<1>3. stage' \in [Ops -> Stages] /\ stage'[o] = "posted" /\ \A q \in Ops \ {o} : stage'[q] = stage[q]
  BY <1>1, <1>2 DEF TypeOK, Stages
<1>4. /\ tasks' \in Seq(Ops) /\ Listed(tasks') = Listed(tasks) \cup {o}
      /\ Distinct(tasks) /\ o \notin Listed(tasks) => Distinct(tasks')
  BY <1>1, <1>2, AppendFacts DEF TypeOK
<1>5. TypeOK'
  BY <1>1, <1>3, <1>4 DEF TypeOK
<1>6. Places'
  <2>1. Listed(queue)' = Listed(queue) /\ Distinct(queue)' /\ Listed(tasks)' = Listed(tasks')
    BY <1>1 DEF Places, Distinct, Listed
  <2>2. o \notin Listed(tasks)
    BY <1>1 DEF Places
  <2>3. Distinct(tasks)'
    <3>1. Distinct(tasks')
      BY <1>4, <2>2 DEF Places
    <3> QED
      BY <3>1 DEF Distinct
  <2>4. Listed(queue) = {q \in Ops : stage'[q] = "queued"} /\ Listed(tasks') \subseteq {q \in Ops : stage'[q] = "posted"}
    BY <1>1, <1>2, <1>3, <1>4 DEF Places
  <2>5. \A v \in Workers : working[v] # None => stage'[working[v]] \in {"begun", "opened", "worked", "posted", "done"}
    <3> SUFFICES ASSUME NEW v \in Workers, working[v] # None
                 PROVE  stage'[working[v]] \in {"begun", "opened", "worked", "posted", "done"}
      OBVIOUS
    <3> QED
      BY <1>3, WorkingOps DEF Places
  <2>6. \A q \in Ops : stage'[q] \in {"begun", "opened", "worked"} => stage[q] \in {"begun", "opened", "worked"}
    BY <1>3
  <2> QED
    BY <1>1, <2>1, <2>3, <2>4, <2>5, <2>6 DEF Places
<1>7. PiecesSound'
  <2>1. Sound(stage'[o], kind'[o], piece'[o])
    BY <1>1, <1>2, <1>3 DEF PiecesSound, Sound
  <2> QED
    BY <1>1, <1>2, <1>3, <2>1, OneMoves
<1>8. Frees' /\ Calls'
  BY <1>1, <1>3, NoCall DEF Frees
<1> QED
  BY <1>5, <1>6, <1>7, <1>8

(* A worker is back in its loop.                                            *)
LEMMA ReturnShape ==
  ASSUME Shape, NEW w \in team, ReturnFromPost(w), team' = team
  PROVE  Shape'
<1> USE OffloadAssumption DEF Shape
<1>1. /\ working[w] # None /\ stage[working[w]] \in {"posted", "done"} /\ working' = [working EXCEPT ![w] = None]
      /\ UNCHANGED <<kind, err, data, stage, piece, queue, team, pool, tasks, loop, file, accepted, called>>
  BY DEF ReturnFromPost, At, job, history
<1>2. w \in Workers /\ working' \in [Workers -> Ops \cup {None}] /\ working'[w] = None
      /\ \A v \in Workers \ {w} : working'[v] = working[v]
  BY <1>1 DEF TypeOK
<1>3. TypeOK'
  BY <1>1, <1>2 DEF TypeOK
<1>4. Places'
  <2>1. Listed(queue)' = Listed(queue) /\ Distinct(queue)' /\ Listed(tasks)' = Listed(tasks) /\ Distinct(tasks)'
    BY <1>1 DEF Places, Distinct, Listed
  <2>2. \A v \in Workers : working'[v] # None => working'[v] = working[v]
    BY <1>2
  <2>3. \A q \in Ops : stage[q] \in {"begun", "opened", "worked"} => \E v \in team : working'[v] = q
    <3> SUFFICES ASSUME NEW q \in Ops, stage[q] \in {"begun", "opened", "worked"}
                 PROVE  \E v \in team : working'[v] = q
      OBVIOUS
    <3>1. PICK v \in team : working[v] = q
      BY DEF Places
    <3>2. v # w /\ v \in Workers
      BY <1>1, <3>1 DEF TypeOK
    <3> QED
      BY <1>2, <3>1, <3>2
  <2>4. \A v \in Workers \ team : working'[v] = None
    BY <1>2 DEF Places
  <2>5. \A v \in Workers : working'[v] # None => stage[working'[v]] \in {"begun", "opened", "worked", "posted", "done"}
    BY <2>2 DEF Places
  <2>6. \A u, v \in Workers : working'[u] = working'[v] /\ working'[u] # None => u = v
    BY <2>2 DEF Places
  <2> QED
    BY <1>1, <2>1, <2>3, <2>4, <2>5, <2>6 DEF Places
<1>5. PiecesSound'
  BY <1>1 DEF PiecesSound, Sound
<1>6. Frees'
  BY <1>1, <1>2 DEF Frees
<1>7. Calls'
  BY <1>1, NoCall
<1> QED
  BY <1>3, <1>4, <1>5, <1>6, <1>7

(* A worker calls the callback itself.                                      *)
LEMMA CallShape ==
  ASSUME Shape, NEW w \in team, CallFromWorker(w), team' = team
  PROVE  Shape'
<1> USE OffloadAssumption DEF Shape
<1> DEFINE o == working[w]
           left == Completed(o)[o]
           f == IF kind[o] = "dir" THEN FreeOf(left, {"names"}) ELSE left
<1>1. /\ o # None /\ stage[o] = "worked" /\ Called(o, "worker") /\ stage' = [stage EXCEPT ![o] = "done"]
      /\ working' = [working EXCEPT ![w] = None] /\ piece' = [piece EXCEPT ![o] = f]
      /\ UNCHANGED <<kind, err, data, queue, team, pool, tasks, loop, file, accepted>>
  BY DEF CallFromWorker, Called, At, job
<1>2. o \in Ops /\ w \in Workers /\ working[w] = o
  BY <1>1 DEF TypeOK
<1>3. /\ left \in [Pieces -> {"none", "live", "freed", "twice"}]
      /\ \A p \in Pieces : left[p] \in {"none", "freed"}
  BY <1>1, <1>2, CompletedFacts
<1> HIDE DEF o, left
<1>4. /\ f \in [Pieces -> {"none", "live", "freed", "twice"}]
      /\ \A p \in Pieces : f[p] \in {"none", "freed"} \/ (p = "names" /\ f[p] = "twice")
  <2>1. /\ FreeOf(left, {"names"}) \in [Pieces -> {"none", "live", "freed", "twice"}]
        /\ \A p \in Pieces : FreeOf(left, {"names"})[p] =
             IF p \notin {"names"} \/ left[p] = "none" THEN left[p] ELSE IF left[p] = "live" THEN "freed" ELSE "twice"
    BY <1>3, FreeFacts
  <2> QED
    BY <1>3, <2>1
<1> HIDE DEF f
<1>5. stage' \in [Ops -> Stages] /\ stage'[o] = "done" /\ \A q \in Ops \ {o} : stage'[q] = stage[q]
  BY <1>1, <1>2 DEF TypeOK, Stages
<1>6. piece' \in [Ops -> [Pieces -> {"none", "live", "freed", "twice"}]] /\ piece'[o] = f
      /\ \A q \in Ops \ {o} : piece'[q] = piece[q]
  BY <1>1, <1>2, <1>4 DEF TypeOK
<1>7. working' \in [Workers -> Ops \cup {None}] /\ working'[w] = None
      /\ \A v \in Workers \ {w} : working'[v] = working[v]
  BY <1>1, <1>2 DEF TypeOK
<1>8. Calls' /\ called' \in Seq(Ops \X {"loop", "worker"})
  BY <1>1, <1>2, OneCall
<1>9. TypeOK'
  BY <1>1, <1>5, <1>6, <1>7, <1>8 DEF TypeOK
<1>10. Places'
  <2>1. Listed(queue)' = Listed(queue) /\ Distinct(queue)' /\ Listed(tasks)' = Listed(tasks) /\ Distinct(tasks)'
    BY <1>1 DEF Places, Distinct, Listed
  <2>2. {q \in Ops : stage'[q] = "queued"} = {q \in Ops : stage[q] = "queued"}
        /\ {q \in Ops : stage'[q] = "posted"} = {q \in Ops : stage[q] = "posted"}
    BY <1>1, <1>2, <1>5
  <2>3. \A v \in Workers : working'[v] # None => v # w /\ working'[v] = working[v]
    BY <1>7
  <2>4. \A v \in Workers : working'[v] # None =>
           stage'[working'[v]] \in {"begun", "opened", "worked", "posted", "done"}
    <3> SUFFICES ASSUME NEW v \in Workers, working[v] # None
                 PROVE  stage'[working[v]] \in {"begun", "opened", "worked", "posted", "done"}
      BY <2>3
    <3> QED
      BY <1>5, WorkingOps DEF Places
  <2>5. \A u, v \in Workers : working'[u] = working'[v] /\ working'[u] # None => u = v
    BY <2>3 DEF Places
  <2>6. \A q \in Ops : stage'[q] \in {"begun", "opened", "worked"} => \E v \in team : working'[v] = q
    <3> SUFFICES ASSUME NEW q \in Ops, q # o, stage[q] \in {"begun", "opened", "worked"}
                 PROVE  \E v \in team : working'[v] = q
      BY <1>5
    <3>1. PICK v \in team : working[v] = q
      BY DEF Places
    <3>2. v # w /\ v \in Workers
      BY <1>2, <3>1 DEF TypeOK
    <3> QED
      BY <1>7, <3>1, <3>2
  <2>7. \A v \in Workers \ team : working'[v] = None
    BY <1>7 DEF Places
  <2> QED
    BY <1>1, <2>1, <2>2, <2>4, <2>5, <2>6, <2>7 DEF Places
<1>11. PiecesSound'
  <2>1. Sound(stage'[o], kind'[o], piece'[o])
    BY <1>4, <1>5, <1>6 DEF Sound
  <2> QED
    BY <1>1, <1>2, <1>5, <1>6, <2>1, OneMoves
<1>12. Frees'
  BY <1>1, <1>7 DEF Frees
<1> QED
  BY <1>8, <1>9, <1>10, <1>11, <1>12

(* The loop runs a task: the callback comes, once.                          *)
LEMMA DoneShape ==
  ASSUME Shape, DoneTask, team' = team
  PROVE  Shape'
<1> USE OffloadAssumption DEF Shape
<1> DEFINE o == Head(tasks)
<1>1. /\ tasks # <<>> /\ Called(o, "loop") /\ stage' = [stage EXCEPT ![o] = "done"]
      /\ piece' = Completed(o) /\ tasks' = Tail(tasks)
      /\ UNCHANGED <<kind, err, data, queue, team, working, pool, loop, file, accepted>>
  BY DEF DoneTask, Called, job
<1>2. /\ o \in Ops /\ tasks' \in Seq(Ops) /\ Listed(tasks) = {o} \cup Listed(tasks')
      /\ Distinct(tasks') /\ o \notin Listed(tasks')
  <2>1. tasks \in Seq(Ops)
    BY DEF TypeOK
  <2> QED
    BY <1>1, <2>1, HeadAndTail DEF Places
<1> HIDE DEF o
<1>3. stage[o] = "posted"
  BY <1>2 DEF Places
<1>4. stage' \in [Ops -> Stages] /\ stage'[o] = "done" /\ \A q \in Ops \ {o} : stage'[q] = stage[q]
  BY <1>1, <1>2 DEF TypeOK, Stages
<1>5. /\ Completed(o)[o] \in [Pieces -> {"none", "live", "freed", "twice"}]
      /\ Completed(o) = [piece EXCEPT ![o] = Completed(o)[o]]
      /\ \A p \in Pieces : Completed(o)[o][p] \in {"none", "freed"}
  BY <1>2, <1>3, CompletedFacts
<1>6. piece' \in [Ops -> [Pieces -> {"none", "live", "freed", "twice"}]]
      /\ (\A p \in Pieces : piece'[o][p] \in {"none", "freed"})
      /\ \A q \in Ops \ {o} : piece'[q] = piece[q]
  BY <1>1, <1>2, <1>5 DEF TypeOK
<1>7. Calls' /\ called' \in Seq(Ops \X {"loop", "worker"})
  BY <1>1, <1>2, <1>3, OneCall
<1>8. TypeOK'
  BY <1>1, <1>2, <1>4, <1>6, <1>7 DEF TypeOK
<1>9. Places'
  <2>1. Listed(queue)' = Listed(queue) /\ Distinct(queue)' /\ Listed(tasks)' = Listed(tasks') /\ Distinct(tasks)'
    BY <1>1, <1>2 DEF Places, Distinct, Listed
  <2>2. Listed(queue) = {q \in Ops : stage'[q] = "queued"} /\ Listed(tasks') \subseteq {q \in Ops : stage'[q] = "posted"}
    BY <1>2, <1>3, <1>4 DEF Places
  <2>3. \A v \in Workers : working[v] # None => stage'[working[v]] \in {"begun", "opened", "worked", "posted", "done"}
    <3> SUFFICES ASSUME NEW v \in Workers, working[v] # None
                 PROVE  stage'[working[v]] \in {"begun", "opened", "worked", "posted", "done"}
      OBVIOUS
    <3> QED
      BY <1>4, WorkingOps DEF Places
  <2>4. \A q \in Ops : stage'[q] \in {"begun", "opened", "worked"} => stage[q] \in {"begun", "opened", "worked"}
    BY <1>4
  <2> QED
    BY <1>1, <2>1, <2>2, <2>3, <2>4 DEF Places
<1>10. PiecesSound'
  <2>1. Sound(stage'[o], kind'[o], piece'[o])
    BY <1>4, <1>6 DEF Sound
  <2> QED
    BY <1>1, <1>2, <1>4, <1>6, <2>1, OneMoves
<1>11. Frees'
  BY <1>1 DEF Frees
<1> QED
  BY <1>7, <1>8, <1>9, <1>10, <1>11

(* The loop is left, and the pool and the loop are freed.                   *)
LEMMA FreeShape ==
  ASSUME Shape, LeaveLoop \/ PoolStop \/ PoolFree \/ LoopFree, team' = team
  PROVE  Shape'
<1> USE OffloadAssumption DEF Shape
<1>1. UNCHANGED <<kind, err, data, stage, piece, queue, team, working, file, accepted, called>>
  BY DEF LeaveLoop, PoolStop, PoolFree, LoopFree, job, history
<1>2. tasks' \in {tasks, <<>>} /\ pool' \in {"open", "stopping", "freed"} /\ loop' \in {"running", "stopped", "freed"}
  BY DEF LeaveLoop, PoolStop, PoolFree, LoopFree, TypeOK
<1>3. TypeOK'
  <2>1. tasks \in Seq(Ops) /\ <<>> \in Seq(Ops)
    BY DEF TypeOK
  <2> QED
    BY <1>1, <1>2, <2>1 DEF TypeOK
<1>4. Places'
  <2>1. Listed(queue)' = Listed(queue) /\ Distinct(queue)' /\ Listed(tasks)' \subseteq Listed(tasks) /\ Distinct(tasks)'
    BY <1>1, <1>2 DEF Places, Distinct, Listed
  <2> QED
    BY <1>1, <2>1 DEF Places
<1>5. PiecesSound' /\ Calls'
  BY <1>1, NoCall DEF PiecesSound, Sound
<1>6. Frees'
  BY <1>1 DEF Frees, LeaveLoop, PoolStop, PoolFree, LoopFree
<1> QED
  BY <1>3, <1>4, <1>5, <1>6
-----------------------------------------------------------------------------
(* Nothing before the i-th call has changed.                                *)
LEMMA SameBefore ==
  ASSUME NEW i \in Nat,
         \A j \in 1..(i - 1) : accepted'[j] = accepted[j],
         \A j \in 1..(i - 1) : kind'[accepted[j]] = kind[accepted[j]],
         \A j \in 1..(i - 1) : err'[accepted[j]] = err[accepted[j]]
  PROVE  WritesBefore(i)' = WritesBefore(i) /\ FailedBefore(i)' = FailedBefore(i)
BY DEF WritesBefore, FailedBefore

(* None of the first n calls is begun, opened, or finished by this step.    *)
LEMMA SameFollows ==
  ASSUME NEW n \in Nat, Follows(n), file' = file,
         \A i \in 1..n : accepted'[i] = accepted[i],
         \A i \in 1..n : kind'[accepted[i]] = kind[accepted[i]],
         \A i \in 1..n : err'[accepted[i]] = err[accepted[i]],
         \A i \in 1..n : data'[accepted[i]] = data[accepted[i]],
         \A i \in 1..n : stage'[accepted[i]] = stage[accepted[i]]
                         \/ {stage'[accepted[i]], stage[accepted[i]]} \cap {"begun", "opened"} = {}
  PROVE  Follows(n)'
<1>1. \A i \in 1..(n + 1) : WritesBefore(i)' = WritesBefore(i) /\ FailedBefore(i)' = FailedBefore(i)
  <2> SUFFICES ASSUME NEW i \in 1..(n + 1)
               PROVE  WritesBefore(i)' = WritesBefore(i) /\ FailedBefore(i)' = FailedBefore(i)
    OBVIOUS
  <2>1. i \in Nat /\ \A j \in 1..(i - 1) : j \in 1..n
    OBVIOUS
  <2> QED
    BY <2>1, SameBefore
<1>2. \A i \in 1..n : Unfinished(i)' <=> Unfinished(i)
  BY DEF Unfinished
<1>3. \A i \in 1..n : stage'[accepted'[i]] = "begun" <=> stage[accepted[i]] = "begun"
  OBVIOUS
<1>4. \A i \in 1..(n + 1) : WritesBefore(i) \subseteq 1..n
  BY DEF WritesBefore
<1>5. \A i \in 1..(n + 1) : \A j \in WritesBefore(i) : accepted'[j] = accepted[j]
  BY <1>4
<1>6. \A i \in 1..n : Unfinished(i)' => i = n
  BY <1>2 DEF Follows
<1>7. n > 0 /\ (stage[accepted[n]] = "begun")' /\ FailedBefore(n)' = {} => Holds(file, WritesBefore(n))'
  <2> SUFFICES ASSUME n > 0, stage[accepted[n]] = "begun", FailedBefore(n) = {}
               PROVE  Holds(file, WritesBefore(n))'
    BY <1>1, <1>3
  <2>1. Holds(file, WritesBefore(n))
    BY DEF Follows
  <2> QED
    BY <1>1, <1>5, <2>1 DEF Holds
<1>8. ~(n > 0 /\ Unfinished(n)') /\ FailedBefore(n + 1)' = {} => Holds(file, WritesBefore(n + 1))'
  <2> SUFFICES ASSUME ~(n > 0 /\ Unfinished(n)), FailedBefore(n + 1) = {}
               PROVE  Holds(file, WritesBefore(n + 1))'
    BY <1>1, <1>2
  <2>1. Holds(file, WritesBefore(n + 1))
    BY DEF Follows
  <2> QED
    BY <1>1, <1>5, <2>1 DEF Holds
<1>9. \A i \in 1..n : data'[accepted'[i]] # None /\ FailedBefore(i)' = {} =>
        Holds(data[accepted[i]], WritesBefore(i))'
  <2> SUFFICES ASSUME NEW i \in 1..n, data[accepted[i]] # None, FailedBefore(i) = {}
               PROVE  Holds(data[accepted[i]], WritesBefore(i))'
    BY <1>1
  <2>1. Holds(data[accepted[i]], WritesBefore(i))
    BY DEF Follows
  <2> QED
    BY <1>1, <1>5, <2>1 DEF Holds
<1> QED
  BY <1>6, <1>7, <1>8, <1>9 DEF Follows

(* The latest call begins.                                                  *)
LEMMA BeginFollows ==
  ASSUME NEW n \in Nat, Follows(n), \A i \in 1..n : ~Unfinished(i),
         stage'[accepted[n + 1]] = "begun", data[accepted[n + 1]] = None,
         \A i \in 1..n : stage'[accepted[i]] = stage[accepted[i]],
         UNCHANGED <<accepted, kind, err, data, file>>
  PROVE  Follows(n + 1)'
<1>1. \A i \in 1..(n + 2) : WritesBefore(i)' = WritesBefore(i) /\ FailedBefore(i)' = FailedBefore(i)
  <2> SUFFICES ASSUME NEW i \in 1..(n + 2)
               PROVE  WritesBefore(i)' = WritesBefore(i) /\ FailedBefore(i)' = FailedBefore(i)
    OBVIOUS
  <2> QED
    BY SameBefore
<1>2. \A i \in 1..(n + 1) : i \in 1..n \/ i = n + 1
  OBVIOUS
<1>3. \A i \in 1..(n + 1) : Unfinished(i)' => i = n + 1
  BY <1>2 DEF Unfinished
<1>4. Unfinished(n + 1)'
  BY DEF Unfinished
<1>5. FailedBefore(n + 1)' = {} => Holds(file, WritesBefore(n + 1))'
  <2> SUFFICES ASSUME FailedBefore(n + 1) = {}
               PROVE  Holds(file, WritesBefore(n + 1))'
    BY <1>1
  <2>1. Holds(file, WritesBefore(n + 1))
    BY DEF Follows
  <2>2. WritesBefore(n + 1)' = WritesBefore(n + 1)
    BY <1>1
  <2> QED
    BY <2>1, <2>2 DEF Holds
<1>6. \A i \in 1..(n + 1) : data'[accepted'[i]] # None /\ FailedBefore(i)' = {} =>
        Holds(data[accepted[i]], WritesBefore(i))'
  <2> SUFFICES ASSUME NEW i \in 1..n, data[accepted[i]] # None, FailedBefore(i) = {}
               PROVE  Holds(data[accepted[i]], WritesBefore(i))'
    BY <1>1, <1>2
  <2>1. Holds(data[accepted[i]], WritesBefore(i))
    BY DEF Follows
  <2> QED
    BY <1>1, <2>1 DEF Holds
<1> QED
  BY <1>3, <1>4, <1>5, <1>6 DEF Follows

(* The latest call has been opened: the file is nobody's.                   *)
LEMMA OpenFollows ==
  ASSUME NEW n \in Nat, n > 0, Follows(n), data[accepted[n]] = None,
         stage'[accepted[n]] = "opened",
         \A i \in 1..(n - 1) : stage'[accepted[i]] = stage[accepted[i]],
         UNCHANGED <<accepted, kind, err, data>>
  PROVE  Follows(n)'
<1>1. \A i \in 1..n : WritesBefore(i)' = WritesBefore(i) /\ FailedBefore(i)' = FailedBefore(i)
  <2> SUFFICES ASSUME NEW i \in 1..n
               PROVE  WritesBefore(i)' = WritesBefore(i) /\ FailedBefore(i)' = FailedBefore(i)
    OBVIOUS
  <2> QED
    BY SameBefore
<1>2. \A i \in 1..n : i \in 1..(n - 1) \/ i = n
  OBVIOUS
<1>3. \A i \in 1..n : Unfinished(i)' => i = n
  BY <1>2 DEF Follows, Unfinished
<1>4. Unfinished(n)'
  BY DEF Unfinished
<1>5. \A i \in 1..n : data'[accepted'[i]] # None /\ FailedBefore(i)' = {} =>
        Holds(data[accepted[i]], WritesBefore(i))'
  <2> SUFFICES ASSUME NEW i \in 1..n, data[accepted[i]] # None, FailedBefore(i) = {}
               PROVE  Holds(data[accepted[i]], WritesBefore(i))'
    BY <1>1
  <2>1. Holds(data[accepted[i]], WritesBefore(i))
    BY DEF Follows
  <2> QED
    BY <1>1, <2>1 DEF Holds
<1> QED
  BY <1>3, <1>4, <1>5 DEF Follows

(* The latest call is finished: a write that did not fail has put its own   *)
(* contents in the file, what is no write has left the file alone, and a    *)
(* read may have seen what was there.                                       *)
LEMMA EndFollows ==
  ASSUME NEW n \in Nat, n > 0, Follows(n), stage'[accepted[n]] = "worked",
         \A i \in 1..(n - 1) : stage'[accepted[i]] = stage[accepted[i]],
         \A i \in 1..(n - 1) : err'[accepted[i]] = err[accepted[i]],
         \A i \in 1..(n - 1) : data'[accepted[i]] = data[accepted[i]],
         data'[accepted[n]] # None => stage[accepted[n]] = "begun" /\ data'[accepted[n]] = file,
         kind[accepted[n]] = "write" /\ ~err'[accepted[n]] => file' = accepted[n],
         kind[accepted[n]] # "write" => stage[accepted[n]] = "begun" /\ file' = file,
         UNCHANGED <<accepted, kind>>
  PROVE  Follows(n)'
<1>1. \A i \in 1..n : WritesBefore(i)' = WritesBefore(i) /\ FailedBefore(i)' = FailedBefore(i)
  <2> SUFFICES ASSUME NEW i \in 1..n
               PROVE  WritesBefore(i)' = WritesBefore(i) /\ FailedBefore(i)' = FailedBefore(i)
    OBVIOUS
  <2>1. i \in Nat /\ \A j \in 1..(i - 1) : j \in 1..(n - 1)
    OBVIOUS
  <2> QED
    BY <2>1, SameBefore
<1>2. \A i \in 1..n : i \in 1..(n - 1) \/ i = n
  OBVIOUS
<1>3. (n + 1) - 1 = n /\ n \in 1..n /\ \A i \in 1..(n - 1) : i \in 1..n
  OBVIOUS
<1>4. \A i \in 1..n : ~Unfinished(i)'
  <2> SUFFICES ASSUME NEW i \in 1..(n - 1) PROVE ~Unfinished(i)'
    BY <1>2 DEF Unfinished
  <2>1. ~Unfinished(i)
    BY DEF Follows
  <2> QED
    BY <2>1 DEF Unfinished
<1>5. /\ WritesBefore(n + 1)' = {j \in 1..n : kind[accepted[j]] = "write" /\ ~err'[accepted[j]]}
      /\ FailedBefore(n + 1)' = {j \in 1..n : kind[accepted[j]] = "write" /\ err'[accepted[j]]}
      /\ WritesBefore(n) = {j \in 1..(n - 1) : kind[accepted[j]] = "write" /\ ~err[accepted[j]]}
      /\ FailedBefore(n) = {j \in 1..(n - 1) : kind[accepted[j]] = "write" /\ err[accepted[j]]}
  BY <1>3 DEF WritesBefore, FailedBefore
<1>6. FailedBefore(n + 1)' = {} => Holds(file, WritesBefore(n + 1))'
  <2> SUFFICES ASSUME FailedBefore(n + 1)' = {}
               PROVE  Holds(file, WritesBefore(n + 1))'
    OBVIOUS
  <2>1. CASE kind[accepted[n]] = "write"
    <3>1. n \in WritesBefore(n + 1)' /\ file' = accepted'[n]
      BY <1>3, <1>5, <2>1
    <3>2. \A m \in WritesBefore(n + 1)' : m <= n
      BY <1>5
    <3> QED
      BY <3>1, <3>2 DEF Holds
  <2>2. CASE kind[accepted[n]] # "write"
    <3>1. WritesBefore(n + 1)' = WritesBefore(n)
      BY <1>2, <1>3, <1>5, <2>2
    <3>2. FailedBefore(n) = {}
      BY <1>3, <1>5
    <3>3. Holds(file, WritesBefore(n)) /\ file' = file
      BY <2>2, <3>2 DEF Follows
    <3> QED
      BY <3>1, <3>3 DEF Holds
  <2> QED
    BY <2>1, <2>2
<1>7. \A i \in 1..n : data'[accepted'[i]] # None /\ FailedBefore(i)' = {} =>
        Holds(data[accepted[i]], WritesBefore(i))'
  <2> SUFFICES ASSUME NEW i \in 1..n, data'[accepted[i]] # None, FailedBefore(i) = {}
               PROVE  Holds(data[accepted[i]], WritesBefore(i))'
    BY <1>1
  <2>1. CASE i = n
    <3>1. Holds(file, WritesBefore(n)) /\ data'[accepted[n]] = file
      BY <2>1 DEF Follows
    <3> QED
      BY <1>1, <2>1, <3>1 DEF Holds
  <2>2. CASE i \in 1..(n - 1)
    <3>1. Holds(data[accepted[i]], WritesBefore(i)) /\ data'[accepted[i]] = data[accepted[i]]
      BY <2>2 DEF Follows
    <3> QED
      BY <1>1, <3>1 DEF Holds
  <2> QED
    BY <1>2, <2>1, <2>2
<1> QED
  BY <1>4, <1>6, <1>7 DEF Follows
-----------------------------------------------------------------------------
(* The calls that have left the queue, and the end of the list it still is. *)
LEMMA BegunFacts ==
  ASSUME Shape, InOrder
  PROVE  /\ Len(accepted) \in Nat /\ DOMAIN accepted = 1..Len(accepted)
         /\ Len(queue) \in Nat /\ DOMAIN queue = 1..Len(queue)
         /\ Begun \in Nat /\ Begun + Len(queue) = Len(accepted)
         /\ \A i \in 1..Begun : i \in DOMAIN accepted /\ accepted[i] \in Ops /\ accepted[i] \in Listed(accepted)
         /\ \A i \in DOMAIN accepted : stage[accepted[i]] # "queued" => i \in 1..Begun
<1>1. accepted \in Seq(Ops) /\ queue \in Seq(Ops) /\ Begun \in Nat
  BY DEF Shape, TypeOK, InOrder
<1>2. /\ Len(accepted) \in Nat /\ DOMAIN accepted = 1..Len(accepted)
      /\ Len(queue) \in Nat /\ DOMAIN queue = 1..Len(queue)
      /\ \A i \in 1..Len(accepted) : accepted[i] \in Ops
  BY <1>1
<1>3. Begun + Len(queue) = Len(accepted)
  BY <1>2 DEF Begun
<1>4. \A i \in 1..Begun : i \in 1..Len(accepted)
  BY <1>1, <1>2, <1>3
<1>5. ASSUME NEW i \in 1..Len(accepted), stage[accepted[i]] # "queued", ~(i \in 1..Begun)
      PROVE  FALSE
  <2>1. i - Begun \in 1..Len(queue) /\ Begun + (i - Begun) = i
    BY <1>1, <1>2, <1>3, <1>5
  <2>2. queue[i - Begun] = accepted[i] /\ queue[i - Begun] \in Listed(queue)
    BY <1>2, <2>1 DEF InOrder, Listed
  <2> QED
    BY <1>5, <2>2 DEF Shape, Places
<1> QED
  BY <1>1, <1>2, <1>3, <1>4, <1>5 DEF Listed

(* What keeps the lists and calls nothing back keeps the order.             *)
LEMMA OrderKept ==
  ASSUME InOrder, UNCHANGED <<accepted, queue>>,
         \A o \in Ops : stage'[o] \in {"idle", "refused"} <=> stage[o] \in {"idle", "refused"},
         \A o \in Ops : data'[o] # None => stage'[o] \in {"worked", "posted", "done"},
         \A o \in Ops : stage'[o] = "opened" => kind'[o] = "write"
  PROVE  InOrder' /\ Begun' = Begun
<1>1. Begun' = Begun
  BY DEF Begun
<1>2. Listed(accepted)' = Listed(accepted) /\ Distinct(accepted)'
  BY DEF InOrder, Listed, Distinct
<1>3. {o \in Ops : stage'[o] \notin {"idle", "refused"}} = {o \in Ops : stage[o] \notin {"idle", "refused"}}
  OBVIOUS
<1> QED
  BY <1>1, <1>2, <1>3 DEF InOrder

(* The one worker's operation is the latest that was begun.                 *)
LEMMA Latest ==
  ASSUME Shape, InOrder, Follows(Begun), NEW o \in Ops, stage[o] \in {"begun", "opened"}
  PROVE  /\ Begun \in Nat /\ Begun > 0 /\ o = accepted[Begun]
         /\ \A i \in 1..(Begun - 1) : accepted[i] \in Ops \ {o}
         /\ \A i \in 1..Begun : accepted[i] \in Ops
<1>1. /\ Begun \in Nat /\ \A i \in 1..Begun : i \in DOMAIN accepted /\ accepted[i] \in Ops
      /\ \A i \in DOMAIN accepted : stage[accepted[i]] # "queued" => i \in 1..Begun
  BY BegunFacts
<1>2. PICK i \in DOMAIN accepted : accepted[i] = o
  BY DEF InOrder, Listed
<1>3. i \in 1..Begun /\ Unfinished(i)
  BY <1>1, <1>2 DEF Unfinished
<1>4. i = Begun
  BY <1>3 DEF Follows
<1>5. Begun > 0 /\ \A j \in 1..(Begun - 1) : j \in 1..Begun /\ j # Begun
  BY <1>1, <1>3
<1>6. \A j \in 1..(Begun - 1) : accepted[j] # o
  BY <1>1, <1>2, <1>4, <1>5 DEF InOrder, Distinct
<1> QED
  BY <1>1, <1>2, <1>4, <1>5, <1>6

(* A team of one that waits has nothing under way.                          *)
LEMMA NoneAtWork ==
  ASSUME Shape, Cardinality(team) = 1, NEW w \in team, working[w] = None
  PROVE  \A o \in Ops : stage[o] \notin {"begun", "opened"}
<1>1. IsFiniteSet(team)
  BY OffloadAssumption, FS_Subset DEF Shape, TypeOK
<1>2. team = {w}
  <2>1. PICK x : team = {x}
    BY <1>1, FS_Singleton
  <2> QED
    BY <2>1
<1>3. None \notin Ops
  BY OffloadAssumption
<1> QED
  BY <1>2, <1>3 DEF Shape, Places
-----------------------------------------------------------------------------
(* Each step keeps the order, and what the file and the reads have of it.   *)
Ordered == InOrder /\ FileFollows

LEMMA AcceptOrder ==
  ASSUME Shape, Ordered, NEW o \in Ops, NEW k \in Kinds, Accept(o, k), team' = team
  PROVE  Ordered'
<1>1. /\ stage[o] = "idle" /\ kind' = [kind EXCEPT ![o] = k] /\ stage' = [stage EXCEPT ![o] = "queued"]
      /\ queue' = Append(queue, o) /\ accepted' = Append(accepted, o)
      /\ UNCHANGED <<err, data, file, team>>
  BY DEF Accept
<1>2. /\ \A q \in Ops \ {o} : stage'[q] = stage[q] /\ kind'[q] = kind[q]
      /\ stage'[o] = "queued"
  BY <1>1 DEF Shape, TypeOK
<1>3. queue \in Seq(Ops) /\ accepted \in Seq(Ops)
  BY DEF Shape, TypeOK
<1>4. o \notin Listed(accepted) /\ data[o] = None /\ Distinct(accepted)
  BY <1>1 DEF Ordered, InOrder
<1>5. /\ Len(accepted') = Len(accepted) + 1 /\ Len(accepted) \in Nat
      /\ \A i \in 1..Len(accepted) : accepted'[i] = accepted[i]
      /\ accepted'[Len(accepted) + 1] = o
      /\ Listed(accepted') = Listed(accepted) \cup {o} /\ Distinct(accepted')
  BY <1>1, <1>3, <1>4, AppendFacts
<1>6. /\ Len(queue') = Len(queue) + 1 /\ Len(queue) \in Nat /\ DOMAIN queue' = 1..(Len(queue) + 1)
      /\ \A i \in 1..Len(queue) : queue'[i] = queue[i]
      /\ queue'[Len(queue) + 1] = o
  BY <1>1, <1>3, AppendFacts
<1>7. /\ Begun' = Begun /\ Begun \in Nat /\ Begun + Len(queue) = Len(accepted)
      /\ \A i \in 1..Begun : i \in DOMAIN accepted /\ i \in 1..Len(accepted)
      /\ \A i \in 1..Begun : accepted[i] \in Ops /\ accepted[i] \in Listed(accepted)
  <2>1. /\ Begun \in Nat /\ Begun + Len(queue) = Len(accepted) /\ DOMAIN accepted = 1..Len(accepted)
        /\ \A i \in 1..Begun : i \in DOMAIN accepted /\ accepted[i] \in Ops /\ accepted[i] \in Listed(accepted)
    BY BegunFacts DEF Ordered
  <2> QED
    BY <1>5, <1>6, <2>1 DEF Begun
<1>8. InOrder'
  <2>1. Listed(accepted)' = Listed(accepted') /\ Distinct(accepted)'
    BY <1>5 DEF Distinct, Listed
  <2>2. \A j \in DOMAIN queue' : queue'[j] = accepted'[Begun + j]
    <3> SUFFICES ASSUME NEW j \in 1..(Len(queue) + 1) PROVE queue'[j] = accepted'[Begun + j]
      BY <1>6
    <3>1. CASE j = Len(queue) + 1
      <4>1. Begun + j = Len(accepted) + 1
        BY <1>6, <1>7, <3>1
      <4> QED
        BY <1>5, <1>6, <3>1, <4>1
    <3>2. CASE j # Len(queue) + 1
      <4>1. j \in 1..Len(queue) /\ Begun + j \in 1..Len(accepted)
        BY <1>6, <1>7, <3>2
      <4>2. queue[j] = accepted[Begun + j]
        BY <1>3, <4>1 DEF Ordered, InOrder
      <4> QED
        BY <1>5, <1>6, <4>1, <4>2
    <3> QED
      BY <3>1, <3>2
  <2>3. Listed(accepted') = {q \in Ops : stage'[q] \notin {"idle", "refused"}}
    BY <1>2, <1>5 DEF Ordered, InOrder
  <2>4. \A q \in Ops : data[q] # None => stage'[q] \in {"worked", "posted", "done"}
    BY <1>2, <1>4 DEF Ordered, InOrder
  <2>5. \A q \in Ops : stage'[q] = "opened" => kind'[q] = "write"
    BY <1>2 DEF Ordered, InOrder
  <2> QED
    BY <1>1, <1>7, <2>1, <2>2, <2>3, <2>4, <2>5 DEF InOrder
<1>9. ASSUME Cardinality(team) = 1 PROVE Follows(Begun)'
  <2>1. PICK n \in Nat : n = Begun
    BY <1>7
  <2>2. Follows(n)
    BY <1>9, <2>1 DEF Ordered, FileFollows
  <2>3. \A i \in 1..n : accepted[i] \in Ops \ {o} /\ accepted'[i] = accepted[i]
    BY <1>4, <1>5, <1>7, <2>1
  <2>4. Follows(n)'
    BY <1>1, <1>2, <2>2, <2>3, SameFollows
  <2>5. Begun' = n
    BY <1>7, <2>1
  <2> QED
    BY <2>4, <2>5 DEF Follows
<1> QED
  BY <1>1, <1>8, <1>9 DEF Ordered, FileFollows

(* A step that begins and ends nothing.                                     *)
LEMMA QuietOrder ==
  ASSUME Shape, Ordered, team' = team, UNCHANGED <<accepted, queue, err, data, file>>,
         \A o \in Ops : kind'[o] = kind[o] \/ stage[o] = "idle",
         \A o \in Ops : stage'[o] = stage[o]
                        \/ (stage[o] = "idle" /\ stage'[o] = "refused")
                        \/ (stage[o] \in {"worked", "posted"} /\ stage'[o] \in {"posted", "done"})
  PROVE  Ordered'
<1>1. InOrder' /\ Begun' = Begun
  <2>1. \A o \in Ops : stage'[o] \in {"idle", "refused"} <=> stage[o] \in {"idle", "refused"}
    OBVIOUS
  <2>2. \A o \in Ops : data'[o] # None => stage'[o] \in {"worked", "posted", "done"}
    BY DEF Ordered, InOrder
  <2>3. \A o \in Ops : stage'[o] = "opened" => kind'[o] = "write"
    BY DEF Ordered, InOrder
  <2> QED
    BY <2>1, <2>2, <2>3, OrderKept DEF Ordered
<1>2. ASSUME Cardinality(team) = 1 PROVE Follows(Begun)'
  <2>1. Begun \in Nat /\ \A i \in 1..Begun : accepted[i] \in Ops /\ accepted[i] \in Listed(accepted)
    BY BegunFacts DEF Ordered
  <2>2. PICK n \in Nat : n = Begun
    BY <2>1
  <2>3. Follows(n)
    BY <1>2, <2>2 DEF Ordered, FileFollows
  <2>4. \A i \in 1..n : accepted[i] \in Ops /\ stage[accepted[i]] # "idle"
    BY <2>1, <2>2 DEF Ordered, InOrder
  <2>5. \A i \in 1..n : stage'[accepted[i]] = stage[accepted[i]]
                        \/ {stage'[accepted[i]], stage[accepted[i]]} \cap {"begun", "opened"} = {}
    BY <2>4
  <2>6. Follows(n)'
    BY <2>3, <2>4, <2>5, SameFollows
  <2>7. Begun' = n
    BY <1>1, <2>2
  <2> QED
    BY <2>6, <2>7 DEF Follows
<1> QED
  BY <1>1, <1>2 DEF Ordered, FileFollows

LEMMA BeginOrder ==
  ASSUME Shape, Ordered, NEW w \in team, Begin(w), team' = team
  PROVE  Ordered'
<1> DEFINE o == Head(queue)
<1>1. /\ working[w] = None /\ queue # <<>> /\ stage' = [stage EXCEPT ![o] = "begun"] /\ queue' = Tail(queue)
      /\ UNCHANGED <<kind, err, data, file, accepted, team>>
  BY DEF Begin, job, history
<1>2. /\ o \in Ops /\ o = queue[1] /\ queue' \in Seq(Ops) /\ Listed(queue) = {o} \cup Listed(queue')
      /\ Len(queue') = Len(queue) - 1 /\ Len(queue) \in Nat /\ Len(queue) >= 1
      /\ \A k \in 1..(Len(queue) - 1) : queue'[k] = queue[k + 1]
  <2>1. queue \in Seq(Ops)
    BY DEF Shape, TypeOK
  <2> QED
    BY <1>1, <2>1, HeadAndTail
<1> HIDE DEF o
<1>3. stage[o] = "queued"
  BY <1>2 DEF Shape, Places
<1>4. stage'[o] = "begun" /\ \A q \in Ops \ {o} : stage'[q] = stage[q]
  BY <1>1, <1>2 DEF Shape, TypeOK
<1>5. /\ Begun \in Nat /\ Begun + Len(queue) = Len(accepted) /\ DOMAIN accepted = 1..Len(accepted)
      /\ Len(accepted) \in Nat /\ DOMAIN queue = 1..Len(queue)
      /\ \A i \in 1..Begun : i \in DOMAIN accepted /\ accepted[i] \in Ops
  BY BegunFacts DEF Ordered
<1>6. Begun' = Begun + 1
  BY <1>1, <1>2, <1>5 DEF Begun
<1>7. o = accepted[Begun + 1] /\ Begun + 1 \in DOMAIN accepted
  <2>1. 1 \in DOMAIN queue /\ Begun + 1 \in 1..Len(accepted)
    BY <1>2, <1>5
  <2> QED
    BY <1>2, <1>5, <2>1 DEF Ordered, InOrder
<1>8. InOrder'
  <2>1. Listed(accepted)' = Listed(accepted) /\ Distinct(accepted)'
    BY <1>1 DEF Ordered, InOrder, Distinct, Listed
  <2>2. \A k \in DOMAIN queue' : queue'[k] = accepted[(Begun + 1) + k]
    <3>1. DOMAIN queue' = 1..(Len(queue) - 1)
      BY <1>2
    <3> SUFFICES ASSUME NEW k \in 1..(Len(queue) - 1) PROVE queue'[k] = accepted[(Begun + 1) + k]
      BY <3>1
    <3>2. k + 1 \in DOMAIN queue /\ Begun + (k + 1) = (Begun + 1) + k
      BY <1>2, <1>5
    <3> QED
      BY <1>2, <3>2 DEF Ordered, InOrder
  <2>3. Listed(accepted) = {q \in Ops : stage'[q] \notin {"idle", "refused"}}
    BY <1>2, <1>3, <1>4 DEF Ordered, InOrder
  <2>4. \A q \in Ops : data[q] # None => stage'[q] \in {"worked", "posted", "done"}
    BY <1>3, <1>4 DEF Ordered, InOrder
  <2>5. \A q \in Ops : stage'[q] = "opened" => kind[q] = "write"
    BY <1>4 DEF Ordered, InOrder
  <2> QED
    BY <1>1, <1>5, <1>6, <2>1, <2>2, <2>3, <2>4, <2>5 DEF InOrder
<1>9. ASSUME Cardinality(team) = 1 PROVE Follows(Begun)'
  <2>1. PICK n \in Nat : n = Begun
    BY <1>5
  <2>2. Follows(n)
    BY <1>9, <2>1 DEF Ordered, FileFollows
  <2>3. \A i \in 1..n : accepted[i] \in Ops \ {o}
    <3> SUFFICES ASSUME NEW i \in 1..n PROVE accepted[i] # o
      BY <1>5, <2>1
    <3>1. i \in DOMAIN accepted /\ i # n + 1
      BY <1>5, <2>1
    <3> QED
      BY <1>7, <2>1, <3>1 DEF Ordered, InOrder, Distinct
  <2>4. \A i \in 1..n : ~Unfinished(i)
    BY <1>1, <1>9, <2>3, NoneAtWork DEF Unfinished
  <2>5. data[accepted[n + 1]] = None
    BY <1>2, <1>3, <1>7, <2>1 DEF Ordered, InOrder
  <2>6. \A i \in 1..n : stage'[accepted[i]] = stage[accepted[i]]
    BY <1>4, <2>3
  <2>7. stage'[accepted[n + 1]] = "begun"
    BY <1>4, <1>7, <2>1
  <2>8. Follows(n + 1)'
    BY <1>1, <2>2, <2>4, <2>5, <2>6, <2>7, BeginFollows
  <2>9. Begun' = n + 1
    BY <1>6, <2>1
  <2> QED
    BY <2>8, <2>9 DEF Follows
<1> QED
  BY <1>1, <1>8, <1>9 DEF Ordered, FileFollows

LEMMA OpenOrder ==
  ASSUME Shape, Ordered, NEW w \in team, OpenFile(w), team' = team
  PROVE  Ordered'
<1> DEFINE o == working[w]
<1>1. /\ o # None /\ stage[o] = "begun" /\ kind[o] = "write" /\ stage' = [stage EXCEPT ![o] = "opened"]
      /\ UNCHANGED <<kind, err, data, queue, accepted, team>>
  BY DEF OpenFile, At, job, history
<1>2. o \in Ops
  BY <1>1 DEF Shape, TypeOK
<1> HIDE DEF o
<1>3. stage'[o] = "opened" /\ \A q \in Ops \ {o} : stage'[q] = stage[q]
  BY <1>1, <1>2 DEF Shape, TypeOK
<1>4. InOrder' /\ Begun' = Begun
  <2>1. \A q \in Ops : data'[q] # None => stage'[q] \in {"worked", "posted", "done"}
    BY <1>1, <1>3 DEF Ordered, InOrder
  <2>2. \A q \in Ops : stage'[q] = "opened" => kind'[q] = "write"
    BY <1>1, <1>3 DEF Ordered, InOrder
  <2>3. \A q \in Ops : stage'[q] \in {"idle", "refused"} <=> stage[q] \in {"idle", "refused"}
    BY <1>1, <1>3
  <2> QED
    BY <1>1, <2>1, <2>2, <2>3, OrderKept DEF Ordered
<1>5. ASSUME Cardinality(team) = 1 PROVE Follows(Begun)'
  <2>1. Follows(Begun)
    BY <1>5 DEF Ordered, FileFollows
  <2>2. /\ Begun \in Nat /\ Begun > 0 /\ o = accepted[Begun]
        /\ \A i \in 1..(Begun - 1) : accepted[i] \in Ops \ {o}
    BY <1>1, <1>2, <2>1, Latest DEF Ordered
  <2>3. PICK n \in Nat : n = Begun
    BY <2>2
  <2>4. data[accepted[n]] = None
    BY <1>1, <1>2, <2>2, <2>3 DEF Ordered, InOrder
  <2>5. \A i \in 1..(n - 1) : stage'[accepted[i]] = stage[accepted[i]]
    BY <1>3, <2>2, <2>3
  <2>6. Follows(n)'
    BY <1>1, <1>3, <2>1, <2>2, <2>3, <2>4, <2>5, OpenFollows
  <2>7. Begun' = n
    BY <1>4, <2>3
  <2> QED
    BY <2>6, <2>7 DEF Follows
<1> QED
  BY <1>1, <1>4, <1>5 DEF Ordered, FileFollows

(* A worker is done with its operation, in one of the ways there are.       *)
LEMMA EndOrder ==
  ASSUME Shape, Ordered, NEW w \in team, NEW failed \in BOOLEAN, team' = team,
         working[w] # None, stage[working[w]] \in {"begun", "opened"}, Finish(working[w], failed),
         UNCHANGED <<kind, queue, accepted>>,
         data' = data
           \/ (stage[working[w]] = "begun" /\ data' = [data EXCEPT ![working[w]] = file]),
         kind[working[w]] = "write" /\ ~failed => file' = working[w],
         kind[working[w]] # "write" => file' = file
  PROVE  Ordered'
<1> DEFINE o == working[w]
<1>1. /\ o # None /\ stage[o] \in {"begun", "opened"}
      /\ stage' = [stage EXCEPT ![o] = "worked"] /\ err' = [err EXCEPT ![o] = failed]
      /\ data' = data \/ (stage[o] = "begun" /\ data' = [data EXCEPT ![o] = file])
      /\ kind[o] = "write" /\ ~failed => file' = o
      /\ kind[o] # "write" => file' = file
  BY DEF Finish
<1>2. o \in Ops
  BY <1>1 DEF Shape, TypeOK
<1> HIDE DEF o
<1>3. /\ stage'[o] = "worked" /\ err'[o] = failed
      /\ \A q \in Ops \ {o} : stage'[q] = stage[q]
      /\ \A q \in Ops \ {o} : err'[q] = err[q]
      /\ \A q \in Ops \ {o} : data'[q] = data[q]
  BY <1>1, <1>2 DEF Shape, TypeOK
<1>4. data[o] = None /\ (data'[o] # None => stage[o] = "begun" /\ data'[o] = file)
  <2>1. data[o] = None
    BY <1>1, <1>2 DEF Ordered, InOrder
  <2> QED
    BY <1>1, <1>2, <2>1 DEF Shape, TypeOK
<1>5. InOrder' /\ Begun' = Begun
  <2>1. \A q \in Ops : data'[q] # None => stage'[q] \in {"worked", "posted", "done"}
    BY <1>2, <1>3 DEF Ordered, InOrder
  <2>2. \A q \in Ops : stage'[q] = "opened" => kind'[q] = "write"
    BY <1>3 DEF Ordered, InOrder
  <2>3. \A q \in Ops : stage'[q] \in {"idle", "refused"} <=> stage[q] \in {"idle", "refused"}
    BY <1>1, <1>3
  <2> QED
    BY <2>1, <2>2, <2>3, OrderKept DEF Ordered
<1>6. ASSUME Cardinality(team) = 1 PROVE Follows(Begun)'
  <2>1. Follows(Begun)
    BY <1>6 DEF Ordered, FileFollows
  <2>2. /\ Begun \in Nat /\ Begun > 0 /\ o = accepted[Begun]
        /\ \A i \in 1..(Begun - 1) : accepted[i] \in Ops \ {o}
    BY <1>1, <1>2, <2>1, Latest DEF Ordered
  <2>3. PICK n \in Nat : n = Begun
    BY <2>2
  <2>4. kind[o] # "write" => stage[o] = "begun" /\ file' = file
    BY <1>1, <1>2 DEF Ordered, InOrder
  <2>5. n > 0 /\ o = accepted[n] /\ Follows(n)
    BY <2>1, <2>2, <2>3
  <2>6. /\ \A i \in 1..(n - 1) : stage'[accepted[i]] = stage[accepted[i]]
        /\ \A i \in 1..(n - 1) : err'[accepted[i]] = err[accepted[i]]
        /\ \A i \in 1..(n - 1) : data'[accepted[i]] = data[accepted[i]]
    BY <1>3, <2>2, <2>3
  <2>7. Follows(n)'
    BY <1>1, <1>3, <1>4, <2>4, <2>5, <2>6, EndFollows
  <2>8. Begun' = n
    BY <1>5, <2>3
  <2> QED
    BY <2>7, <2>8 DEF Follows
<1> QED
  BY <1>5, <1>6 DEF Ordered, FileFollows
-----------------------------------------------------------------------------
LEMMA InitInv == Init => IInv
<1> SUFFICES ASSUME Init PROVE IInv
  OBVIOUS
<1>1. Shape
  BY InitShape
<1>2. /\ queue = <<>> /\ accepted = <<>> /\ (\A o \in Ops : stage[o] = "idle" /\ data[o] = None) /\ file = "first"
  BY DEF Init
<1>3. Len(queue) = 0 /\ Len(accepted) = 0 /\ DOMAIN queue = {} /\ DOMAIN accepted = {}
  BY <1>2
<1>4. Begun = 0
  BY <1>3 DEF Begun
<1>5. InOrder
  BY <1>2, <1>3, <1>4 DEF InOrder, Distinct, Listed
<1>6. Follows(0)
  <2>1. WritesBefore(0 + 1) = {} /\ 1..0 = {}
    BY DEF WritesBefore
  <2> QED
    BY <1>2, <2>1 DEF Follows, Holds
<1> QED
  BY <1>1, <1>4, <1>5, <1>6 DEF IInv, FileFollows

(* One lemma per group of actions, then all of them.                        *)
LEMMA CallInv ==
  ASSUME IInv, team' = team, NEW o \in Ops, Call(o)
  PROVE  IInv'
<1> USE DEF IInv, Ordered
<1>1. ASSUME NEW k \in Kinds, Accept(o, k) PROVE IInv'
  BY <1>1, AcceptShape, AcceptOrder
<1>2. ASSUME NEW k \in Kinds, NEW n \in 0..Len(Wanted(k)), Refuse(o, k, n) PROVE IInv'
  <2>1. /\ stage[o] = "idle" /\ kind' = [kind EXCEPT ![o] = k] /\ stage' = [stage EXCEPT ![o] = "refused"]
        /\ UNCHANGED <<err, data, queue, file, accepted>>
    BY <1>2 DEF Refuse, history
  <2>2. /\ \A q \in Ops : kind'[q] = kind[q] \/ stage[q] = "idle"
        /\ \A q \in Ops : stage'[q] = stage[q] \/ (stage[q] = "idle" /\ stage'[q] = "refused")
    BY <2>1 DEF Shape, TypeOK
  <2>3. Shape'
    BY <1>2, RefuseShape
  <2>4. Ordered'
    BY <2>1, <2>2, QuietOrder
  <2> QED
    BY <2>3, <2>4
<1> QED
  BY <1>1, <1>2 DEF Call

LEMMA WorkerInv ==
  ASSUME IInv, team' = team, NEW w \in team, WorkerStep(w)
  PROVE  IInv'
<1> DEFINE o == working[w]
<1> USE DEF IInv
<1>0. Shape /\ Ordered /\ err \in [Ops -> BOOLEAN] /\ data \in [Ops -> Contents \cup {None}] /\ file \in Contents
      /\ (o # None => o \in Ops /\ o \in Contents) /\ stage \in [Ops -> Stages]
  BY DEF Ordered, Shape, TypeOK, Contents
<1>a. Shape' /\ Ordered' => IInv'
  BY DEF Ordered
<1>1. CASE Begin(w)
  BY <1>0, <1>1, <1>a, BeginShape, BeginOrder
<1>2. CASE WorkFails(w)
  <2>1. /\ o # None /\ stage[o] = "begun" /\ Finish(o, TRUE)
        /\ UNCHANGED <<kind, data, piece, queue, team, working, pool, tasks, loop, file, accepted, called>>
    BY <1>2 DEF WorkFails, At, history
  <2>2. Shape'
    <3>1. stage' = [stage EXCEPT ![o] = "worked"] /\ err' \in [Ops -> BOOLEAN]
      BY <1>0, <2>1 DEF Finish
    <3> QED
      BY <1>0, <2>1, <3>1, WorkShape
  <2> QED
    BY <1>0, <1>a, <2>1, <2>2, EndOrder
<1>3. CASE ReadFile(w)
  <2>1. /\ o # None /\ stage[o] = "begun" /\ kind[o] = "read" /\ Finish(o, FALSE)
        /\ piece' = With(o, {"data"}) /\ data' = [data EXCEPT ![o] = file]
        /\ UNCHANGED <<kind, queue, team, working, pool, tasks, loop, file, accepted, called>>
    BY <1>3 DEF ReadFile, At, history
  <2>2. Shape'
    <3>1. stage' = [stage EXCEPT ![o] = "worked"] /\ err' \in [Ops -> BOOLEAN] /\ data' \in [Ops -> Contents \cup {None}]
      BY <1>0, <2>1 DEF Finish
    <3> QED
      BY <1>0, <2>1, <3>1, WorkShape
  <2>3. Ordered'
    BY <1>0, <2>1, EndOrder
  <2> QED
    BY <1>a, <2>2, <2>3
<1>4. CASE OpenFile(w)
  <2>1. /\ o # None /\ stage[o] = "begun" /\ stage' = [stage EXCEPT ![o] = "opened"] /\ file' = "empty"
        /\ UNCHANGED <<kind, err, data, piece, queue, team, working, pool, tasks, loop, accepted, called>>
    BY <1>4 DEF OpenFile, At, job, history
  <2>2. Shape'
    <3>1. file' \in Contents
      BY <2>1 DEF Contents
    <3> QED
      BY <1>0, <2>1, <3>1, WorkShape
  <2> QED
    BY <1>0, <1>4, <1>a, <2>2, OpenOrder
<1>5. CASE WriteFile(w)
  <2>1. PICK failed \in BOOLEAN : Finish(o, failed) /\ file' = IF failed THEN "part" ELSE o
    BY <1>5 DEF WriteFile
  <2>2. /\ o # None /\ stage[o] = "opened"
        /\ UNCHANGED <<kind, data, piece, queue, team, working, pool, tasks, loop, accepted, called>>
    BY <1>5 DEF WriteFile, At, history
  <2>3. Shape'
    <3>1. stage' = [stage EXCEPT ![o] = "worked"] /\ err' \in [Ops -> BOOLEAN]
      BY <1>0, <2>1 DEF Finish
    <3>2. file' \in Contents
      BY <1>0, <2>1, <2>2 DEF Contents
    <3> QED
      BY <1>0, <2>2, <3>1, <3>2, WorkShape
  <2>4. kind[o] = "write"
    BY <1>0, <2>2 DEF Ordered, InOrder
  <2>5. Ordered'
    BY <1>0, <2>1, <2>2, <2>4, EndOrder
  <2> QED
    BY <1>a, <2>3, <2>5
<1>6. CASE Stat(w)
  <2>1. /\ o # None /\ stage[o] = "begun" /\ kind[o] = "stat" /\ Finish(o, FALSE)
        /\ UNCHANGED <<kind, data, piece, queue, team, working, pool, tasks, loop, file, accepted, called>>
    BY <1>6 DEF Stat, At, history
  <2>2. Shape'
    <3>1. stage' = [stage EXCEPT ![o] = "worked"] /\ err' \in [Ops -> BOOLEAN]
      BY <1>0, <2>1 DEF Finish
    <3> QED
      BY <1>0, <2>1, <3>1, WorkShape
  <2> QED
    BY <1>0, <1>a, <2>1, <2>2, EndOrder
<1>7. CASE ReadDir(w)
  <2>1. /\ o # None /\ stage[o] = "begun" /\ kind[o] = "dir" /\ Finish(o, FALSE)
        /\ UNCHANGED <<kind, data, queue, team, working, pool, tasks, loop, file, accepted, called>>
    BY <1>7 DEF ReadDir, At, history
  <2>2. PICK ps \in {{}, {"names"}} : piece' = With(o, ps)
    BY <1>7 DEF ReadDir
  <2>3. Shape'
    <3>1. stage' = [stage EXCEPT ![o] = "worked"] /\ err' \in [Ops -> BOOLEAN]
      BY <1>0, <2>1 DEF Finish
    <3> QED
      BY <1>0, <2>1, <2>2, <3>1, WorkShape
  <2> QED
    BY <1>0, <1>a, <2>1, <2>3, EndOrder
<1>8. CASE PostDone(w)
  <2>1. /\ o # None /\ stage[o] = "worked" /\ stage' = [stage EXCEPT ![o] = "posted"]
        /\ UNCHANGED <<kind, err, data, queue, file, accepted>>
    BY <1>8 DEF PostDone, At, job, history
  <2>2. \A q \in Ops : stage'[q] = stage[q] \/ (stage[q] \in {"worked", "posted"} /\ stage'[q] \in {"posted", "done"})
    BY <1>0, <2>1
  <2> QED
    BY <1>0, <1>8, <1>a, <2>1, <2>2, PostShape, QuietOrder
<1>9. CASE ReturnFromPost(w)
  <2>1. UNCHANGED <<kind, err, data, stage, queue, file, accepted>>
    BY <1>9 DEF ReturnFromPost, job, history
  <2> QED
    BY <1>0, <1>9, <1>a, <2>1, ReturnShape, QuietOrder
<1>10. CASE CallFromWorker(w)
  <2>1. /\ o # None /\ stage[o] = "worked" /\ stage' = [stage EXCEPT ![o] = "done"]
        /\ UNCHANGED <<kind, err, data, queue, file, accepted>>
    BY <1>10 DEF CallFromWorker, Called, At, job
  <2>2. \A q \in Ops : stage'[q] = stage[q] \/ (stage[q] \in {"worked", "posted"} /\ stage'[q] \in {"posted", "done"})
    BY <1>0, <2>1
  <2> QED
    BY <1>0, <1>10, <1>a, <2>1, <2>2, CallShape, QuietOrder
<1> QED
  BY <1>1, <1>2, <1>3, <1>4, <1>5, <1>6, <1>7, <1>8, <1>9, <1>10 DEF WorkerStep

LEMMA LoopInv ==
  ASSUME IInv, team' = team, DoneTask \/ LeaveLoop \/ PoolStop \/ PoolFree \/ LoopFree
  PROVE  IInv'
<1> USE DEF IInv
<1>0. Shape /\ Ordered /\ (Shape' /\ Ordered' => IInv')
  BY DEF Ordered
<1>1. CASE DoneTask
  <2>1. /\ tasks # <<>> /\ stage' = [stage EXCEPT ![Head(tasks)] = "done"]
        /\ UNCHANGED <<kind, err, data, queue, file, accepted>>
    BY <1>1 DEF DoneTask, Called, job
  <2>2. Head(tasks) \in Listed(tasks) /\ stage \in [Ops -> Stages]
    <3>1. tasks \in Seq(Ops) /\ stage \in [Ops -> Stages]
      BY <1>0 DEF Shape, TypeOK
    <3> QED
      BY <2>1, <3>1, HeadAndTail
  <2>3. stage[Head(tasks)] = "posted"
    BY <1>0, <2>2 DEF Shape, Places
  <2>4. \A q \in Ops : stage'[q] = stage[q] \/ (stage[q] \in {"worked", "posted"} /\ stage'[q] \in {"posted", "done"})
    BY <2>1, <2>2, <2>3
  <2> QED
    BY <1>0, <1>1, <2>1, <2>4, DoneShape, QuietOrder
<1>2. CASE LeaveLoop \/ PoolStop \/ PoolFree \/ LoopFree
  <2>1. UNCHANGED <<kind, err, data, stage, queue, file, accepted>>
    BY <1>2 DEF LeaveLoop, PoolStop, PoolFree, LoopFree, job, history
  <2> QED
    BY <1>0, <1>2, <2>1, FreeShape, QuietOrder
<1> QED
  BY <1>1, <1>2

LEMMA NextInv == IInv /\ [Next]_vars => IInv'
<1> SUFFICES ASSUME IInv, [Next]_vars PROVE IInv'
  OBVIOUS
<1>1. CASE Next
  BY <1>1, CallInv, WorkerInv, LoopInv DEF Next
<1>2. CASE UNCHANGED vars
  <2>1. Shape'
    <3>1. TypeOK' /\ Places' /\ Frees' /\ Calls'
      BY <1>2 DEF vars, IInv, Shape, TypeOK, Places, Frees, Calls, Listed, Distinct
    <3>2. PiecesSound'
      BY <1>2 DEF vars, IInv, Shape, PiecesSound, Sound
    <3> QED
      BY <3>1, <3>2 DEF Shape
  <2>2. Ordered'
    BY <1>2, QuietOrder DEF vars, IInv, Ordered
  <2> QED
    BY <2>1, <2>2 DEF IInv, Ordered
<1> QED
  BY <1>1, <1>2
-----------------------------------------------------------------------------
LEMMA Inductive == Spec => []IInv
<1>1. Init => IInv
  BY InitInv
<1>2. IInv /\ [Next]_vars => IInv'
  BY NextInv
<1> QED
  BY <1>1, <1>2, PTL DEF Spec

(* Each variable keeps its type: of any operations, workers and functions.  *)
THEOREM TypeCorrect == Spec => []TypeOK
<1>1. IInv => TypeOK
  BY DEF IInv, Shape
<1> QED
  BY <1>1, Inductive, PTL

(* Two lists with nothing in common, one after the other.                   *)
LEMMA DistinctBoth ==
  ASSUME NEW T, NEW s \in Seq(T), NEW t \in Seq(T), Distinct(s), Distinct(t), Listed(s) \cap Listed(t) = {}
  PROVE  Distinct(s \o t)
<1>1. /\ Len(s) \in Nat /\ Len(t) \in Nat /\ DOMAIN s = 1..Len(s) /\ DOMAIN t = 1..Len(t)
      /\ DOMAIN (s \o t) = 1..(Len(s) + Len(t))
      /\ \A i \in 1..(Len(s) + Len(t)) : (s \o t)[i] = IF i <= Len(s) THEN s[i] ELSE t[i - Len(s)]
  OBVIOUS
<1>2. \A i \in 1..(Len(s) + Len(t)) : i \in 1..Len(s) \/ (i > Len(s) /\ i - Len(s) \in 1..Len(t))
  BY <1>1
<1> SUFFICES ASSUME NEW i \in 1..(Len(s) + Len(t)), NEW j \in 1..(Len(s) + Len(t)), (s \o t)[i] = (s \o t)[j]
             PROVE  i = j
  BY <1>1 DEF Distinct
<1>3. CASE i \in 1..Len(s) /\ j \in 1..Len(s)
  <2>1. (s \o t)[i] = s[i] /\ (s \o t)[j] = s[j]
    BY <1>1, <1>3
  <2> QED
    BY <1>1, <1>3, <2>1 DEF Distinct
<1>4. CASE ~(i \in 1..Len(s)) /\ ~(j \in 1..Len(s))
  <2>1. /\ i - Len(s) \in 1..Len(t) /\ j - Len(s) \in 1..Len(t)
        /\ (s \o t)[i] = t[i - Len(s)] /\ (s \o t)[j] = t[j - Len(s)]
    BY <1>1, <1>2, <1>4
  <2>2. i - Len(s) = j - Len(s)
    BY <1>1, <2>1 DEF Distinct
  <2> QED
    BY <1>1, <2>2
<1>5. CASE i \in 1..Len(s) /\ ~(j \in 1..Len(s))
  <2>1. j - Len(s) \in 1..Len(t) /\ (s \o t)[i] = s[i] /\ (s \o t)[j] = t[j - Len(s)]
    BY <1>1, <1>2, <1>5
  <2> QED
    BY <1>1, <1>5, <2>1 DEF Listed
<1>6. CASE ~(i \in 1..Len(s)) /\ j \in 1..Len(s)
  <2>1. i - Len(s) \in 1..Len(t) /\ (s \o t)[j] = s[j] /\ (s \o t)[i] = t[i - Len(s)]
    BY <1>1, <1>2, <1>6
  <2> QED
    BY <1>1, <1>6, <2>1 DEF Listed
<1> QED
  BY <1>3, <1>4, <1>5, <1>6

(* However calls, refusals, failures of workers and posts, and the frees    *)
(* interleave: one callback for each operation whose call was accepted,     *)
(* none for one that was refused, each allocation freed once and none       *)
(* before its last use.                                                     *)
THEOREM EachEndsOnce == Spec => []EndsOnce
<1>1. IInv => EndsOnce
  <2> SUFFICES ASSUME IInv PROVE EndsOnce
    OBVIOUS
  <2> USE DEF IInv, Shape
  <2>1. Distinct(queue \o tasks)
    <3>1. queue \in Seq(Ops) /\ tasks \in Seq(Ops)
      BY DEF TypeOK
    <3>2. Distinct(queue) /\ Distinct(tasks) /\ Listed(queue) \cap Listed(tasks) = {}
      BY DEF Places
    <3> QED
      BY <3>1, <3>2, DistinctBoth
  <2>2. CalledOnce
    BY <2>1 DEF CalledOnce, Calls
  <2>3. Balanced
    <3> SUFFICES ASSUME NEW o \in Ops
                 PROVE  /\ \A p \in Pieces \ {"names"} : piece[o][p] # "twice"
                        /\ stage[o] \in {"queued", "begun", "opened", "worked", "posted"} =>
                             \A p \in PiecesOf(kind[o]) : piece[o][p] = "live"
                        /\ stage[o] \in {"refused", "done"} => \A p \in Pieces : piece[o][p] # "live"
      BY DEF Balanced
    <3>1. Sound(stage[o], kind[o], piece[o]) /\ stage[o] \in Stages
      BY DEF PiecesSound, TypeOK
    <3> QED
      BY <3>1 DEF Sound, Stages
  <2> QED
    BY <2>2, <2>3 DEF EndsOnce
<1> QED
  BY <1>1, Inductive, PTL

(* When the loop is freed no worker is inside tua_loop_post, or will be.    *)
THEOREM LoopIsLast == Spec => []LoopOutlivesWorkers
<1>1. IInv => LoopOutlivesWorkers
  BY DEF IInv, Shape, Frees, LoopOutlivesWorkers
<1> QED
  BY <1>1, Inductive, PTL

(* With one worker a read sees what the latest of the writes called before  *)
(* it left, as long as none of them failed.                                 *)
THEOREM ReadsFollowWrites == Spec => []ReadsLatestWrite
<1>1. IInv => ReadsLatestWrite
  <2> SUFFICES ASSUME IInv, Cardinality(team) = 1, NEW i \in DOMAIN accepted,
                      data[accepted[i]] # None, FailedBefore(i) = {}
               PROVE  IF WritesBefore(i) = {} THEN data[accepted[i]] = "first"
                      ELSE \E j \in WritesBefore(i) : data[accepted[i]] = accepted[j] /\ \A m \in WritesBefore(i) : m <= j
    BY DEF ReadsLatestWrite
  <2>1. Follows(Begun)
    BY DEF IInv, FileFollows
  <2>2. i \in 1..Begun
    <3>1. accepted[i] \in Ops
      BY DEF IInv, Shape, TypeOK
    <3>2. stage[accepted[i]] # "queued"
      BY <3>1 DEF IInv, InOrder
    <3>3. \A k \in DOMAIN accepted : stage[accepted[k]] # "queued" => k \in 1..Begun
      BY BegunFacts DEF IInv
    <3> QED
      BY <3>2, <3>3
  <2>3. Holds(data[accepted[i]], WritesBefore(i))
    BY <2>1, <2>2 DEF Follows
  <2> QED
    BY <2>3 DEF Holds
<1> QED
  BY <1>1, Inductive, PTL
=============================================================================
