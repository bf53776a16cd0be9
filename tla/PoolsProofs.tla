---------------------------- MODULE PoolsProofs ----------------------------
(***************************************************************************)
(* Proofs about the pools of threads: Workqueue for every number of workers *)
(* and jobs, GemvPool for every number of threads, rows and calls, and both *)
(* side by side as the run explores them.                                   *)
(***************************************************************************)
EXTENDS MCPools, Integers, SequenceTheorems, FiniteSetTheorems, NaturalsInduction,
        WellFoundedInduction, TLAPS

(* tua_workqueue_create hands the pool out only with every thread started,  *)
(* and before that nobody can have posted.                                  *)
Creation == /\ owner = "open" => Started = Workers
            /\ owner \in {"creating", "failing"} => Accepted = {}
            /\ Accepted # {} => Started = Workers

(* stop is raised by tua_workqueue_free and never lowered.                  *)
StopIsFree == stop <=> owner \in {"joining", "joined", "freed"}

(* Only a running worker holds an item.                                    *)
RunnersHold == \A w \in Workers : pc[w] = "run" <=> holding[w] # NoJob

TypeInv == TypeOK /\ RunnersHold

(* Where each worker stands: sleepers are inside the wait loop, a worker    *)
(* leaves only a stopped, empty pool, and join waits for every one of them. *)
WorkerPlaces ==
  /\ \A w \in asleep : pc[w] = "check"
  /\ \A w \in Workers : pc[w] = "exited" => stop /\ queue = <<>>
  /\ owner \in {"joined", "freed"} => \A w \in Started : pc[w] = "exited"

LEMMA TypeInit == Init => TypeInv
<1> SUFFICES ASSUME Init PROVE TypeInv
  OBVIOUS
<1> USE PoolAssumption DEF Init
<1>1. queue \in Seq(Jobs)
  OBVIOUS
<1>2. holding \in [Workers -> Jobs \cup {NoJob}] /\ pc \in [Workers -> {"unborn", "check", "run", "exited"}]
  OBVIOUS
<1>3. RunnersHold
  BY DEF RunnersHold
<1> QED
  BY <1>1, <1>2, <1>3 DEF TypeInv, TypeOK

LEMMA TypeStep == TypeInv /\ [Next]_vars => TypeInv'
<1> SUFFICES ASSUME TypeInv, [Next]_vars PROVE TypeInv'
  OBVIOUS
<1> USE PoolAssumption DEF TypeInv, TypeOK, RunnersHold
<1>1. ASSUME NEW j \in Jobs, Post(j) PROVE TypeInv'
  <2>1. asleep' \subseteq asleep
    BY <1>1 DEF Post, PostRefused, PostAccepted, Signal
  <2>2. queue' \in Seq(Jobs)
    BY <1>1 DEF Post, PostRefused, PostAccepted
  <2>3. answer' \in [Jobs -> {"none", "ok", "nomem", "canceled"}]
    BY <1>1 DEF Post, PostRefused, PostAccepted
  <2>4. UNCHANGED <<owner, pc, holding, stop, finished>>
    BY <1>1 DEF Post, PostRefused, PostAccepted
  <2> QED
    BY <2>1, <2>2, <2>3, <2>4
<1>2. ASSUME NEW w \in Workers, StartWorker(w) PROVE TypeInv'
  BY <1>2 DEF StartWorker
<1>3. ASSUME NEW w \in Workers, SpuriousWakeup(w) PROVE TypeInv'
  BY <1>3 DEF SpuriousWakeup
<1>4. ASSUME NEW w \in Workers, Sleep(w) PROVE TypeInv'
  BY <1>4 DEF Sleep
<1>5. ASSUME NEW w \in Workers, Take(w) PROVE TypeInv'
  <2>1. Head(queue) \in Jobs /\ Tail(queue) \in Seq(Jobs)
    BY <1>5, HeadTailProperties DEF Take
  <2> QED
    BY <1>5, <2>1 DEF Take
<1>6. ASSUME NEW w \in Workers, RunJob(w) PROVE TypeInv'
  <2>1. holding[w] \in Jobs
    BY <1>6 DEF RunJob
  <2> QED
    BY <1>6, <2>1 DEF RunJob
<1>7. ASSUME NEW w \in Workers, Exit(w) PROVE TypeInv'
  BY <1>7 DEF Exit
<1>8. CASE OwnerStep
  BY <1>8, EmptySeq DEF OwnerStep, CreateDone, FreeJoin, FreeRest
<1>9. CASE FreeStop
  BY <1>9 DEF FreeStop
<1>10. CASE UNCHANGED vars
  BY <1>10 DEF vars
<1> QED
  BY <1>1, <1>2, <1>3, <1>4, <1>5, <1>6, <1>7, <1>8, <1>9, <1>10 DEF Next, WorkerStep

(* The variables of the pool keep their types for every number of workers   *)
(* and jobs; a worker finishes a real job, never the empty hand.            *)
THEOREM TypeCorrect == Spec => []TypeOK
<1>1. TypeInv => TypeOK
  BY DEF TypeInv
<1> QED
  BY <1>1, TypeInit, TypeStep, PTL DEF Spec
-----------------------------------------------------------------------------
(* The inductive invariant.  FreeDropsNothing follows from it because a     *)
(* joined pool has only exited workers, none of which holds a job or left   *)
(* the list with something on it.                                           *)
IInv == TypeInv /\ Creation /\ StopIsFree /\ WorkerPlaces /\ NoLostWakeup /\ OnePlace

LEMMA InitIInv == Init => IInv
<1> SUFFICES ASSUME Init PROVE IInv
  OBVIOUS
<1> USE PoolAssumption DEF Init
<1>1. TypeInv
  BY TypeInit
<1>2. Creation /\ StopIsFree /\ WorkerPlaces /\ NoLostWakeup
  BY DEF Creation, StopIsFree, WorkerPlaces, NoLostWakeup, Accepted
<1>3. OnePlace
  BY DEF OnePlace, Accepted, Queued, Held
<1> QED
  BY <1>1, <1>2, <1>3 DEF IInv

(* The facts about threads, preserved by every step.                        *)
Threads == Creation /\ StopIsFree /\ WorkerPlaces /\ NoLostWakeup

LEMMA ThreadsStep == IInv /\ [Next]_vars => Threads'
<1> SUFFICES ASSUME IInv, [Next]_vars PROVE Threads'
  OBVIOUS
<1> USE PoolAssumption DEF IInv, TypeInv, TypeOK, Threads, Creation, StopIsFree,
                           WorkerPlaces, NoLostWakeup, Started, Awake
<1>1. ASSUME NEW j \in Jobs, PostAccepted(j), Exists PROVE Threads'
  <2>1. owner = "open" /\ Started = Workers
    BY <1>1 DEF PostAccepted, Exists
  <2>2. asleep' \subseteq asleep
    BY <1>1 DEF PostAccepted, Signal
  <2>3. \E w \in Workers : w \notin asleep'
    <3>1. CASE asleep = {}
      BY <1>1, <3>1 DEF PostAccepted, Signal
    <3>2. CASE asleep # {}
      BY <1>1, <3>2 DEF PostAccepted, Signal
    <3> QED
      BY <3>1, <3>2
  <2>4. UNCHANGED <<owner, pc, holding, stop, finished>>
    BY <1>1 DEF PostAccepted
  <2>5. \A w \in Workers : pc[w] # "exited" /\ pc[w] # "unborn"
    BY <2>1
  <2> QED
    BY <1>1, <2>1, <2>2, <2>3, <2>4, <2>5 DEF Accepted
<1>2. ASSUME NEW j \in Jobs, NEW err \in {"nomem", "canceled"}, PostRefused(j, err), Exists
      PROVE  Threads'
  <2>1. Accepted' \subseteq Accepted
    BY <1>2 DEF PostRefused, Accepted
  <2> QED
    BY <1>2, <2>1 DEF PostRefused, Exists
<1>3. ASSUME NEW w \in Workers, StartWorker(w) PROVE Threads'
  BY <1>3 DEF StartWorker, Accepted
<1>4. ASSUME NEW w \in Workers, SpuriousWakeup(w) PROVE Threads'
  BY <1>4 DEF SpuriousWakeup, Accepted
<1>5. ASSUME NEW w \in Workers, Sleep(w) PROVE Threads'
  BY <1>5 DEF Sleep, Accepted
<1>6. ASSUME NEW w \in Workers, Take(w) PROVE Threads'
  <2>1. \A v \in Workers : pc[v] = "exited" => queue = <<>>
    OBVIOUS
  <2> QED
    BY <1>6, <2>1 DEF Take, Accepted
<1>7. ASSUME NEW w \in Workers, RunJob(w) PROVE Threads'
  BY <1>7 DEF RunJob, Accepted
<1>8. ASSUME NEW w \in Workers, Exit(w) PROVE Threads'
  BY <1>8 DEF Exit, Accepted
<1>9. CASE OwnerStep
  BY <1>9 DEF OwnerStep, CreateDone, FreeJoin, FreeRest, Accepted
<1>10. CASE FreeStop
  BY <1>10 DEF FreeStop, Accepted
<1>11. CASE UNCHANGED vars
  BY <1>11 DEF vars, Accepted
<1> QED
  BY <1>1, <1>2, <1>3, <1>4, <1>5, <1>6, <1>7, <1>8, <1>9, <1>10, <1>11
     DEF Next, Post, WorkerStep

(* A job stays in one place, preserved by every step.                       *)
LEMMA OnePlaceStep == IInv /\ [Next]_vars => OnePlace'
<1> SUFFICES ASSUME IInv, [Next]_vars PROVE OnePlace'
  OBVIOUS
<1> USE PoolAssumption DEF IInv, TypeInv, TypeOK, RunnersHold, OnePlace
<1>1. ASSUME NEW j \in Jobs, PostAccepted(j), answer[j] = "none" PROVE OnePlace'
  <2>1. j \notin Queued /\ j \notin Held /\ j \notin finished
    BY <1>1 DEF Accepted
  <2>2. /\ queue' \in Seq(Jobs)
        /\ DOMAIN queue = 1 .. Len(queue) /\ DOMAIN queue' = 1 .. Len(queue) + 1
        /\ \A k \in 1 .. Len(queue) : queue'[k] = queue[k]
        /\ queue'[Len(queue) + 1] = j
        /\ Len(queue) \in Nat
    BY <1>1 DEF PostAccepted
  <2>3. Queued' = Queued \cup {j}
    <3>1. Queued \subseteq Queued'
      <4> SUFFICES ASSUME NEW k \in 1 .. Len(queue) PROVE queue[k] \in Queued'
        BY <2>2 DEF Queued
      <4>1. k \in 1 .. Len(queue) + 1 /\ queue'[k] = queue[k]
        BY <2>2
      <4> QED
        BY <2>2, <4>1 DEF Queued
    <3>2. j \in Queued'
      <4>1. Len(queue) + 1 \in DOMAIN queue'
        BY <2>2
      <4> QED
        BY <2>2, <4>1 DEF Queued
    <3>3. ASSUME NEW k \in DOMAIN queue' PROVE queue'[k] \in Queued \cup {j}
      <4>1. CASE k \in 1 .. Len(queue)
        BY <2>2, <4>1 DEF Queued
      <4>2. CASE k = Len(queue) + 1
        BY <2>2, <4>2
      <4> QED
        BY <2>2, <4>1, <4>2
    <3> QED
      BY <3>1, <3>2, <3>3 DEF Queued
  <2>4. Accepted' = Accepted \cup {j}
    BY <1>1 DEF PostAccepted, Accepted
  <2>5. \A k \in DOMAIN queue : queue[k] # j
    BY <2>1 DEF Queued
  <2>6. \A k, l \in DOMAIN queue' : queue'[k] = queue'[l] => k = l
    BY <2>2, <2>5
  <2>7. UNCHANGED <<holding, finished, Held>>
    BY <1>1 DEF PostAccepted, Held
  <2> QED
    BY <2>1, <2>3, <2>4, <2>6, <2>7
<1>2. ASSUME NEW j \in Jobs, NEW err \in {"nomem", "canceled"}, PostRefused(j, err), answer[j] = "none"
      PROVE  OnePlace'
  <2>1. Accepted' = Accepted
    BY <1>2 DEF PostRefused, Accepted
  <2> QED
    BY <1>2, <2>1 DEF PostRefused, Queued, Held
<1>3. ASSUME NEW w \in Workers, Take(w) PROVE OnePlace'
  <2>1. /\ Head(queue) = queue[1]
        /\ Len(queue) \in Nat \ {0}
        /\ DOMAIN queue = 1 .. Len(queue)
        /\ DOMAIN queue' = 1 .. (Len(queue) - 1)
        /\ \A k \in 1 .. (Len(queue) - 1) : queue'[k] = queue[k + 1]
    BY <1>3, HeadTailProperties DEF Take
  <2>2. Queued = Queued' \cup {queue[1]}
    <3>1. ASSUME NEW k \in DOMAIN queue, k # 1
          PROVE  queue[k] \in Queued'
      <4>1. k - 1 \in DOMAIN queue' /\ queue'[k - 1] = queue[k]
        BY <2>1, <3>1
      <4> QED
        BY <4>1 DEF Queued
    <3>2. ASSUME NEW k \in DOMAIN queue'
          PROVE  queue'[k] \in Queued
      <4>1. k + 1 \in DOMAIN queue /\ queue'[k] = queue[k + 1]
        BY <2>1, <3>2
      <4> QED
        BY <4>1 DEF Queued
    <3>3. queue[1] \in Queued
      BY <2>1 DEF Queued
    <3> QED
      BY <3>1, <3>2, <3>3 DEF Queued
  <2>3. queue[1] \notin Queued'
    <3>1. ASSUME NEW k \in DOMAIN queue' PROVE queue'[k] # queue[1]
      <4>1. k + 1 \in DOMAIN queue /\ 1 \in DOMAIN queue /\ k + 1 # 1 /\ queue'[k] = queue[k + 1]
        BY <2>1
      <4> QED
        BY <4>1
    <3> QED
      BY <3>1 DEF Queued
  <2>4. holding[w] = NoJob /\ queue[1] \in Jobs
    BY <1>3, <2>1 DEF Take
  <2>5. holding' = [holding EXCEPT ![w] = queue[1]]
    BY <1>3, <2>1 DEF Take
  <2>6. Held' = Held \cup {queue[1]}
    BY <2>4, <2>5 DEF Held
  <2>7. \A k, l \in DOMAIN queue' : queue'[k] = queue'[l] => k = l
    <3>1. ASSUME NEW k \in DOMAIN queue', NEW l \in DOMAIN queue', queue'[k] = queue'[l]
          PROVE  k = l
      <4>1. /\ k \in Nat /\ k + 1 \in DOMAIN queue /\ queue'[k] = queue[k + 1]
            /\ l \in Nat /\ l + 1 \in DOMAIN queue /\ queue'[l] = queue[l + 1]
        BY <2>1, <3>1
      <4>2. queue[k + 1] = queue[l + 1]
        BY <3>1, <4>1
      <4>3. k + 1 = l + 1
        BY <2>1, <4>1, <4>2
      <4> QED
        BY <4>1, <4>3
    <3> QED
      BY <3>1
  <2>8. \A v \in Workers : holding[v] # queue[1]
    <3>1. queue[1] \in Queued /\ Queued \cap Held = {}
      BY <2>2
    <3>2. ASSUME NEW v \in Workers, holding[v] = queue[1] PROVE queue[1] \in Held
      <4>1. holding[v] # NoJob
        BY <2>4, <3>2, PoolAssumption
      <4> QED
        BY <3>2, <4>1 DEF Held
    <3> QED
      BY <3>1, <3>2
  <2>9. \A u, v \in Workers : holding'[u] = holding'[v] /\ holding'[u] # NoJob => u = v
    BY <2>5, <2>8
  <2>10. Accepted' = Accepted /\ finished' = finished
    BY <1>3 DEF Take, Accepted
  <2>11. queue[1] \notin finished /\ queue[1] \notin Held
    BY <2>2
  <2> QED
    BY <2>2, <2>3, <2>6, <2>7, <2>9, <2>10, <2>11
<1>4. ASSUME NEW w \in Workers, RunJob(w) PROVE OnePlace'
  <2>1. holding[w] \in Jobs
    BY <1>4 DEF RunJob
  <2>2. holding' = [holding EXCEPT ![w] = NoJob]
    BY <1>4 DEF RunJob
  <2>3. Held' = Held \ {holding[w]} /\ holding[w] \in Held
    BY <2>1, <2>2 DEF Held
  <2>4. Queued' = Queued /\ Accepted' = Accepted /\ finished' = finished \cup {holding[w]}
    BY <1>4 DEF RunJob, Queued, Accepted
  <2>5. \A u, v \in Workers : holding'[u] = holding'[v] /\ holding'[u] # NoJob => u = v
    BY <2>2
  <2>6. \A k, l \in DOMAIN queue' : queue'[k] = queue'[l] => k = l
    BY <1>4 DEF RunJob
  <2> QED
    BY <2>3, <2>4, <2>5, <2>6
<1>5. ASSUME UNCHANGED <<queue, holding, finished, answer>> PROVE OnePlace'
  <2>1. Accepted' = Accepted /\ Queued' = Queued /\ Held' = Held
    BY <1>5 DEF Accepted, Queued, Held
  <2> QED
    BY <1>5, <2>1
<1>6. CASE FreeRest
  <2>1. queue = <<>>
    <3>1. CASE Accepted = {}
      <4>1. Queued = {}
        BY <3>1
      <4> QED
        BY <4>1, EmptySeq DEF Queued
    <3>2. CASE Accepted # {}
      BY <1>6, <3>2 DEF FreeRest, Creation, WorkerPlaces, Started
    <3> QED
      BY <3>1, <3>2
  <2> QED
    BY <1>5, <1>6, <2>1 DEF FreeRest
<1> QED
  BY <1>1, <1>2, <1>3, <1>4, <1>5, <1>6
     DEF Next, Post, WorkerStep, OwnerStep, StartWorker, SpuriousWakeup, Sleep, Exit,
         CreateDone, FreeJoin, FreeStop, vars

LEMMA IInvStep == IInv /\ [Next]_vars => IInv'
BY TypeStep, ThreadsStep, OnePlaceStep DEF IInv, Threads

LEMMA Inductive == Spec => []IInv
BY InitIInv, IInvStep, PTL DEF Spec

(* No wakeup is lost, whatever the number of workers, jobs, spurious        *)
(* wakeups and signals that busy workers absorb.                            *)
THEOREM WakeupsKept == Spec => []NoLostWakeup
<1>1. IInv => NoLostWakeup
  BY DEF IInv
<1> QED
  BY <1>1, Inductive, PTL

(* A job the pool accepted is in exactly one place until it has finished:   *)
(* no job runs twice and none disappears.                                   *)
THEOREM JobsInOnePlace == Spec => []OnePlace
<1>1. IInv => OnePlace
  BY DEF IInv
<1> QED
  BY <1>1, Inductive, PTL

(* A pool that was joined has nothing left.                                 *)
LEMMA NothingLeft ==
  ASSUME IInv, owner \in {"joined", "freed"}
  PROVE  queue = <<>> /\ Held = {}
<1> USE DEF IInv, TypeInv, TypeOK
<1>1. CASE Accepted = {}
  <2>1. Queued = {} /\ Held = {}
    BY <1>1 DEF OnePlace
  <2>2. queue = <<>>
    <3>1. queue \in Seq(Jobs) /\ DOMAIN queue = {}
      BY <2>1 DEF Queued
    <3> QED
      BY <3>1, EmptySeq
  <2> QED
    BY <2>1, <2>2
<1>2. CASE Accepted # {}
  <2>1. \A w \in Workers : pc[w] = "exited"
    BY <1>2 DEF Creation, WorkerPlaces
  <2>2. queue = <<>>
    BY <2>1, PoolAssumption DEF WorkerPlaces
  <2>3. Held = {}
    BY <2>1 DEF Held, RunnersHold
  <2> QED
    BY <2>2, <2>3
<1> QED
  BY <1>1, <1>2

(* So no job is left that was accepted, and no thread.                      *)
LEMMA Drained == IInv => FreeDropsNothing
<1> SUFFICES ASSUME IInv, owner \in {"joined", "freed"}
             PROVE  Accepted \subseteq finished /\ queue = <<>> /\ \A w \in Started : pc[w] = "exited"
  BY DEF FreeDropsNothing
<1>1. queue = <<>> /\ Held = {}
  BY NothingLeft
<1>2. Queued = {}
  BY <1>1 DEF Queued
<1> QED
  BY <1>1, <1>2 DEF IInv, OnePlace, WorkerPlaces

(* tua_workqueue_free is a graceful shutdown: every accepted job has run,   *)
(* the leftover list it frees without running is always empty, and no       *)
(* thread is left in the pool, whether it was created whole or not.         *)
THEOREM GracefulFree == Spec => []FreeDropsNothing
BY Drained, Inductive, PTL
-----------------------------------------------------------------------------
Refused == {j \in Jobs : answer[j] \in {"nomem", "canceled"}}
Phase == IF owner = "freed" THEN "retired" ELSE IF stop THEN "closed" ELSE "open"

(* Each step of the threads is a step of the abstract pool, or none that it *)
(* can see: a post is Accept or Refuse, taking the first item Start, the    *)
(* return of its function Finish, raising stop Close, the last free Retire. *)
LEMMA PoolStep ==
  ASSUME IInv, [Next]_vars
  PROVE  [Pool!Next]_(Pool!vars)
<1> USE DEF IInv, TypeInv, TypeOK
<1> USE PoolAssumption
<1>1. ASSUME NEW j \in Jobs, Post(j) PROVE Pool!Next
  <2>1. Exists /\ answer[j] = "none"
    BY <1>1 DEF Post
  <2>2. j \notin Queued /\ j \notin Held /\ j \notin finished /\ j \notin Refused
    BY <2>1 DEF OnePlace, Accepted, Refused
  <2>3. owner # "freed" /\ Phase # "retired"
    BY <2>1 DEF Exists, Phase
  <2>4. ASSUME NEW e \in {"nomem", "canceled"}, PostRefused(j, e) PROVE Pool!Refuse(j)
    <3>1. answer' = [answer EXCEPT ![j] = e] /\ UNCHANGED <<owner, holding, queue, stop, finished>>
      BY <2>4 DEF PostRefused
    <3>2. Refused' = Refused \cup {j}
      BY <3>1 DEF Refused
    <3>3. Held' = Held /\ Phase' = Phase
      BY <3>1 DEF Held, Phase
    <3> QED
      BY <2>2, <2>3, <3>1, <3>2, <3>3 DEF Pool!Refuse, Pool!Known, Pool!Waiting, Queued, Refused, Phase
  <2>5. ASSUME PostAccepted(j) PROVE Pool!Accept(j)
    <3>1. /\ ~stop /\ queue' = Append(queue, j) /\ answer' = [answer EXCEPT ![j] = "ok"]
          /\ UNCHANGED <<owner, holding, stop, finished>>
      BY <2>5 DEF PostAccepted
    <3>2. Refused' = Refused
      BY <2>1, <3>1 DEF Refused
    <3>3. Held' = Held /\ Phase' = Phase /\ Phase = "open"
      BY <2>3, <3>1 DEF Held, Phase
    <3> QED
      BY <2>2, <3>1, <3>2, <3>3 DEF Pool!Accept, Pool!Known, Pool!Waiting, Queued, Refused, Phase
  <2> QED
    BY <1>1, <2>4, <2>5 DEF Post, Pool!Next
<1>2. ASSUME NEW w \in Workers, Take(w) PROVE Pool!Start
  <2>1. /\ queue # <<>> /\ pc[w] = "check" /\ holding' = [holding EXCEPT ![w] = Head(queue)]
        /\ queue' = Tail(queue) /\ UNCHANGED <<owner, stop, answer, finished>>
    BY <1>2 DEF Take
  <2>2. holding[w] = NoJob /\ Head(queue) \in Jobs
    BY <2>1, HeadTailProperties DEF RunnersHold
  <2>3. Held' = Held \cup {Head(queue)}
    BY <2>1, <2>2 DEF Held
  <2>4. Refused' = Refused /\ Phase' = Phase
    BY <2>1 DEF Refused, Phase
  <2> QED
    BY <2>1, <2>3, <2>4 DEF Pool!Start, Refused, Phase
<1>3. ASSUME NEW w \in Workers, RunJob(w) PROVE Pool!Next
  <2>1. /\ pc[w] = "run" /\ finished' = finished \cup {holding[w]} /\ holding' = [holding EXCEPT ![w] = NoJob]
        /\ UNCHANGED <<owner, queue, stop, answer>>
    BY <1>3 DEF RunJob
  <2>2. holding[w] \in Jobs /\ holding[w] # NoJob
    BY <2>1 DEF RunnersHold
  <2>3. Held' = Held \ {holding[w]} /\ holding[w] \in Held
    BY <2>1, <2>2 DEF Held, OnePlace
  <2>4. Refused' = Refused /\ Phase' = Phase
    BY <2>1 DEF Refused, Phase
  <2>5. Pool!Finish(holding[w])
    BY <2>1, <2>3, <2>4 DEF Pool!Finish, Refused, Phase
  <2> QED
    BY <2>2, <2>5 DEF Pool!Next
<1>4. CASE FreeStop
  <2>1. /\ owner \in {"open", "failing"} /\ owner' = "joining" /\ stop' = TRUE
        /\ UNCHANGED <<holding, queue, answer, finished>>
    BY <1>4 DEF FreeStop
  <2>2. ~stop
    BY <2>1 DEF StopIsFree
  <2>3. Phase = "open" /\ Phase' = "closed" /\ Held' = Held /\ Refused' = Refused
    BY <2>1, <2>2 DEF Phase, Held, Refused
  <2>4. Pool!Close
    BY <2>1, <2>3 DEF Pool!Close, Phase, Refused
  <2> QED
    BY <2>4 DEF Pool!Next
<1>5. CASE FreeRest
  <2>1. /\ owner = "joined" /\ owner' = "freed" /\ queue' = <<>> /\ UNCHANGED <<holding, stop, answer, finished>>
    BY <1>5 DEF FreeRest
  <2>2. queue = <<>> /\ Held = {}
    BY <2>1, NothingLeft
  <2>3. stop
    BY <2>1 DEF StopIsFree
  <2>4. Phase = "closed" /\ Phase' = "retired" /\ Held' = Held /\ Refused' = Refused
    BY <2>1, <2>3 DEF Phase, Held, Refused
  <2>5. Pool!Retire
    BY <2>1, <2>2, <2>4 DEF Pool!Retire, Phase, Refused
  <2> QED
    BY <2>5 DEF Pool!Next
<1>6. ASSUME \/ UNCHANGED vars \/ CreateDone \/ FreeJoin
             \/ \E w \in Workers : StartWorker(w) \/ SpuriousWakeup(w) \/ Sleep(w) \/ Exit(w)
      PROVE  UNCHANGED Pool!vars
  <2>1. UNCHANGED <<holding, queue, stop, answer, finished>> /\ (owner = "freed" <=> owner' = "freed")
    BY <1>6 DEF vars, CreateDone, FreeJoin, StartWorker, SpuriousWakeup, Sleep, Exit
  <2>2. Phase' = Phase /\ Held' = Held /\ Refused' = Refused
    BY <2>1 DEF Phase, Held, Refused
  <2> QED
    BY <2>1, <2>2 DEF Pool!vars, Phase, Refused
<1> QED
  <2>1. CASE UNCHANGED vars
    BY <1>6, <2>1
  <2>2. CASE Next
    BY <1>1, <1>2, <1>3, <1>4, <1>5, <1>6, <2>2 DEF Next, WorkerStep, OwnerStep, Pool!Next
  <2> QED
    BY <2>1, <2>2

(* The threads, the list and the condition variable implement the abstract  *)
(* pool, but for its fairness: whatever the number of workers, jobs start   *)
(* in the order they were accepted, each once; a closed pool accepts        *)
(* nothing, and it is retired with no accepted job unfinished.              *)
THEOREM PoolKeepsPromise == Spec => Pool!Init /\ [][Pool!Next]_(Pool!vars)
<1>1. Init => Pool!Init
  <2> SUFFICES ASSUME Init PROVE Pool!Init
    OBVIOUS
  <2>1. Held = {} /\ Refused = {} /\ Phase = "open" /\ queue = <<>> /\ finished = {}
    BY DEF Init, Held, Refused, Phase
  <2> QED
    BY <2>1 DEF Pool!Init, Refused, Phase
<1>2. IInv /\ [Next]_vars => [Pool!Next]_(Pool!vars)
  BY PoolStep
<1> QED
  BY <1>1, <1>2, Inductive, PTL DEF Spec
-----------------------------------------------------------------------------
(* The pools of the matrix products: how they cut the rows.                 *)
LEMMA LeastNatural ==
  ASSUME NEW T, T \subseteq Nat, T # {}
  PROVE  \E x \in T : \A y \in T : x <= y
<1> DEFINE R == OpToRel(<, Nat)
<1>1. IsWellFoundedOn(R, Nat)
  BY NatLessThanWellFounded
<1>2. \A x, y \in Nat : y < x => <<y, x>> \in R
  BY DEF OpToRel
<1> HIDE DEF R
<1>3. PICK x \in T : \A y \in T : ~(<<y, x>> \in R)
  BY <1>1, WFMin
<1>4. \A y \in T : ~(y < x)
  BY <1>2, <1>3
<1> QED
  BY <1>4

(* A rising sequence of cuts that begins at zero divides what is below the  *)
(* last one.                                                                *)
LEMMA Cuts ==
  ASSUME NEW b, NEW nt \in Nat, b[0] = 0, \A t \in Nat : b[t] \in Nat,
         \A t, u \in Nat : t <= u => b[t] <= b[u], NEW r \in Nat
  PROVE  /\ r < b[nt] => \E t \in 0 .. nt - 1 : b[t] <= r /\ r < b[t + 1]
         /\ \A t, u \in Nat : b[t] <= r /\ r < b[t + 1] /\ b[u] <= r /\ r < b[u + 1] => t = u
<1>1. ASSUME r < b[nt] PROVE \E t \in 0 .. nt - 1 : b[t] <= r /\ r < b[t + 1]
  <2> DEFINE T == {t \in Nat : r < b[t]}
  <2>1. PICK s \in T : \A y \in T : s <= y
    BY <1>1, LeastNatural
  <2>2. s \in Nat /\ s # 0 /\ s <= nt
    BY <1>1, <2>1
  <2>3. s - 1 \in 0 .. nt - 1 /\ (s - 1) + 1 = s /\ s - 1 \in Nat /\ ~(s <= s - 1)
    BY <2>2
  <2>4. ~(r < b[s - 1])
    BY <2>1, <2>3
  <2>5. b[s - 1] \in Nat
    BY <2>3
  <2>6. b[s - 1] <= r
    BY <2>4, <2>5
  <2> QED
    BY <2>1, <2>3, <2>6
<1>2. ASSUME NEW t \in Nat, NEW u \in Nat, b[t] <= r, r < b[t + 1], b[u] <= r, r < b[u + 1], t < u
      PROVE  FALSE
  <2>1. t + 1 <= u /\ t + 1 \in Nat
    BY <1>2
  <2>2. b[t + 1] <= b[u] /\ b[t + 1] \in Nat /\ b[u] \in Nat
    BY <2>1
  <2> QED
    BY <2>2, <1>2
<1> QED
  BY <1>1, <1>2

(* What a quotient is.                                                      *)
LEMMA Quotient ==
  ASSUME NEW a \in Nat, NEW n \in Nat \ {0}
  PROVE  a \div n \in Nat /\ (a \div n) * n <= a /\ a < (a \div n) * n + n
OBVIOUS

LEMMA QuotientsRise ==
  ASSUME NEW a \in Nat, NEW c \in Nat, a <= c, NEW n \in Nat \ {0}
  PROVE  a \div n <= c \div n
<1> DEFINE p == a \div n
           q == c \div n
<1>1. p \in Nat /\ q \in Nat /\ p * n <= a /\ c < q * n + n
  BY Quotient
<1> HIDE DEF p, q
<1>2. ASSUME q + 1 <= p PROVE FALSE
  <2>1. (q + 1) * n <= p * n
    BY <1>1, <1>2
  <2>2. (q + 1) * n = q * n + n
    BY <1>1
  <2>3. q * n \in Nat /\ p * n \in Nat
    BY <1>1
  <2> QED
    BY <1>1, <2>1, <2>2, <2>3
<1>3. p <= q
  BY <1>1, <1>2
<1> QED
  BY <1>3 DEF p, q

(* The cuts of the two pools.                                               *)
Chunk(nt, m) == (m + nt - 1) \div nt
Cut(nt, m)   == [t \in Nat |-> IF pool = "q4" THEN t * Chunk(nt, m) ELSE (m * t) \div nt]

LEMMA CutsRise ==
  ASSUME NEW nt \in Nat \ {0}, NEW m \in Nat
  PROVE  /\ \A t \in Nat : Cut(nt, m)[t] \in Nat
         /\ \A t, u \in Nat : t <= u => Cut(nt, m)[t] <= Cut(nt, m)[u]
         /\ Cut(nt, m)[0] = 0
         /\ m <= Cut(nt, m)[nt]
         /\ pool # "q4" => Cut(nt, m)[nt] = m
<1> DEFINE k == Chunk(nt, m)
<1>1. m + nt - 1 \in Nat
  OBVIOUS
<1>2. k \in Nat /\ m + nt - 1 < k * nt + nt
  BY <1>1, Quotient DEF Chunk
<1> HIDE DEF k
<1>3. \A t, u \in Nat : t <= u => t * k \in Nat /\ t * k <= u * k
  BY <1>2
<1>4. \A t, u \in Nat : t <= u => m * t \in Nat /\ m * t <= m * u
  OBVIOUS
<1>5. \A t, u \in Nat : t <= u => (m * t) \div nt \in Nat /\ (m * t) \div nt <= (m * u) \div nt
  <2> TAKE t, u \in Nat
  <2> HAVE t <= u
  <2>1. m * t \in Nat /\ m * u \in Nat /\ m * t <= m * u
    BY <1>4
  <2> QED
    BY <2>1, Quotient, QuotientsRise
<1>6. 0 * k = 0 /\ (m * 0) \div nt = 0
  BY <1>2
<1>7. k * nt = nt * k /\ k * nt \in Nat
  BY <1>2
<1>8. m <= nt * k
  BY <1>2, <1>7
<1>9. (m * nt) \div nt = m
  <2>1. m * nt \in Nat
    OBVIOUS
  <2> DEFINE q == (m * nt) \div nt
  <2>2. q \in Nat /\ q * nt <= m * nt /\ m * nt < q * nt + nt
    BY <2>1, Quotient
  <2> HIDE DEF q
  <2>3. ASSUME m < q PROVE FALSE
    <3>1. (m + 1) * nt <= q * nt /\ (m + 1) * nt = m * nt + nt
      BY <2>2, <2>3
    <3>2. q * nt \in Nat
      BY <2>2
    <3> QED
      BY <2>1, <2>2, <3>1, <3>2
  <2>4. ASSUME q < m PROVE FALSE
    <3>1. (q + 1) * nt <= m * nt /\ (q + 1) * nt = q * nt + nt
      BY <2>2, <2>4
    <3>2. q * nt \in Nat
      BY <2>2
    <3> QED
      BY <2>1, <2>2, <3>1, <3>2
  <2> QED
    BY <2>2, <2>3, <2>4 DEF q
<1>10. \A t \in Nat : Cut(nt, m)[t] = IF pool = "q4" THEN t * k ELSE (m * t) \div nt
  BY DEF Cut, k
<1>11. \A t \in Nat : Cut(nt, m)[t] \in Nat
  <2> TAKE t \in Nat
  <2>1. t * k \in Nat /\ (m * t) \div nt \in Nat
    BY <1>3, <1>5
  <2> QED
    BY <2>1, <1>10
<1>12. \A t, u \in Nat : t <= u => Cut(nt, m)[t] <= Cut(nt, m)[u]
  <2> TAKE t, u \in Nat
  <2> HAVE t <= u
  <2>1. t * k <= u * k /\ (m * t) \div nt <= (m * u) \div nt
    BY <1>3, <1>5
  <2> QED
    BY <2>1, <1>10
<1>13. Cut(nt, m)[0] = 0
  BY <1>6, <1>10
<1>14. m <= Cut(nt, m)[nt] /\ (pool # "q4" => Cut(nt, m)[nt] = m)
  <2>1. Cut(nt, m)[nt] = IF pool = "q4" THEN nt * k ELSE (m * nt) \div nt
    BY <1>10
  <2> QED
    BY <2>1, <1>8, <1>9
<1> QED
  BY <1>11, <1>12, <1>13, <1>14

LEMMA RowsCut ==
  ASSUME NEW nt \in Nat \ {0}, NEW m \in 0 .. MaxRows, NEW t \in 0 .. nt - 1, NEW r \in G!Rows
  PROVE  r \in G!RowsOf(t, nt, m) <=> Cut(nt, m)[t] <= r /\ r < Cut(nt, m)[t + 1] /\ r < m
<1>1. t \in Nat /\ t + 1 \in Nat /\ t + 1 <= nt /\ r \in Nat /\ m \in Nat
  BY GemvAssumption DEF G!Rows, G!GemvAssumption
<1>2. CASE pool = "q4"
  <2> DEFINE k == Chunk(nt, m)
  <2>1. G!RowsOf(t, nt, m) = {x \in G!Rows : t * k <= x /\ x < G!Least((t + 1) * k, m)}
    BY <1>2 DEF G!RowsOf, Chunk
  <2>2. Cut(nt, m)[t] = t * k /\ Cut(nt, m)[t + 1] = (t + 1) * k
    BY <1>1, <1>2 DEF Cut
  <2>3. Cut(nt, m)[t + 1] \in Nat
    BY <1>1, CutsRise
  <2>4. r < G!Least((t + 1) * k, m) <=> r < (t + 1) * k /\ r < m
    BY <1>1, <2>2, <2>3 DEF G!Least
  <2> HIDE DEF k
  <2> QED
    BY <2>1, <2>2, <2>4
<1>3. CASE pool # "q4"
  <2>1. G!RowsOf(t, nt, m) = {x \in G!Rows : (m * t) \div nt <= x /\ x < (m * (t + 1)) \div nt}
    BY <1>3 DEF G!RowsOf
  <2>2. Cut(nt, m)[t] = (m * t) \div nt /\ Cut(nt, m)[t + 1] = (m * (t + 1)) \div nt
    BY <1>1, <1>3 DEF Cut
  <2>3. Cut(nt, m)[t + 1] <= m
    <3>1. Cut(nt, m)[t + 1] <= Cut(nt, m)[nt] /\ Cut(nt, m)[nt] = m
      BY <1>1, <1>3, CutsRise
    <3> QED
      BY <3>1
  <2>4. Cut(nt, m)[t + 1] \in Nat
    BY <1>1, CutsRise
  <2>5. r < Cut(nt, m)[t + 1] => r < m
    BY <1>1, <2>3, <2>4
  <2> QED
    BY <2>1, <2>2, <2>5
<1> QED
  BY <1>2, <1>3

(* Every row below m is in one share, and no share has another row.         *)
LEMMA Shares ==
  ASSUME NEW nt \in Nat \ {0}, NEW m \in 0 .. MaxRows, NEW r \in G!Rows
  PROVE  /\ r < m => \E t \in 0 .. nt - 1 : r \in G!RowsOf(t, nt, m)
         /\ \A t \in 0 .. nt - 1 : r \in G!RowsOf(t, nt, m) => r < m
         /\ \A t, u \in 0 .. nt - 1 : r \in G!RowsOf(t, nt, m) /\ r \in G!RowsOf(u, nt, m) => t = u
<1> DEFINE b == Cut(nt, m)
<1>1. r \in Nat /\ m \in Nat
  BY GemvAssumption DEF G!Rows, G!GemvAssumption
<1>2. /\ \A t \in Nat : b[t] \in Nat
      /\ \A t, u \in Nat : t <= u => b[t] <= b[u]
      /\ b[0] = 0 /\ m <= b[nt]
  BY <1>1, CutsRise
<1>3. \A t \in 0 .. nt - 1 : r \in G!RowsOf(t, nt, m) <=> b[t] <= r /\ r < b[t + 1] /\ r < m
  BY RowsCut
<1> HIDE DEF b
<1>4. /\ r < b[nt] => \E t \in 0 .. nt - 1 : b[t] <= r /\ r < b[t + 1]
      /\ \A t, u \in Nat : b[t] <= r /\ r < b[t + 1] /\ b[u] <= r /\ r < b[u + 1] => t = u
  BY <1>1, <1>2, Cuts
<1>5. b[nt] \in Nat /\ \A t \in 0 .. nt - 1 : t \in Nat
  BY <1>2
<1>6. r < m => r < b[nt]
  BY <1>1, <1>2, <1>5
<1> QED
  BY <1>3, <1>4, <1>5, <1>6
-----------------------------------------------------------------------------
(* The inductive invariant.                                                 *)
Calls == [id : 0 .. MaxCalls, rows : 0 .. MaxRows]
WorkerType == [pc : {"none", "check", "compute", "report", "exited"}, seen : Nat, copy : Calls, nt : 0 .. MaxThreads]

GemvTypes ==
  /\ pool \in G!Pools /\ want \in 1 .. MaxThreads /\ nthreads \in 0 .. MaxThreads
  /\ caller \in {"idle", "destroy", "join", "create", "submit", "wait"}
  /\ call \in Calls /\ argument \in Calls
  /\ created \subseteq G!Tids /\ gasleep \subseteq created /\ working \in Nat
  /\ jobId \in Nat /\ gstop \in BOOLEAN /\ stray \in BOOLEAN /\ resting \in BOOLEAN
  /\ worker \in [G!Tids -> WorkerType] /\ wrote \in [G!Rows -> Nat]

(* The threads there are, as the caller has come to make or unmake them.    *)
Team ==
  /\ caller = "create" => /\ created = 0 .. Cardinality(created) - 1 /\ Cardinality(created) < want
                          /\ nthreads = IF created = {} THEN 0 ELSE want
  /\ caller # "create" => created = 0 .. nthreads - 1
  /\ caller \in {"submit", "wait"} => nthreads = want /\ want > 0
  /\ gstop <=> caller = "join"
  /\ gstop => gasleep = {}
  /\ \A t \in G!Tids : worker[t].pc = "none" <=> t \notin created
  /\ \A t \in G!Tids \ created : worker[t] = G!Fresh

(* A worker has not taken the product yet, is at it, or has reported.       *)
Untaken(t)  == worker[t].pc = "check" /\ worker[t].seen + 1 = jobId
At(t)       == worker[t].pc \in {"compute", "report"} /\ worker[t].seen = jobId
Reported(t) == worker[t].pc = "check" /\ worker[t].seen = jobId
Pending     == {t \in created : ~Reported(t)}
Written(t)  == worker[t].seen = jobId /\ worker[t].pc \in {"check", "report"}

Working ==
  /\ caller \notin {"wait", "join"} => \A t \in created : Reported(t)
  /\ caller = "create" /\ created # {} => jobId = 0
  /\ caller = "join" => \A t \in created : worker[t].pc \in {"check", "exited"}
  /\ caller = "wait" =>
       /\ argument = call
       /\ \A t \in created : Untaken(t) \/ At(t) \/ Reported(t)
       /\ \A t \in created : worker[t].pc = "compute" => worker[t].copy = call /\ worker[t].nt = nthreads
  /\ working = IF caller = "wait" THEN Cardinality(Pending) ELSE 0

(* Row r is in the share of a worker that has written its share.            *)
Rowed(r) == \E t \in created : Written(t) /\ r \in G!RowsOf(t, nthreads, call.rows)

Written1 ==
  /\ ~stray
  /\ caller = "wait" => \A r \in G!Rows : wrote[r] = IF Rowed(r) THEN 1 ELSE 0
  /\ caller = "idle" /\ call.id > 0 => \A r \in G!Rows : wrote[r] = IF r < call.rows THEN 1 ELSE 0
  /\ caller \notin {"wait", "idle"} => \A r \in G!Rows : wrote[r] = 0

GInv == GemvTypes /\ Team /\ Working /\ Written1

LEMMA Teams ==
  ASSUME GemvTypes
  PROVE  /\ IsFiniteSet(created) /\ Cardinality(created) \in Nat
         /\ IsFiniteSet(Pending) /\ Cardinality(Pending) \in Nat
         /\ \A n \in Nat : IsFiniteSet(0 .. n - 1) /\ Cardinality(0 .. n - 1) = n
<1>1. \A n \in Nat : IsFiniteSet(0 .. n - 1) /\ Cardinality(0 .. n - 1) = n
  BY FS_Interval
<1>2. IsFiniteSet(G!Tids)
  BY <1>1, GemvAssumption DEF G!Tids, G!GemvAssumption
<1>3. created \in SUBSET G!Tids /\ Pending \in SUBSET G!Tids
  BY DEF GemvTypes, Pending
<1> QED
  BY <1>1, <1>2, <1>3, FS_Subset, FS_CardinalityType

LEMMA GemvBegins == G!Init => GInv
<1> SUFFICES ASSUME G!Init PROVE GInv
  OBVIOUS
<1>1. /\ pool \in G!Pools /\ caller = "idle" /\ want = 1 /\ call = [id |-> 0, rows |-> 0] /\ argument = call
      /\ wrote = [r \in G!Rows |-> 0] /\ stray = FALSE /\ created = {} /\ nthreads = 0 /\ gstop = FALSE
      /\ jobId = 0 /\ working = 0 /\ worker = [t \in G!Tids |-> G!Fresh] /\ gasleep = {} /\ resting = FALSE
      /\ G!Fresh = [pc |-> "none", seen |-> 0, copy |-> [id |-> 0, rows |-> 0], nt |-> 0]
  BY DEF G!Init, G!NoCall, G!Fresh
<1>2. call \in Calls /\ want \in 1 .. MaxThreads /\ nthreads \in 0 .. MaxThreads /\ G!Fresh \in WorkerType
  BY <1>1, GemvAssumption DEF Calls, G!GemvAssumption, WorkerType
<1>3. GemvTypes
  BY <1>1, <1>2 DEF GemvTypes
<1>4. 0 .. nthreads - 1 = {} /\ call.id = 0 /\ G!Fresh.pc = "none"
  BY <1>1
<1>5. Team /\ Working /\ Written1
  BY <1>1, <1>4 DEF Team, Working, Written1
<1> QED
  BY <1>3, <1>5 DEF GInv

LEMMA GemvCallInv ==
  ASSUME GInv, NEW t \in 1 .. MaxThreads, NEW m \in 1 .. MaxRows, G!Gemv(t, m)
  PROVE  GInv'
<1> USE DEF GInv
<1>1. /\ caller = "idle" /\ want' = t /\ call' = [id |-> call.id + 1, rows |-> m] /\ call.id < MaxCalls
      /\ UNCHANGED <<pool, stray, created, nthreads, gstop, jobId, working, argument, worker, gasleep, resting>>
      /\ Pending' = Pending
  BY DEF G!Gemv, G!fields, Pending, Reported
<1>2. call' \in Calls /\ call'.rows = m
  BY <1>1, GemvAssumption DEF GemvTypes, Calls, G!GemvAssumption
<1>3. CASE t <= 1 \/ m < FewRows
  <2>1. caller' = "idle" /\ wrote' = [r \in G!Rows |-> IF r < m THEN 1 ELSE 0]
    BY <1>2, <1>3 DEF G!Gemv, G!Inline
  <2>2. GemvTypes'
    BY <1>1, <1>2, <2>1 DEF GemvTypes
  <2>3. Team' /\ Working' /\ Written1'
    BY <1>1, <1>2, <2>1 DEF Team, Working, Written1, Reported
  <2> QED
    BY <2>2, <2>3
<1>4. CASE ~(t <= 1 \/ m < FewRows)
  <2>1. /\ wrote' = [r \in G!Rows |-> 0]
        /\ caller' = IF nthreads = t THEN "submit" ELSE IF nthreads > 0 THEN "destroy" ELSE "create"
    BY <1>4 DEF G!Gemv
  <2>2. GemvTypes'
    BY <1>1, <1>2, <2>1 DEF GemvTypes
  <2>3. caller' = "create" => nthreads = 0 /\ created = {} /\ Cardinality(created) = 0 /\ created = 0 .. Cardinality(created) - 1
    <3>1. nthreads = 0 => 0 .. nthreads - 1 = {}
      OBVIOUS
    <3> QED
      BY <1>1, <2>1, <3>1, FS_EmptySet DEF Team, GemvTypes
  <2>4. Working' /\ Written1'
    BY <1>1, <2>1, <2>3 DEF Working, Written1, Reported
  <2>5. caller' = "submit" => nthreads = t
    BY <2>1
  <2>6. t > 1 /\ t > 0
    BY <1>4
  <2>7. Team'
    BY <1>1, <2>1, <2>3, <2>5, <2>6 DEF Team
  <2> QED
    BY <2>2, <2>4, <2>7
<1> QED
  BY <1>3, <1>4

LEMMA DestroyInv == ASSUME GInv, G!Destroy PROVE GInv'
<1> USE DEF GInv
<1>1. /\ caller = "destroy" /\ caller' = "join" /\ gstop' = TRUE /\ gasleep' = {}
      /\ jobId' = (IF pool = "q4" THEN jobId + 1 ELSE jobId)
      /\ UNCHANGED <<pool, want, call, wrote, stray, created, nthreads, working, argument, worker, resting>>
  BY DEF G!Destroy
<1>2. GemvTypes'
  BY <1>1 DEF GemvTypes
<1>3. Team' /\ Working' /\ Written1'
  BY <1>1 DEF Team, Working, Written1, Reported
<1> QED
  BY <1>2, <1>3

LEMMA JoinInv == ASSUME GInv, G!Join PROVE GInv'
<1> USE DEF GInv
<1>1. /\ caller = "join" /\ caller' = "create" /\ created' = {} /\ nthreads' = 0 /\ gstop' = FALSE
      /\ working' = (IF pool = "bf16" THEN 0 ELSE working) /\ jobId' = (IF pool = "bf16" THEN 0 ELSE jobId)
      /\ worker' = [t \in G!Tids |-> G!Fresh]
      /\ UNCHANGED <<pool, want, call, wrote, stray, argument, gasleep, resting>>
  BY DEF G!Join
<1>2. gasleep = {} /\ working = 0
  BY <1>1 DEF Team, Working
<1>3. G!Fresh \in WorkerType /\ G!Fresh.pc = "none"
  BY GemvAssumption DEF G!Fresh, G!NoCall, WorkerType, Calls, G!GemvAssumption
<1>4. GemvTypes'
  <2>1. worker' \in [G!Tids -> WorkerType] /\ nthreads' \in 0 .. MaxThreads /\ working' \in Nat /\ jobId' \in Nat
    BY <1>1, <1>2, <1>3, GemvAssumption DEF GemvTypes, G!GemvAssumption
  <2>2. created' \subseteq G!Tids /\ gasleep' \subseteq created'
    BY <1>1, <1>2
  <2> QED
    BY <1>1, <2>1, <2>2 DEF GemvTypes
<1>5. created' = 0 .. Cardinality(created') - 1 /\ Cardinality(created') < want'
  BY <1>1, FS_EmptySet DEF GemvTypes
<1>6. Team'
  BY <1>1, <1>3, <1>5 DEF Team
<1>7. Working' /\ Written1'
  BY <1>1, <1>2 DEF Working, Written1
<1> QED
  BY <1>4, <1>6, <1>7

LEMMA NoPoolInv == ASSUME GInv, G!NoPool PROVE GInv'
<1> USE DEF GInv
<1>1. /\ caller = "create" /\ created = {} /\ nthreads = 0 /\ caller' = "idle"
      /\ wrote' = [r \in G!Rows |-> IF r < call.rows THEN 1 ELSE 0]
      /\ UNCHANGED <<pool, want, call, stray, created, nthreads, gstop, jobId, working, argument, worker, gasleep, resting>>
  BY DEF G!NoPool, G!fields
<1>2. GemvTypes'
  BY <1>1 DEF GemvTypes
<1>3. created' = 0 .. nthreads' - 1
  BY <1>1
<1>4. Team' /\ Working' /\ Written1'
  BY <1>1, <1>3 DEF Team, Working, Written1, Reported
<1> QED
  BY <1>2, <1>4

LEMMA CreateThreadInv == ASSUME GInv, G!CreateThread PROVE GInv'
<1> USE DEF GInv
<1> DEFINE t == Cardinality(created)
<1>1. /\ caller = "create" /\ t < want /\ nthreads' = want /\ gstop' = FALSE
      /\ jobId' = (IF created = {} THEN 0 ELSE jobId)
      /\ created' = created \cup {t} /\ worker' = [worker EXCEPT ![t].pc = "check"]
      /\ caller' = IF t + 1 = want THEN "submit" ELSE "create"
      /\ UNCHANGED <<pool, want, call, wrote, stray, working, argument, gasleep, resting>>
  BY DEF G!CreateThread, G!Cardinality, Cardinality
<1>2. t \in Nat /\ IsFiniteSet(created)
  BY Teams
<1>3. created = 0 .. t - 1 /\ nthreads = IF created = {} THEN 0 ELSE want
  BY <1>1 DEF Team
<1>4. t \notin created /\ t \in G!Tids /\ want \in Nat /\ want > 0
  BY <1>1, <1>2, <1>3, GemvAssumption DEF G!Tids, GemvTypes, G!GemvAssumption
<1>5. Cardinality(created') = t + 1 /\ created' = 0 .. t
  <2>1. Cardinality(created') = t + 1
    BY <1>1, <1>2, <1>4, FS_AddElement
  <2> HIDE DEF t
  <2>2. created' = 0 .. t
    BY <1>1, <1>2, <1>3
  <2> QED
    BY <2>1, <2>2
<1> HIDE DEF t
<1>6. worker[t] = G!Fresh
  BY <1>4 DEF Team
<1>7. worker'[t] = [pc |-> "check", seen |-> 0, copy |-> G!NoCall, nt |-> 0]
  BY <1>1, <1>4, <1>6 DEF G!Fresh, GemvTypes
<1>8. worker'[t] \in WorkerType
  BY <1>7, GemvAssumption DEF G!NoCall, WorkerType, Calls, G!GemvAssumption
<1>9. \A u \in G!Tids \ {t} : worker'[u] = worker[u]
  BY <1>1 DEF GemvTypes
<1>10. GemvTypes'
  <2>1. worker' \in [G!Tids -> WorkerType]
    BY <1>1, <1>4, <1>8, <1>9 DEF GemvTypes
  <2>2. nthreads' \in 0 .. MaxThreads /\ jobId' \in Nat
    BY <1>1 DEF GemvTypes
  <2>3. created' \subseteq G!Tids /\ gasleep' \subseteq created'
    BY <1>1, <1>4 DEF GemvTypes
  <2> QED
    BY <1>1, <2>1, <2>2, <2>3 DEF GemvTypes
<1>11. Team'
  <2>1. caller' = "create" => created' = 0 .. Cardinality(created') - 1 /\ Cardinality(created') < want'
    BY <1>1, <1>2, <1>4, <1>5
  <2>2. caller' # "create" => created' = 0 .. nthreads' - 1
    BY <1>1, <1>2, <1>5
  <2>3. created' # {}
    BY <1>1
  <2>4. \A u \in G!Tids : worker'[u].pc = "none" <=> u \notin created'
    BY <1>1, <1>4, <1>7, <1>9 DEF Team
  <2>5. \A u \in G!Tids \ created' : worker'[u] = G!Fresh
    BY <1>1, <1>9 DEF Team
  <2>6. ~gstop' /\ caller' # "join"
    BY <1>1
  <2> QED
    BY <1>1, <1>4, <2>1, <2>2, <2>3, <2>4, <2>5, <2>6 DEF Team
<1>12. Working'
  <2>1. \A u \in created : Reported(u) /\ u \in G!Tids
    BY <1>1 DEF Working, GemvTypes
  <2>2. created # {} => jobId' = jobId
    BY <1>1
  <2>3. \A u \in created : Reported(u)'
    BY <1>4, <1>9, <2>1, <2>2 DEF Reported
  <2>4. jobId' = 0
    BY <1>1 DEF Working
  <2>5. worker'[t].pc = "check" /\ worker'[t].seen = jobId'
    BY <1>7, <2>4
  <2>6. \A u \in created' : Reported(u)'
    BY <1>1, <2>3, <2>5 DEF Reported
  <2>7. working' = 0 /\ caller' \in {"submit", "create"}
    BY <1>1 DEF Working
  <2> QED
    BY <2>4, <2>6, <2>7 DEF Working
<1>13. Written1'
  BY <1>1 DEF Written1
<1> QED
  BY <1>10, <1>11, <1>12, <1>13

LEMMA SubmitInv == ASSUME GInv, G!Submit PROVE GInv'
<1> USE DEF GInv
<1>1. /\ caller = "submit" /\ caller' = "wait" /\ argument' = call /\ working' = nthreads
      /\ jobId' = jobId + 1 /\ gasleep' = {}
      /\ UNCHANGED <<pool, want, call, wrote, stray, created, nthreads, gstop, worker, resting>>
  BY DEF G!Submit
<1>2. GemvTypes'
  BY <1>1 DEF GemvTypes
<1>3. Team'
  BY <1>1 DEF Team
<1>4. jobId \in Nat /\ created \subseteq G!Tids /\ \A t \in G!Tids : worker[t].seen \in Nat
  BY DEF GemvTypes, WorkerType
<1>5. \A t \in created : worker[t].pc = "check" /\ worker[t].seen = jobId
  BY <1>1 DEF Working, Reported
<1>6. \A t \in created : Untaken(t)' /\ ~Reported(t)' /\ ~Written(t)' /\ worker'[t].pc # "compute"
  BY <1>1, <1>4, <1>5 DEF Untaken, Reported, Written
<1>7. Pending' = created
  BY <1>1, <1>6 DEF Pending
<1>8. Cardinality(created) = nthreads
  <2>1. created = 0 .. nthreads - 1 /\ nthreads \in Nat
    BY <1>1 DEF Team, GemvTypes
  <2> QED
    BY <2>1, Teams
<1>9. Working'
  BY <1>1, <1>6, <1>7, <1>8 DEF Working
<1>10. \A r \in G!Rows : ~Rowed(r)' /\ wrote'[r] = 0
  BY <1>1, <1>6 DEF Rowed, Written1
<1>11. Written1'
  BY <1>1, <1>10 DEF Written1
<1> QED
  BY <1>2, <1>3, <1>9, <1>11

(* All reports are in: the rows that have been written are all of them.     *)
LEMMA AwaitInv == ASSUME GInv, G!Await PROVE GInv'
<1> USE DEF GInv
<1>1. /\ caller = "wait" /\ ~resting
      /\ UNCHANGED <<pool, want, call, wrote, stray, created, nthreads, gstop, jobId, working, argument, worker, gasleep>>
      /\ caller' \in {"wait", "idle"} /\ (caller' = "idle" => ~(working > 0)) /\ resting' \in BOOLEAN
  BY DEF G!Await, G!fields, GemvTypes
<1>2. GemvTypes'
  BY <1>1 DEF GemvTypes
<1>3. Team'
  BY <1>1 DEF Team
<1>4. Pending' = Pending /\ \A r \in G!Rows : Rowed(r)' = Rowed(r)
  BY <1>1 DEF Pending, Reported, Rowed, Written, G!RowsOf
<1>5. CASE caller' = "wait"
  <2>1. Working' /\ Written1'
    BY <1>1, <1>4, <1>5 DEF Working, Written1, Untaken, At, Reported
  <2> QED
    BY <1>2, <1>3, <2>1
<1>6. CASE caller' = "idle"
  <2>1. Pending = {} /\ working = 0
    BY <1>1, <1>6, Teams, FS_EmptySet DEF Working, GemvTypes
  <2>2. \A t \in created : Reported(t)
    BY <2>1 DEF Pending
  <2>3. Working'
    BY <1>1, <1>6, <2>1, <2>2 DEF Working, Reported
  <2>4. \A r \in G!Rows : Rowed(r) <=> r < call.rows
    <3> TAKE r \in G!Rows
    <3>1. \A t \in created : Written(t)
      BY <2>2 DEF Reported, Written
    <3>2. created = 0 .. nthreads - 1 /\ nthreads \in Nat \ {0} /\ call.rows \in 0 .. MaxRows
      BY <1>1 DEF Team, GemvTypes, Calls
    <3> QED
      BY <3>1, <3>2, Shares DEF Rowed
  <2>5. Written1'
    BY <1>1, <1>6, <2>4 DEF Written1
  <2> QED
    BY <1>2, <1>3, <2>3, <2>5
<1> QED
  BY <1>1, <1>5, <1>6

(* A worker that stays where it was.                                        *)
LEMMA SleepInv ==
  ASSUME GInv, \/ \E t \in G!Tids : G!Sleep(t)
               \/ G!SpuriousWakeup
  PROVE  GInv'
<1> USE DEF GInv
<1>1. /\ UNCHANGED <<pool, caller, want, call, wrote, stray, created, nthreads, gstop, jobId, working, argument, worker>>
      /\ resting' \in BOOLEAN /\ gasleep' \subseteq created /\ (gstop => gasleep' = {})
  BY DEF G!Sleep, G!SpuriousWakeup, G!fields, GemvTypes, Team
<1>2. GemvTypes' /\ Team'
  BY <1>1 DEF GemvTypes, Team
<1>3. Pending' = Pending /\ \A r \in G!Rows : Rowed(r)' = Rowed(r)
  BY <1>1 DEF Pending, Reported, Rowed, Written, G!RowsOf
<1>4. Working' /\ Written1'
  BY <1>1, <1>3 DEF Working, Written1, Untaken, At, Reported
<1> QED
  BY <1>2, <1>4

(* A worker that goes on keeps the types and the team.                      *)
LEMMA WorkerGoesOn ==
  ASSUME GInv, NEW t \in G!Tids, worker[t].pc # "none", worker'[t] \in WorkerType, worker'[t].pc # "none",
         worker' = [worker EXCEPT ![t] = worker'[t]],
         UNCHANGED <<pool, caller, want, call, created, nthreads, gstop, jobId, argument, gasleep>>,
         stray' \in BOOLEAN, resting' \in BOOLEAN, working' \in Nat, wrote' \in [G!Rows -> Nat]
  PROVE  GemvTypes' /\ Team' /\ t \in created /\ \A u \in G!Tids \ {t} : worker'[u] = worker[u]
<1> USE DEF GInv
<1>1. t \in created /\ \A u \in G!Tids \ {t} : worker'[u] = worker[u]
  BY DEF Team, GemvTypes
<1>2. worker' \in [G!Tids -> WorkerType]
  BY DEF GemvTypes
<1>3. GemvTypes'
  BY <1>2 DEF GemvTypes
<1>4. Team'
  BY <1>1 DEF Team
<1> QED
  BY <1>1, <1>3, <1>4

LEMMA ExitInv == ASSUME GInv, NEW t \in G!Tids, G!Exit(t) PROVE GInv'
<1> USE DEF GInv
<1>1. /\ worker[t].pc = "check" /\ gstop /\ worker' = [worker EXCEPT ![t].pc = "exited"]
      /\ UNCHANGED <<pool, caller, want, call, wrote, stray, created, nthreads, gstop, jobId, working, argument, gasleep, resting>>
  BY DEF G!Exit, G!fields
<1>2. /\ worker'[t].pc = "exited" /\ worker'[t] \in WorkerType /\ worker' = [worker EXCEPT ![t] = worker'[t]]
  BY <1>1 DEF GemvTypes, WorkerType
<1>3. /\ stray \in BOOLEAN /\ resting \in BOOLEAN /\ working \in Nat /\ wrote \in [G!Rows -> Nat]
  BY DEF GemvTypes
<1>4. GemvTypes' /\ Team' /\ t \in created /\ \A u \in G!Tids \ {t} : worker'[u] = worker[u]
  BY <1>1, <1>2, <1>3, WorkerGoesOn
<1>5. caller = "join" /\ created \subseteq G!Tids
  BY <1>1 DEF Team, GemvTypes
<1>6. Working' /\ Written1'
  BY <1>1, <1>2, <1>4, <1>5 DEF Working, Written1
<1> QED
  BY <1>4, <1>6

(* While the caller waits, a step of one worker leaves the rest as it was.  *)
LEMMA OneWorker ==
  ASSUME GInv, NEW t \in created, \A u \in G!Tids \ {t} : worker'[u] = worker[u], UNCHANGED <<created, jobId>>
  PROVE  /\ \A u \in created \ {t} : /\ Untaken(u)' = Untaken(u) /\ At(u)' = At(u)
                                     /\ Reported(u)' = Reported(u) /\ Written(u)' = Written(u)
         /\ Pending' \ {t} = Pending \ {t}
<1>1. created \subseteq G!Tids
  BY DEF GInv, GemvTypes
<1> QED
  BY <1>1 DEF Untaken, At, Reported, Written, Pending

LEMMA TakeInv == ASSUME GInv, NEW t \in G!Tids, G!Take(t) PROVE GInv'
<1> USE DEF GInv
<1>1. /\ worker[t].pc = "check" /\ ~gstop /\ jobId # worker[t].seen
      /\ worker' = [worker EXCEPT ![t] = [pc |-> "compute", seen |-> jobId, copy |-> argument, nt |-> nthreads]]
      /\ UNCHANGED <<pool, caller, want, call, wrote, stray, created, nthreads, gstop, jobId, working, argument, gasleep, resting>>
  BY DEF G!Take, G!fields
<1>2. /\ worker'[t] = [pc |-> "compute", seen |-> jobId, copy |-> argument, nt |-> nthreads]
      /\ worker'[t] \in WorkerType /\ worker' = [worker EXCEPT ![t] = worker'[t]]
  BY <1>1 DEF GemvTypes, WorkerType
<1>3. /\ stray' \in BOOLEAN /\ resting' \in BOOLEAN /\ working' \in Nat /\ wrote' \in [G!Rows -> Nat]
  BY <1>1 DEF GemvTypes
<1>4. GemvTypes' /\ Team' /\ t \in created /\ \A u \in G!Tids \ {t} : worker'[u] = worker[u]
  <2>1. /\ worker[t].pc # "none" /\ worker'[t].pc # "none"
        /\ UNCHANGED <<pool, caller, want, call, created, nthreads, gstop, jobId, argument, gasleep>>
    BY <1>1, <1>2
  <2> QED
    BY <1>2, <1>3, <2>1, WorkerGoesOn
<1>5. caller = "wait" /\ argument = call
  BY <1>1, <1>4 DEF Working, Team, Reported
<1>6. Pending' = Pending /\ t \in Pending
  BY <1>1, <1>2, <1>4, OneWorker DEF Pending, Reported
<1>7. ~Written(t) /\ ~Written(t)' /\ At(t)'
  BY <1>1, <1>2 DEF Written, At
<1>8. \A r \in G!Rows : Rowed(r)' = Rowed(r)
  BY <1>1, <1>4, <1>7, OneWorker DEF Rowed, G!RowsOf
<1>9. Working'
  <2>1. \A u \in created : Untaken(u)' \/ At(u)' \/ Reported(u)'
    BY <1>4, <1>5, <1>7, OneWorker, <1>1 DEF Working
  <2>2. \A u \in created : worker'[u].pc = "compute" => worker'[u].copy = call /\ worker'[u].nt = nthreads
    BY <1>2, <1>4, <1>5 DEF Working, GemvTypes
  <2> QED
    BY <1>1, <1>5, <1>6, <2>1, <2>2 DEF Working
<1>10. Written1'
  BY <1>1, <1>5, <1>8 DEF Written1
<1> QED
  BY <1>4, <1>9, <1>10

(* The rows a worker writes are its own, and nobody has written them.       *)
LEMMA ComputeInv == ASSUME GInv, NEW t \in G!Tids, G!Compute(t) PROVE GInv'
<1> USE DEF GInv
<1> DEFINE mine == G!RowsOf(t, worker[t].nt, worker[t].copy.rows)
<1>1. /\ worker[t].pc = "compute"
      /\ wrote' = [r \in G!Rows |-> IF r \in mine THEN wrote[r] + 1 ELSE wrote[r]]
      /\ stray' = (stray \/ caller # "wait" \/ worker[t].copy # call)
      /\ worker' = [worker EXCEPT ![t].pc = "report"]
      /\ UNCHANGED <<pool, caller, want, call, created, nthreads, gstop, jobId, working, argument, gasleep, resting>>
  BY DEF G!Compute, G!fields
<1>2. /\ worker'[t].pc = "report" /\ worker'[t].seen = worker[t].seen
      /\ worker'[t] \in WorkerType /\ worker' = [worker EXCEPT ![t] = worker'[t]]
  BY <1>1 DEF GemvTypes, WorkerType
<1>3. /\ stray' \in BOOLEAN /\ resting' \in BOOLEAN /\ working' \in Nat /\ wrote' \in [G!Rows -> Nat]
  BY <1>1 DEF GemvTypes
<1>4. GemvTypes' /\ Team' /\ t \in created /\ \A u \in G!Tids \ {t} : worker'[u] = worker[u]
  <2>1. /\ worker[t].pc # "none" /\ worker'[t].pc # "none"
        /\ UNCHANGED <<pool, caller, want, call, created, nthreads, gstop, jobId, argument, gasleep>>
    BY <1>1, <1>2
  <2> QED
    BY <1>2, <1>3, <2>1, WorkerGoesOn
<1>5. caller = "wait"
  BY <1>1, <1>4 DEF Working, Reported
<1>6. /\ worker[t].copy = call /\ worker[t].nt = nthreads /\ worker[t].seen = jobId
  BY <1>1, <1>4, <1>5 DEF Working, Untaken, At, Reported
<1>7. ~Written(t) /\ Written(t)' /\ At(t)' /\ ~Reported(t) /\ ~Reported(t)'
  BY <1>1, <1>2, <1>6 DEF Written, At, Reported
<1>8. Pending' = Pending
  BY <1>1, <1>4, <1>7, OneWorker DEF Pending
<1>9. Working'
  <2>1. \A u \in created : Untaken(u)' \/ At(u)' \/ Reported(u)'
    BY <1>1, <1>4, <1>5, <1>7, OneWorker DEF Working
  <2>2. \A u \in created : worker'[u].pc = "compute" => worker'[u].copy = call /\ worker'[u].nt = nthreads
    BY <1>2, <1>4, <1>5 DEF Working, GemvTypes
  <2> QED
    BY <1>1, <1>5, <1>8, <2>1, <2>2 DEF Working
<1>10. \A r \in G!Rows : wrote'[r] = IF Rowed(r)' THEN 1 ELSE 0
  <2> TAKE r \in G!Rows
  <2>1. mine = G!RowsOf(t, nthreads, call.rows)
    BY <1>6
  <2>2. Rowed(r)' <=> Rowed(r) \/ r \in mine
    BY <1>1, <1>4, <1>7, <2>1, OneWorker DEF Rowed, G!RowsOf
  <2>3. ~(Rowed(r) /\ r \in mine)
    <3>1. created = 0 .. nthreads - 1 /\ nthreads \in Nat \ {0} /\ call.rows \in 0 .. MaxRows
      BY <1>5 DEF Team, GemvTypes, Calls
    <3> QED
      BY <1>4, <1>7, <2>1, <3>1, Shares DEF Rowed
  <2>4. wrote[r] = (IF Rowed(r) THEN 1 ELSE 0) /\ wrote'[r] = (IF r \in mine THEN wrote[r] + 1 ELSE wrote[r])
    BY <1>1, <1>5 DEF Written1
  <2> QED
    BY <2>2, <2>3, <2>4
<1>11. Written1'
  BY <1>1, <1>5, <1>6, <1>10 DEF Written1
<1> QED
  BY <1>4, <1>9, <1>11

(* A report takes the worker out of those the caller waits for.             *)
LEMMA ReportInv == ASSUME GInv, NEW t \in G!Tids, G!Report(t) PROVE GInv'
<1> USE DEF GInv
<1>1. /\ worker[t].pc = "report" /\ working' = working - 1 /\ resting' = (resting /\ working' # 0)
      /\ worker' = [worker EXCEPT ![t].pc = "check"]
      /\ UNCHANGED <<pool, caller, want, call, wrote, stray, created, nthreads, gstop, jobId, argument, gasleep>>
  BY DEF G!Report
<1>2. /\ worker'[t].pc = "check" /\ worker'[t].seen = worker[t].seen
      /\ worker'[t] \in WorkerType /\ worker' = [worker EXCEPT ![t] = worker'[t]]
  BY <1>1 DEF GemvTypes, WorkerType
<1>3. t \in created
  BY <1>1 DEF Team
<1>4. caller = "wait"
  BY <1>1, <1>3 DEF Working, Reported
<1>5. worker[t].seen = jobId /\ working = Cardinality(Pending)
  BY <1>1, <1>3, <1>4 DEF Working, Untaken, At, Reported
<1>6. t \in Pending
  BY <1>1, <1>3 DEF Pending, Reported
<1>7. Cardinality(Pending \ {t}) = working - 1 /\ working - 1 \in Nat
  <2>1. IsFiniteSet(Pending) /\ IsFiniteSet(Pending \ {t}) /\ Cardinality(Pending \ {t}) = Cardinality(Pending) - 1
    BY <1>6, Teams, FS_RemoveElement
  <2> QED
    BY <1>5, <2>1, FS_CardinalityType
<1>8. /\ stray' \in BOOLEAN /\ resting' \in BOOLEAN /\ working' \in Nat /\ wrote' \in [G!Rows -> Nat]
  BY <1>1, <1>7 DEF GemvTypes
<1>9. GemvTypes' /\ Team' /\ \A u \in G!Tids \ {t} : worker'[u] = worker[u]
  BY <1>1, <1>2, <1>8, WorkerGoesOn
<1>10. Written(t) /\ Written(t)' /\ Reported(t)'
  BY <1>1, <1>2, <1>5 DEF Written, Reported
<1>11. Pending' = Pending \ {t}
  BY <1>1, <1>3, <1>9, <1>10, OneWorker DEF Pending
<1>12. \A r \in G!Rows : Rowed(r)' = Rowed(r)
  BY <1>1, <1>3, <1>9, <1>10, OneWorker DEF Rowed, G!RowsOf
<1>13. Working'
  <2>1. \A u \in created : Untaken(u)' \/ At(u)' \/ Reported(u)'
    BY <1>1, <1>3, <1>4, <1>9, <1>10, OneWorker DEF Working
  <2>2. \A u \in created : worker'[u].pc = "compute" => worker'[u].copy = call /\ worker'[u].nt = nthreads
    BY <1>2, <1>4, <1>9 DEF Working, GemvTypes
  <2> QED
    BY <1>1, <1>4, <1>7, <1>11, <2>1, <2>2 DEF Working
<1>14. Written1'
  BY <1>1, <1>4, <1>12 DEF Written1
<1> QED
  BY <1>9, <1>13, <1>14

LEMMA GemvInductive == GInv /\ [G!Next]_(G!vars) => GInv'
<1>1. GInv /\ UNCHANGED G!vars => GInv'
  <2> SUFFICES ASSUME GInv, UNCHANGED G!vars PROVE GInv'
    OBVIOUS
  <2>1. /\ UNCHANGED <<pool, caller, want, call, wrote, stray, created, nthreads, gstop, jobId, working>>
        /\ UNCHANGED <<argument, worker, gasleep, resting>>
    BY DEF G!vars, G!fields
  <2>2. Pending' = Pending /\ \A r \in G!Rows : Rowed(r)' = Rowed(r)
    BY <2>1 DEF Pending, Reported, Rowed, Written, G!RowsOf
  <2>3. GemvTypes' /\ Team'
    BY <2>1 DEF GInv, GemvTypes, Team
  <2>4. Working' /\ Written1'
    BY <2>1, <2>2 DEF GInv, Working, Written1, Untaken, At, Reported
  <2> QED
    BY <2>3, <2>4 DEF GInv
<1> QED
  BY <1>1, GemvCallInv, DestroyInv, JoinInv, NoPoolInv, CreateThreadInv, SubmitInv, AwaitInv, SleepInv, ExitInv,
     TakeInv, ComputeInv, ReportInv DEF G!Next, G!CallerStep, G!WorkerStep

LEMMA GemvPromised == GInv => G!TypeOK /\ G!RowsWrittenOnce
<1> SUFFICES ASSUME GInv PROVE G!TypeOK /\ G!RowsWrittenOnce
  OBVIOUS
<1> USE DEF GInv
<1>1. G!RowsWrittenOnce
  BY DEF Written1, G!RowsWrittenOnce
<1>2. working <= MaxThreads
  <2>1. CASE caller = "wait"
    <3>1. created = 0 .. nthreads - 1 /\ nthreads \in Nat /\ nthreads <= MaxThreads
      BY <2>1, GemvAssumption DEF Team, GemvTypes, G!GemvAssumption
    <3>2. IsFiniteSet(created) /\ Cardinality(created) = nthreads
      BY <3>1, Teams
    <3>3. Cardinality(Pending) <= nthreads
      BY <3>2, FS_Subset DEF Pending
    <3> QED
      BY <2>1, <3>1, <3>3, Teams, GemvAssumption DEF Working, GemvTypes, G!GemvAssumption
  <2>2. CASE caller # "wait"
    BY <2>2, GemvAssumption DEF Working, G!GemvAssumption
  <2> QED
    BY <2>1, <2>2
<1>3. working \in 0 .. MaxThreads
  BY <1>2, GemvAssumption DEF GemvTypes, G!GemvAssumption
<1>4. \A t \in G!Tids : worker[t].pc \in {"none", "check", "compute", "report", "exited"}
  BY DEF GemvTypes, WorkerType
<1>5. G!TypeOK
  BY <1>3, <1>4 DEF GemvTypes, G!TypeOK, Calls
<1> QED
  BY <1>1, <1>5

(* For any number of threads, rows and calls, both ways to cut the rows and *)
(* any change of the number of threads from call to call: when a product    *)
(* has returned each of its rows has been written once (q4_pool_gemv,       *)
(* bf16_pool_gemv), and no worker writes for a call that is over.           *)
THEOREM RowsOnce == G!Spec => []RowsWrittenOnce
<1>1. GInv => RowsWrittenOnce
  BY GemvPromised DEF RowsWrittenOnce
<1> QED
  BY <1>1, GemvBegins, GemvInductive, PTL DEF G!Spec

(* The same and what was proved of the work queue, in the specification the *)
(* runs explore.                                                            *)
THEOREM PoolsSafe ==
  PoolsSpec => [](NoLostWakeup /\ OnePlace /\ FreeDropsNothing /\ RowsWrittenOnce)
<1>1. PoolsInit => IInv /\ GInv
  BY InitIInv, GemvBegins DEF PoolsInit
<1>2. IInv /\ [PoolsNext]_both => IInv'
  BY IInvStep DEF PoolsNext, both, GemvAtRest, QueueAtRest
<1>3. GInv /\ [PoolsNext]_both => GInv'
  <2>1. UNCHANGED gemv => UNCHANGED G!vars
    BY DEF gemv, G!vars, G!fields
  <2> QED
    BY <2>1, GemvInductive DEF PoolsNext, both, GemvAtRest, QueueAtRest
<1>4. IInv => NoLostWakeup /\ OnePlace /\ FreeDropsNothing
  BY Drained DEF IInv
<1>5. GInv => RowsWrittenOnce
  BY GemvPromised DEF RowsWrittenOnce
<1> QED
  BY <1>1, <1>2, <1>3, <1>4, <1>5, PTL DEF PoolsSpec
=============================================================================
