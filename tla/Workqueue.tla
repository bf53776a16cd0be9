----------------------------- MODULE Workqueue ------------------------------
(***************************************************************************)
(* The fixed-size thread pool of the runtime (rt_workqueue.c): worker        *)
(* threads that sleep on a condition variable, callers that post jobs, and  *)
(* the owner that creates the pool and later frees it.                      *)
(*                                                                         *)
(* Every critical section under wq->mu is one step.  tua_cond_wait is two:   *)
(* the worker joins `asleep` and gives the mutex up, and it looks at the    *)
(* predicate again only after a signal, a broadcast or a spurious wakeup    *)
(* has taken it out of `asleep`.  A job is the work item that one call of   *)
(* tua_workqueue_post allocates, so every job is posted once.               *)
(***************************************************************************)
EXTENDS Naturals, Sequences, FiniteSets

CONSTANTS Workers,  \* the threads tua_workqueue_create starts
          Jobs,     \* the work items callers may post
          NoJob     \* a worker that holds no item

ASSUME PoolAssumption == /\ Workers # {} \* threads <= 0 is replaced by 1
                         /\ NoJob \notin Jobs

VARIABLES owner,    \* where the thread that creates and frees the pool stands
          pc,       \* pc[w]: where worker w stands in tua_worker_main
          holding,  \* holding[w]: the item w has taken off the list
          asleep,   \* the workers inside tua_cond_wait
          queue,    \* the list from wq->head to wq->tail
          stop,     \* wq->stop
          answer,   \* answer[j]: what tua_workqueue_post returned for job j
          finished  \* the jobs whose function has returned

vars == <<owner, pc, holding, asleep, queue, stop, answer, finished>>

Started == {w \in Workers : pc[w] # "unborn"}
Queued == {queue[k] : k \in DOMAIN queue}
Held == {holding[w] : w \in Workers} \ {NoJob}
Accepted == {j \in Jobs : answer[j] = "ok"}
Exists == owner \in {"open", "joining", "joined"}

Init == /\ owner = "creating"
        /\ pc = [w \in Workers |-> "unborn"]
        /\ holding = [w \in Workers |-> NoJob]
        /\ asleep = {}
        /\ queue = <<>>
        /\ stop = FALSE
        /\ answer = [j \in Jobs |-> "none"]
        /\ finished = {}
-----------------------------------------------------------------------------
(* tua_workqueue_create: the loop over tua_thread_create.  A failure sets   *)
(* nthreads to the number started so far and frees the pool.                *)
StartWorker(w) == /\ owner = "creating"
                  /\ pc[w] = "unborn"
                  /\ pc' = [pc EXCEPT ![w] = "check"]
                  /\ UNCHANGED <<owner, holding, asleep, queue, stop, answer, finished>>

CreateDone == /\ owner = "creating"
              /\ owner' = IF Started = Workers THEN "open" ELSE "failing"
              /\ UNCHANGED <<pc, holding, asleep, queue, stop, answer, finished>>
-----------------------------------------------------------------------------
(* tua_cond_signal wakes one sleeper, when there is one.                    *)
SignalNone == asleep' = asleep

Signal == IF asleep = {} THEN UNCHANGED asleep
          ELSE \E w \in asleep : asleep' = asleep \ {w}

(* tua_workqueue_post.  Any thread may call it until the pool is gone, the  *)
(* workers' own jobs included.                                              *)
PostRefused(j, err) == /\ answer' = [answer EXCEPT ![j] = err]
                       /\ UNCHANGED <<owner, pc, holding, asleep, queue, stop, finished>>

PostAccepted(j) == /\ ~stop
                   /\ queue' = Append(queue, j)
                   /\ answer' = [answer EXCEPT ![j] = "ok"]
                   /\ Signal
                   /\ UNCHANGED <<owner, pc, holding, stop, finished>>

Post(j) == /\ Exists
           /\ answer[j] = "none"
           /\ \/ PostRefused(j, "nomem")
              \/ stop /\ PostRefused(j, "canceled")
              \/ PostAccepted(j)
-----------------------------------------------------------------------------
(* tua_worker_main                                                          *)
Awake(w) == w \notin asleep

Sleep(w) == /\ pc[w] = "check" /\ Awake(w)
            /\ ~stop
            /\ queue = <<>>
            /\ asleep' = asleep \cup {w}
            /\ UNCHANGED <<owner, pc, holding, queue, stop, answer, finished>>

SpuriousWakeup(w) == /\ w \in asleep
                     /\ asleep' = asleep \ {w}
                     /\ UNCHANGED <<owner, pc, holding, queue, stop, answer, finished>>

TakeKeeping(w) == /\ pc[w] = "check" /\ Awake(w)
                  /\ queue # <<>>
                  /\ holding' = [holding EXCEPT ![w] = Head(queue)]
                  /\ pc' = [pc EXCEPT ![w] = "run"]
                  /\ UNCHANGED <<owner, asleep, queue, stop, answer, finished>>

Take(w) == /\ pc[w] = "check" /\ Awake(w)
           /\ queue # <<>>
           /\ holding' = [holding EXCEPT ![w] = Head(queue)]
           /\ queue' = Tail(queue)
           /\ pc' = [pc EXCEPT ![w] = "run"]
           /\ UNCHANGED <<owner, asleep, stop, answer, finished>>

RunTwice(w) == /\ pc[w] = "run"
               /\ finished' = finished \cup {holding[w]}
               /\ holding' = [holding EXCEPT ![w] = NoJob]
               /\ UNCHANGED <<owner, pc, asleep, queue, stop, answer>>

RunJob(w) == /\ pc[w] = "run"
             /\ finished' = finished \cup {holding[w]}
             /\ holding' = [holding EXCEPT ![w] = NoJob]
             /\ pc' = [pc EXCEPT ![w] = "check"]
             /\ UNCHANGED <<owner, asleep, queue, stop, answer>>

ExitOnStop(w) == /\ pc[w] = "check" /\ Awake(w)
                 /\ stop
                 /\ pc' = [pc EXCEPT ![w] = "exited"]
                 /\ UNCHANGED <<owner, holding, asleep, queue, stop, answer, finished>>

Exit(w) == /\ pc[w] = "check" /\ Awake(w)
           /\ stop
           /\ queue = <<>>
           /\ pc' = [pc EXCEPT ![w] = "exited"]
           /\ UNCHANGED <<owner, holding, asleep, queue, stop, answer, finished>>

WorkerStep(w) == Sleep(w) \/ Take(w) \/ RunJob(w) \/ Exit(w)
-----------------------------------------------------------------------------
(* tua_workqueue_free, called by the owner or by a create that failed: stop *)
(* and broadcast, join the started threads, free what is left on the list.  *)
FreeSignalOne == /\ owner \in {"open", "failing"}
                 /\ owner' = "joining"
                 /\ stop' = TRUE
                 /\ Signal
                 /\ UNCHANGED <<pc, holding, queue, answer, finished>>

FreeStop == /\ owner \in {"open", "failing"}
            /\ owner' = "joining"
            /\ stop' = TRUE
            /\ asleep' = {}
            /\ UNCHANGED <<pc, holding, queue, answer, finished>>

\* Mutant of FreeJoin: a create that fails leaves nthreads at 0.
FreeJoinNone == /\ owner = "joining"
                /\ Started = Workers => \A w \in Workers : pc[w] = "exited"
                /\ owner' = "joined"
                /\ UNCHANGED <<pc, holding, asleep, queue, stop, answer, finished>>

FreeJoin == /\ owner = "joining"
            /\ \A w \in Started : pc[w] = "exited"
            /\ owner' = "joined"
            /\ UNCHANGED <<pc, holding, asleep, queue, stop, answer, finished>>

FreeRest == /\ owner = "joined"
            /\ owner' = "freed"
            /\ queue' = <<>>
            /\ UNCHANGED <<pc, holding, asleep, stop, answer, finished>>

OwnerStep == CreateDone \/ FreeJoin \/ FreeRest
-----------------------------------------------------------------------------
Next == \/ \E j \in Jobs : Post(j)
        \/ \E w \in Workers : StartWorker(w) \/ SpuriousWakeup(w) \/ WorkerStep(w)
        \/ OwnerStep
        \/ FreeStop

(* A thread that can run does run and a job returns; nothing makes a caller *)
(* post or the owner free the pool.  A failed create does call free.        *)
Fairness == /\ \A w \in Workers : WF_vars(WorkerStep(w))
            /\ WF_vars(OwnerStep)
            /\ WF_vars(owner = "failing" /\ FreeStop)

Spec == Init /\ [][Next]_vars /\ Fairness
-----------------------------------------------------------------------------
TypeOK ==
  /\ owner \in {"creating", "open", "failing", "joining", "joined", "freed"}
  /\ pc \in [Workers -> {"unborn", "check", "run", "exited"}]
  /\ holding \in [Workers -> Jobs \cup {NoJob}]
  /\ asleep \subseteq Workers
  /\ queue \in Seq(Jobs)
  /\ stop \in BOOLEAN
  /\ answer \in [Jobs -> {"none", "ok", "nomem", "canceled"}]
  /\ finished \subseteq Jobs

(* No wakeup is lost: while the list has an item some worker is awake and   *)
(* on its way to it, and from the moment stop is set nobody sleeps.  A post *)
(* signals once, a spurious wakeup and a busy worker may absorb signals.    *)
NoLostWakeup == /\ queue # <<>> => \E w \in Started : Awake(w) /\ pc[w] # "exited"
                /\ stop => asleep = {}

(* A posted job is in one place: an accepted job is on the list once, or    *)
(* with one worker, or finished; a refused one is nowhere.                  *)
OnePlace ==
  /\ Accepted = Queued \cup Held \cup finished
  /\ Queued \cap Held = {} /\ Queued \cap finished = {} /\ Held \cap finished = {}
  /\ \A k, l \in DOMAIN queue : queue[k] = queue[l] => k = l
  /\ \A v, w \in Workers : holding[v] = holding[w] /\ holding[v] # NoJob => v = w

(* Freeing the pool drops no accepted job: once the workers are joined      *)
(* every job post answered TUA_OK has run, so the loop of                   *)
(* tua_workqueue_free that frees leftover items finds none.  And no thread  *)
(* that was started is left to touch the pool, nor an item on its list,     *)
(* also when tua_workqueue_create frees a pool it could not fill.           *)
FreeDropsNothing == owner \in {"joined", "freed"} =>
  /\ Accepted \subseteq finished
  /\ queue = <<>> /\ \A w \in Started : pc[w] = "exited"

-----------------------------------------------------------------------------
Pool == INSTANCE WorkPool WITH
          Jobs <- Jobs,
          backlog <- queue,
          running <- Held,
          finished <- finished,
          refused <- {j \in Jobs : answer[j] \in {"nomem", "canceled"}},
          phase <- IF owner = "freed" THEN "retired" ELSE IF stop THEN "closed" ELSE "open"

(* The threads, the list and the condition variable implement the abstract  *)
(* pool: FIFO start, nothing accepted after close, nothing lost.            *)
ImplementsPool == Pool!Spec
=============================================================================
