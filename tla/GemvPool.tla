------------------------------ MODULE GemvPool ------------------------------
(***************************************************************************)
(* The thread pools of the llm package's matrix-vector products             *)
(* (tua_llm_q4.c, tua_llm.c): one caller that shares the rows of Y out      *)
(* among workers, resizes the pool when the number of threads it is told    *)
(* has changed, and waits until every worker has reported.                  *)
(*                                                                         *)
(* A critical section under the pool's mutex is one step; a wait on a       *)
(* condition variable is two.  A call's arguments are the number of rows    *)
(* and the call's own number, which stands for A, X and Y.  The two pools   *)
(* differ in how they cut the rows and in what they reset: `pool` says      *)
(* which one a behaviour is about.  One thread makes all calls, as the      *)
(* interpreter loop of packages/llm does: neither pool guards against two.  *)
(***************************************************************************)
EXTENDS Naturals, FiniteSets

CONSTANTS MaxThreads, \* the largest thread count callers ask for (bound)
          MaxRows,    \* the largest matrix (bound)
          FewRows,    \* a matrix with fewer rows is computed by the caller
          MaxCalls    \* calls (bound)

(* A definition, for the module that instantiates this one to assume.       *)
GemvAssumption == MaxThreads \in Nat \ {0} /\ {MaxRows, FewRows, MaxCalls} \subseteq Nat

Pools == {"q4", "bf16"}
Tids  == 0 .. MaxThreads - 1
Rows  == 0 .. MaxRows - 1

VARIABLES pool,     \* which of the pools this is
          caller,   \* where the calling thread stands
          want,     \* the thread count of the current call
          call,     \* the number of the current call, and how many rows it has
          wrote,    \* wrote[r]: how often this call has written row r of Y
          stray,    \* a row was written that is not the current call's
          created,  \* the workers pthread_create has started
          nthreads, \* pool.nthreads, 0 when pool.threads is NULL
          stop, jobId, working, \* the fields of the pool
          argument, \* the call in pool.A, X, Y and m
          worker,   \* worker[t]: where worker t stands, what it has seen and copied
          asleep,   \* the workers inside pthread_cond_wait(cv_job)
          resting   \* the caller is inside pthread_cond_wait(cv_done)

fields == <<nthreads, stop, jobId, working, argument>>
vars == <<pool, caller, want, call, wrote, stray, created, fields, worker, asleep, resting>>

NoCall == [id |-> 0, rows |-> 0]
Fresh  == [pc |-> "none", seen |-> 0, copy |-> NoCall, nt |-> 0]

Init ==
  /\ pool \in Pools
  /\ caller = "idle" /\ want = 1 /\ call = NoCall
  /\ wrote = [r \in Rows |-> 0] /\ stray = FALSE
  /\ created = {} /\ nthreads = 0 /\ stop = FALSE /\ jobId = 0 /\ working = 0 /\ argument = NoCall
  /\ worker = [t \in Tids |-> Fresh] /\ asleep = {} /\ resting = FALSE
-----------------------------------------------------------------------------
(* The caller.                                                              *)

Inline == caller' = "idle" /\ wrote' = [r \in Rows |-> IF r < call'.rows THEN 1 ELSE 0]

\* A product begins: with one thread or few rows it needs no pool, though the
\* pool of bf16 is not asked for then either.
Gemv(t, m) ==
  /\ caller = "idle" /\ call.id < MaxCalls
  /\ want' = t /\ call' = [id |-> call.id + 1, rows |-> m]
  /\ IF t <= 1 \/ m < FewRows THEN Inline
     ELSE /\ wrote' = [r \in Rows |-> 0]
          /\ caller' = IF nthreads = t THEN "submit" ELSE IF nthreads > 0 THEN "destroy" ELSE "create"
  /\ UNCHANGED <<pool, stray, created, fields, worker, asleep, resting>>

Destroy ==
  /\ caller = "destroy" /\ caller' = "join"
  /\ stop' = TRUE /\ jobId' = (IF pool = "q4" THEN jobId + 1 ELSE jobId)
  /\ asleep' = {}
  /\ UNCHANGED <<pool, want, call, wrote, stray, created, nthreads, working, argument, worker, resting>>

Join ==
  /\ caller = "join" /\ \A t \in created : worker[t].pc = "exited"
  /\ caller' = "create" /\ created' = {}
  /\ nthreads' = 0 /\ stop' = FALSE
  /\ working' = (IF pool = "bf16" THEN 0 ELSE working)
  /\ jobId' = (IF pool = "bf16" THEN 0 ELSE jobId)
  /\ worker' = [t \in Tids |-> Fresh]
  /\ UNCHANGED <<pool, want, call, wrote, stray, argument, asleep, resting>>

\* calloc of the thread array fails: the caller computes all rows.
NoPool ==
  /\ caller = "create" /\ created = {} /\ nthreads = 0
  /\ wrote' = [r \in Rows |-> IF r < call.rows THEN 1 ELSE 0] /\ caller' = "idle"
  /\ UNCHANGED <<pool, want, call, stray, created, fields, worker, asleep, resting>>

\* Mutant of CreateThread: a new pool goes on with the old job number.
CreateThreadOldId ==
  /\ caller = "create" /\ Cardinality(created) < want
  /\ nthreads' = want /\ stop' = FALSE
  /\ LET t == Cardinality(created) IN
       /\ created' = created \cup {t}
       /\ worker' = [worker EXCEPT ![t].pc = "check"]
       /\ caller' = IF t + 1 = want THEN "submit" ELSE "create"
  /\ UNCHANGED <<pool, want, call, wrote, stray, jobId, working, argument, asleep, resting>>

\* One turn of the loop over pthread_create.  (When it fails the pools join
\* threads that were never created, which is undefined: see the README.)
CreateThread ==
  /\ caller = "create" /\ Cardinality(created) < want
  /\ nthreads' = want /\ stop' = FALSE /\ jobId' = (IF created = {} THEN 0 ELSE jobId)
  /\ LET t == Cardinality(created) IN
       /\ created' = created \cup {t}
       /\ worker' = [worker EXCEPT ![t].pc = "check"]
       /\ caller' = IF t + 1 = want THEN "submit" ELSE "create"
  /\ UNCHANGED <<pool, want, call, wrote, stray, working, argument, asleep, resting>>

\* Mutant of Submit: pthread_cond_signal, which wakes one worker.
SubmitWakesOne ==
  /\ caller = "submit" /\ caller' = "wait"
  /\ argument' = call /\ working' = nthreads /\ jobId' = jobId + 1
  /\ IF asleep = {} THEN UNCHANGED asleep ELSE \E t \in asleep : asleep' = asleep \ {t}
  /\ UNCHANGED <<pool, want, call, wrote, stray, created, nthreads, stop, worker, resting>>

Submit ==
  /\ caller = "submit" /\ caller' = "wait"
  /\ argument' = call /\ working' = nthreads /\ jobId' = jobId + 1
  /\ asleep' = {}
  /\ UNCHANGED <<pool, want, call, wrote, stray, created, nthreads, stop, worker, resting>>

Await ==
  /\ caller = "wait" /\ ~resting
  /\ IF working > 0 THEN resting' = TRUE /\ UNCHANGED caller
     ELSE caller' = "idle" /\ UNCHANGED resting
  /\ UNCHANGED <<pool, want, call, wrote, stray, created, fields, worker, asleep>>

CallerStep == Destroy \/ Join \/ NoPool \/ CreateThread \/ Submit \/ Await
-----------------------------------------------------------------------------
(* The workers.                                                             *)

Sleep(t) ==
  /\ worker[t].pc = "check" /\ t \notin asleep
  /\ ~stop /\ jobId = worker[t].seen
  /\ asleep' = asleep \cup {t}
  /\ UNCHANGED <<pool, caller, want, call, wrote, stray, created, fields, worker, resting>>

Exit(t) ==
  /\ worker[t].pc = "check" /\ t \notin asleep
  /\ stop
  /\ worker' = [worker EXCEPT ![t].pc = "exited"]
  /\ UNCHANGED <<pool, caller, want, call, wrote, stray, created, fields, asleep, resting>>

Take(t) ==
  /\ worker[t].pc = "check" /\ t \notin asleep
  /\ ~stop /\ jobId # worker[t].seen
  /\ worker' = [worker EXCEPT ![t] = [pc |-> "compute", seen |-> jobId, copy |-> argument, nt |-> nthreads]]
  /\ UNCHANGED <<pool, caller, want, call, wrote, stray, created, fields, asleep, resting>>

Least(a, b) == IF a < b THEN a ELSE b

\* The rows of worker t among nt, of m: chunks rounded up, the last ones cut
\* off; or quotients.
RowsOf(t, nt, m) ==
  LET chunk == (m + nt - 1) \div nt
  IN  IF pool = "q4" THEN {r \in Rows : t * chunk <= r /\ r < Least((t + 1) * chunk, m)}
      ELSE {r \in Rows : (m * t) \div nt <= r /\ r < (m * (t + 1)) \div nt}

Compute(t) ==
  /\ worker[t].pc = "compute"
  /\ LET c == worker[t].copy
         mine == RowsOf(t, worker[t].nt, c.rows)
     IN  /\ wrote' = [r \in Rows |-> IF r \in mine THEN wrote[r] + 1 ELSE wrote[r]]
         /\ stray' = (stray \/ caller # "wait" \/ c # call)
  /\ worker' = [worker EXCEPT ![t].pc = "report"]
  /\ UNCHANGED <<pool, caller, want, call, created, fields, asleep, resting>>

\* `working == 0` for q4 and `working <= 0` for bf16.
Report(t) ==
  /\ worker[t].pc = "report"
  /\ working' = working - 1
  /\ resting' = (resting /\ working' # 0)
  /\ worker' = [worker EXCEPT ![t].pc = "check"]
  /\ UNCHANGED <<pool, caller, want, call, wrote, stray, created, nthreads, stop, jobId, argument, asleep>>

WorkerStep(t) == Sleep(t) \/ Exit(t) \/ Take(t) \/ Compute(t) \/ Report(t)

SpuriousWakeup ==
  /\ \/ \E t \in asleep : asleep' = asleep \ {t} /\ UNCHANGED resting
     \/ resting /\ resting' = FALSE /\ UNCHANGED asleep
  /\ UNCHANGED <<pool, caller, want, call, wrote, stray, created, fields, worker>>
-----------------------------------------------------------------------------
Next == \/ \E t \in 1 .. MaxThreads, m \in 1 .. MaxRows : Gemv(t, m)
        \/ CallerStep
        \/ \E t \in Tids : WorkerStep(t)
        \/ SpuriousWakeup

(* Threads run.                                                             *)
Fairness == WF_vars(CallerStep) /\ \A t \in Tids : WF_vars(WorkerStep(t))

Spec == Init /\ [][Next]_vars /\ Fairness
-----------------------------------------------------------------------------
TypeOK ==
  /\ pool \in Pools /\ want \in 1 .. MaxThreads /\ nthreads \in 0 .. MaxThreads
  /\ caller \in {"idle", "destroy", "join", "create", "submit", "wait"}
  /\ {call, argument} \subseteq [id : 0 .. MaxCalls, rows : 0 .. MaxRows]
  /\ created \subseteq Tids /\ asleep \subseteq created /\ working \in 0 .. MaxThreads
  /\ \A t \in Tids : worker[t].pc \in {"none", "check", "compute", "report", "exited"}

(* When a product has returned, every row of Y has been written once, and   *)
(* nobody writes rows of a call that has returned, or reads its X and A.    *)
RowsWrittenOnce ==
  /\ caller = "idle" /\ call.id > 0 => \A r \in Rows : wrote[r] = (IF r < call.rows THEN 1 ELSE 0)
  /\ ~stray

(* A product returns: whatever the number of threads and of rows, however   *)
(* often the number of threads changes and however late a worker starts, no *)
(* worker sleeps through its call and no report is lost.                    *)
GemvCompletes == caller # "idle" ~> caller = "idle"
=============================================================================
