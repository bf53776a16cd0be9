------------------------------ MODULE MCPools -------------------------------
(* Workqueue and GemvPool for TLC.  The two kinds of pool share nothing, so   *)
(* one is explored while the other has not begun.                             *)
EXTENDS Workqueue, TLC

CONSTANTS MaxThreads, MaxRows, FewRows, MaxCalls

VARIABLES pool, caller, want, call, wrote, stray, created, nthreads, gstop, jobId, working,
          argument, worker, gasleep, resting

G == INSTANCE GemvPool WITH stop <- gstop, asleep <- gasleep

ASSUME GemvAssumption == G!GemvAssumption

gemv == <<pool, caller, want, call, wrote, stray, created, nthreads, gstop, jobId, working,
          argument, worker, gasleep, resting>>
both == <<vars, gemv>>

GemvAtRest  == G!Init /\ UNCHANGED gemv
QueueAtRest == Init /\ UNCHANGED vars

PoolsInit == Init /\ G!Init
PoolsNext == (GemvAtRest /\ Next) \/ (QueueAtRest /\ G!Next)

PoolsFairness ==
  /\ \A w \in Workers : WF_both(GemvAtRest /\ WorkerStep(w))
  /\ WF_both(GemvAtRest /\ OwnerStep) /\ WF_both(GemvAtRest /\ owner = "failing" /\ FreeStop)
  /\ WF_both(QueueAtRest /\ G!CallerStep) /\ \A t \in G!Tids : WF_both(QueueAtRest /\ G!WorkerStep(t))

PoolsSpec == PoolsInit /\ [][PoolsNext]_both /\ PoolsFairness

(* The properties of GemvPool.                                                *)
RowsWrittenOnce == G!TypeOK /\ G!RowsWrittenOnce
GemvCompletes   == G!GemvCompletes
=============================================================================
