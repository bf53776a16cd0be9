------------------------------- MODULE MCLoop --------------------------------
(* IoWatchers and EventLoop for TLC: the two halves of tua_loop_run, whose    *)
(* state is apart, one explored while the other has not begun.                *)
EXTENDS IoWatchers, TLC

CONSTANTS Threads, LoopThread, Tasks, Timers, Delays, Repeats, PipeCap, MaxTime

VARIABLES tasks, taken, ran, calling, pipe, wake, stop, clock, timers, dueList, timer,
          epc, wakeAt, fired, quiet

E == INSTANCE EventLoop WITH batch <- taken, edge <- wake, pc <- epc

ASSUME LoopAssumption == E!LoopAssumption

loop == <<tasks, taken, ran, calling, pipe, wake, stop, clock, timers, dueList, timer,
          epc, wakeAt, fired, quiet>>
both == <<vars, loop>>

LoopAtRest     == E!Init /\ UNCHANGED loop
WatchersAtRest == Init /\ UNCHANGED vars

RunInit == Init /\ E!Init
RunNext == (LoopAtRest /\ Next) \/ (WatchersAtRest /\ E!Next)

RunFairness ==
  /\ WF_both(LoopAtRest /\ LoopStep) /\ SF_both(LoopAtRest /\ Return)
  /\ \A f \in Fds : SF_both(LoopAtRest /\ pc = "callback" /\ io[current].fd = f /\ Consume(f))
  /\ WF_both(WatchersAtRest /\ E!Run) /\ WF_both(WatchersAtRest /\ E!LoopStep)
  /\ WF_both(WatchersAtRest /\ E!Tick)
  /\ \A a \in E!Actors : WF_both(WatchersAtRest /\ E!Wakeup(a))

RunSpec == RunInit /\ [][RunNext]_both /\ RunFairness

(* The properties of EventLoop that need time.                                *)
LoopServes      == E!LoopServes
ImplementsTasks == E!ImplementsTasks
=============================================================================
