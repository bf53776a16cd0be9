----------------------------- MODULE EventLoop ------------------------------
(***************************************************************************)
(* The event loop of the runtime on Linux (rt_loop_epoll.c): the task list, *)
(* the timer list, the wake pipe and the loop thread that sleeps in         *)
(* epoll_wait.  The loop thread and other threads call tua_loop_post,       *)
(* tua_timer_start, tua_timer_cancel and tua_loop_stop; each call is two    *)
(* steps, the update under loop->mu and then tua_loop_wakeup, and anything  *)
(* may happen in between.  The loop thread makes its calls from inside a    *)
(* callback, or before tua_loop_run.  Watchers of file descriptors are in   *)
(* IoWatchers.                                                             *)
(*                                                                         *)
(* The pipe is registered edge-triggered: a write to it arms `edge`, and    *)
(* epoll_wait delivers an armed edge once, however many bytes are in the    *)
(* pipe.  Time is counted in milliseconds.  A task is one call of           *)
(* tua_loop_post and a timer one call of tua_timer_start.                   *)
(***************************************************************************)
EXTENDS Naturals, SequencesExt

CONSTANTS Threads,    \* the threads that call into the loop, LoopThread excepted
          LoopThread, \* the thread that calls tua_loop_run
          Tasks,      \* the calls of tua_loop_post that may be made
          Timers,     \* the calls of tua_timer_start that may be made
          Delays,     \* the delay_ms they may pass
          Repeats,    \* the repeat_ms they may pass; 0 is a one-shot timer
          PipeCap,    \* how many bytes the wake pipe holds (bound)
          MaxTime     \* the clock stops here (bound)

ASSUME LoopAssumption ==
  /\ LoopThread \notin Threads
  /\ Delays \subseteq Nat /\ Repeats \subseteq Nat
  /\ PipeCap \in Nat \ {0} /\ MaxTime \in Nat

Actors == Threads \cup {LoopThread}
Forever == MaxTime + 1

VARIABLES tasks,   \* loop->task_head: posted tasks, oldest first
          batch,   \* the list tua_loop_run_tasks detached, not yet run
          ran,     \* the tasks whose function has returned
          calling, \* calling[a]: actor a still owes its tua_loop_wakeup
          pipe,    \* bytes in the wake pipe
          edge,    \* epoll has an undelivered event for wake_r
          stop,    \* loop->stop
          clock,   \* tua_time_mono_ns, in ms
          timers,  \* loop->timers, sorted by due time
          dueList, \* the list tua_loop_collect_due_timers returned
          timer,   \* timer[t]: the tua_timer_t: memory, due_ns, repeat_ns, active
          pc,      \* where the loop thread stands in tua_loop_run
          wakeAt,  \* when its epoll_wait times out
          fired,   \* fired[t]: how often t's function was called
          quiet    \* quiet[t]: who cancelled t, and how often t was called since

taskVars == <<tasks, batch, ran>>
wakeVars == <<calling, pipe, edge, stop>>
timerVars == <<timers, dueList, timer>>
loopVars == <<clock, pc, wakeAt>>
history == <<fired, quiet>>
vars == <<taskVars, wakeVars, timerVars, loopVars, history>>

Listed(list) == {list[i] : i \in DOMAIN list}
Live == {t \in Timers : timer[t].mem = "live"}

Init == /\ tasks = <<>> /\ batch = <<>> /\ ran = {}
        /\ calling = [a \in Actors |-> FALSE]
        /\ pipe = 0 /\ edge = FALSE /\ stop = FALSE
        /\ timers = <<>> /\ dueList = <<>>
        /\ timer = [t \in Timers |-> [mem |-> "unused", due |-> 0, repeat |-> 0, active |-> FALSE]]
        /\ clock = 0 /\ pc = "outside" /\ wakeAt = Forever
        /\ fired = [t \in Timers |-> 0]
        /\ quiet = [t \in Timers |-> [by |-> "nobody", since |-> 0]]
-----------------------------------------------------------------------------
(* The list operations of the timers.                                       *)
(* tua_timer_insert_sorted: after every timer that is due no later.         *)
InsertSorted(t) ==
  LET earlier == {i \in DOMAIN timers : \A j \in 1..i : timer[timers[j]].due <= timer'[t].due}
  IN timers' = InsertAt(timers, Cardinality(earlier) + 1, t)

(* tua_loop_prune_timers_locked: what is left on the list, in its order.    *)
Pruned == LET kept == {i \in DOMAIN timers : timer[timers[i]].active}
              place(i) == Cardinality({j \in kept : j <= i})
          IN [k \in 1..Cardinality(kept) |-> timers[CHOOSE i \in kept : place(i) = k]]

FreeTimers(S) == timer' = [t \in Timers |-> IF t \in S THEN [timer[t] EXCEPT !.mem = "freed"]
                                                      ELSE timer[t]]
-----------------------------------------------------------------------------
(* The calls.  The loop thread can call only while no call of its own is    *)
(* unfinished and it is in user code.                                       *)
MayCall(a) == /\ ~calling[a]
              /\ IF a = LoopThread THEN pc \in {"outside", "inTask", "inTimer"}
                                   ELSE pc # "freed"

NoWakeup(a) == UNCHANGED calling
OwesWakeup(a) == calling' = [calling EXCEPT ![a] = TRUE]

Posted == Listed(tasks) \cup Listed(batch) \cup ran

Post(a, k) == /\ MayCall(a)
              /\ k \notin Posted
              /\ tasks' = Append(tasks, k)
              /\ OwesWakeup(a)
              /\ UNCHANGED <<batch, ran, pipe, edge, stop, timerVars, loopVars, history>>

StartTimer(a, t, delay, repeat) ==
  /\ MayCall(a)
  /\ timer[t].mem = "unused"
  /\ timer' = [timer EXCEPT ![t] = [mem |-> "live", due |-> clock + delay, repeat |-> repeat, active |-> TRUE]]
  /\ InsertSorted(t)
  /\ OwesWakeup(a)
  /\ UNCHANGED <<taskVars, pipe, edge, stop, dueList, loopVars, history>>

(* The caller must know that the timer has not been freed.  Another thread  *)
(* knows it of a repeating timer nobody has cancelled; the loop thread also *)
(* of a one-shot timer whose function has not returned.                     *)
MayCancel(a, t) == /\ t \in Live /\ timer[t].active
                   /\ a # LoopThread => timer[t].repeat > 0

CancelFrees(a, t) ==
  /\ MayCall(a)
  /\ MayCancel(a, t)
  /\ timer' = [timer EXCEPT ![t].active = FALSE, ![t].mem = "freed"]
  /\ OwesWakeup(a)
  /\ UNCHANGED <<taskVars, pipe, edge, stop, timers, dueList, loopVars, history>>

CancelTimer(a, t) ==
  /\ MayCall(a)
  /\ MayCancel(a, t)
  /\ timer' = [timer EXCEPT ![t].active = FALSE]
  /\ quiet' = [quiet EXCEPT ![t].by = IF a = LoopThread THEN "loop" ELSE "other"]
  /\ OwesWakeup(a)
  /\ UNCHANGED <<taskVars, pipe, edge, stop, timers, dueList, loopVars, fired>>

Stop(a) == /\ MayCall(a)
           /\ ~stop
           /\ stop' = TRUE
           /\ OwesWakeup(a)
           /\ UNCHANGED <<taskVars, pipe, edge, timerVars, loopVars, history>>

(* tua_loop_wakeup: the byte is written, or the pipe is full (EAGAIN).      *)
Wakeup(a) == /\ calling[a]
             /\ calling' = [calling EXCEPT ![a] = FALSE]
             /\ IF pipe < PipeCap THEN pipe' = pipe + 1 /\ edge' = TRUE
                                  ELSE UNCHANGED <<pipe, edge>>
             /\ UNCHANGED <<taskVars, stop, timerVars, loopVars, history>>
-----------------------------------------------------------------------------
(* tua_loop_run                                                             *)
Run == /\ pc = "outside" /\ ~calling[LoopThread]
       /\ pc' = "top"
       /\ UNCHANGED <<taskVars, wakeVars, timerVars, clock, wakeAt, history>>

(* The while condition, then tua_loop_timer_timeout_ms: -1 with no timer,   *)
(* otherwise the milliseconds left, rounded down.                           *)
Leave == /\ pc = "top" /\ stop
         /\ pc' = "stopped"
         /\ UNCHANGED <<taskVars, wakeVars, timerVars, clock, wakeAt, history>>

Timeout(list) == IF list = <<>> THEN {Forever}
                 ELSE LET due == timer[Head(list)].due
                      IN IF due <= clock THEN {clock} ELSE {due - 1, due}

Enter == /\ pc = "top" /\ ~stop
         /\ timers' = Pruned
         /\ FreeTimers(Listed(timers) \ Listed(timers'))
         /\ wakeAt' \in Timeout(timers')
         /\ pc' = "wait"
         /\ UNCHANGED <<taskVars, wakeVars, dueList, clock, history>>

(* epoll_wait returns: the wake event, a timeout, or EINTR, which it gives  *)
(* only while there is neither an event nor a timeout.                      *)
Awakened == /\ pc = "wait" /\ edge
            /\ edge' = FALSE
            /\ pc' = "drain"
            /\ UNCHANGED <<taskVars, calling, pipe, stop, timerVars, clock, wakeAt, history>>

TimedOut == /\ pc = "wait" /\ ~edge /\ clock >= wakeAt
            /\ pc' = "detach"
            /\ UNCHANGED <<taskVars, wakeVars, timerVars, clock, wakeAt, history>>

Interrupted == /\ pc = "wait" /\ ~edge /\ clock < wakeAt
               /\ pc' = "top"
               /\ UNCHANGED <<taskVars, wakeVars, timerVars, clock, wakeAt, history>>

(* tua_loop_drain_wakeup reads until EAGAIN.                                *)
DrainNothing == /\ pc = "drain"
                /\ pc' = "detach"
                /\ UNCHANGED <<taskVars, wakeVars, timerVars, clock, wakeAt, history>>

Drain == /\ pc = "drain"
         /\ pipe' = 0
         /\ pc' = "detach"
         /\ UNCHANGED <<taskVars, calling, edge, stop, timerVars, clock, wakeAt, history>>

(* tua_loop_run_tasks: the whole list is detached and then run.             *)
DetachKeeping == /\ pc = "detach"
                 /\ batch' = tasks
                 /\ pc' = "tasks"
                 /\ UNCHANGED <<tasks, ran, wakeVars, timerVars, clock, wakeAt, history>>

DetachTasks == /\ pc = "detach"
               /\ batch' = tasks
               /\ tasks' = <<>>
               /\ pc' = "tasks"
               /\ UNCHANGED <<ran, wakeVars, timerVars, clock, wakeAt, history>>

BeginTask == /\ pc = "tasks" /\ batch # <<>>
             /\ pc' = "inTask"
             /\ UNCHANGED <<taskVars, wakeVars, timerVars, clock, wakeAt, history>>

EndTask == /\ pc = "inTask" /\ ~calling[LoopThread]
           /\ ran' = ran \cup {Head(batch)}
           /\ batch' = Tail(batch)
           /\ pc' = "tasks"
           /\ UNCHANGED <<tasks, wakeVars, timerVars, clock, wakeAt, history>>

(* tua_loop_collect_due_timers: prune, then move the due prefix of the list *)
(* to dueList, each timer in front of the one before it.                    *)
CollectFrom(list) ==
  LET due == {i \in DOMAIN list : \A j \in 1..i : timer[list[j]].due <= clock}
  IN /\ timers' = SubSeq(list, Cardinality(due) + 1, Len(list))
     /\ dueList' = Reverse(SubSeq(list, 1, Cardinality(due)))
     /\ FreeTimers(Listed(timers) \ Listed(list))

CollectDue == /\ pc = "tasks" /\ batch = <<>>
              /\ CollectFrom(Pruned)
              /\ pc' = "due"
              /\ UNCHANGED <<taskVars, wakeVars, clock, wakeAt, history>>

(* For each due timer: read active under the lock, then call it with the    *)
(* lock released.                                                           *)
CallAnyway == /\ pc = "due" /\ dueList # <<>>
              /\ pc' = "call"
              /\ UNCHANGED <<taskVars, wakeVars, timerVars, clock, wakeAt, history>>

CheckActive == /\ pc = "due" /\ dueList # <<>>
               /\ timer[Head(dueList)].active
               /\ pc' = "call"
               /\ UNCHANGED <<taskVars, wakeVars, timerVars, clock, wakeAt, history>>

SkipCancelled == /\ pc = "due" /\ dueList # <<>>
                 /\ ~timer[Head(dueList)].active
                 /\ FreeTimers({Head(dueList)})
                 /\ dueList' = Tail(dueList)
                 /\ UNCHANGED <<taskVars, wakeVars, timers, loopVars, history>>

FireTimer == /\ pc = "call"
             /\ pc' = "inTimer"
             /\ LET t == Head(dueList)
                IN /\ fired' = [fired EXCEPT ![t] = @ + 1]
                   /\ quiet' = IF timer[t].active THEN quiet ELSE [quiet EXCEPT ![t].since = @ + 1]
             /\ UNCHANGED <<taskVars, wakeVars, timerVars, clock, wakeAt>>

(* Back from the timer's function: a repeating timer is due again one       *)
(* period from now, cancelled meanwhile or not; a one-shot timer is freed.  *)
EndTimer == /\ pc = "inTimer" /\ ~calling[LoopThread]
            /\ LET t == Head(dueList)
               IN IF timer[t].repeat > 0
                  THEN /\ timer' = [timer EXCEPT ![t].due = clock + timer[t].repeat]
                       /\ InsertSorted(t)
                  ELSE FreeTimers({t}) /\ UNCHANGED timers
            /\ dueList' = Tail(dueList)
            /\ pc' = "due"
            /\ UNCHANGED <<taskVars, wakeVars, clock, wakeAt, history>>

NextRound == /\ pc = "due" /\ dueList = <<>>
             /\ pc' = "top"
             /\ UNCHANGED <<taskVars, wakeVars, timerVars, clock, wakeAt, history>>

(* tua_loop_free, after tua_loop_run has returned and with no other thread  *)
(* inside a call: pending tasks and timers are dropped.                     *)
Free == /\ pc = "stopped"
        /\ \A a \in Actors : ~calling[a]
        /\ tasks' = <<>>
        /\ timers' = <<>>
        /\ FreeTimers(Listed(timers))
        /\ pc' = "freed"
        /\ UNCHANGED <<batch, ran, wakeVars, dueList, clock, wakeAt, history>>

LoopStep == \/ Leave \/ Enter \/ Awakened \/ TimedOut \/ Drain \/ DetachTasks \/ BeginTask \/ EndTask
            \/ CollectDue \/ CheckActive \/ SkipCancelled \/ FireTimer \/ EndTimer \/ NextRound
-----------------------------------------------------------------------------
Tick == /\ clock < MaxTime
        /\ clock' = clock + 1
        /\ UNCHANGED <<taskVars, wakeVars, timerVars, pc, wakeAt, history>>

Call(a) == \/ \E k \in Tasks : Post(a, k)
           \/ \E t \in Timers, d \in Delays, r \in Repeats : StartTimer(a, t, d, r)
           \/ \E t \in Timers : CancelTimer(a, t)
           \/ Stop(a)

Next == \/ \E a \in Actors : Call(a) \/ Wakeup(a)
        \/ Run \/ LoopStep \/ Interrupted \/ Free
        \/ Tick

(* Time passes, a thread finishes the call it has begun, and the loop       *)
(* thread goes on whenever it can; callbacks return.                        *)
Fairness == /\ WF_vars(Run) /\ WF_vars(LoopStep) /\ WF_vars(Tick)
            /\ \A a \in Actors : WF_vars(Wakeup(a))

Spec == Init /\ [][Next]_vars /\ Fairness
-----------------------------------------------------------------------------
TypeOK ==
  /\ tasks \in Seq(Tasks) /\ batch \in Seq(Tasks) /\ ran \subseteq Tasks
  /\ calling \in [Actors -> BOOLEAN]
  /\ pipe \in 0..PipeCap /\ edge \in BOOLEAN /\ stop \in BOOLEAN
  /\ clock \in 0..MaxTime /\ wakeAt \in Nat
  /\ timers \in Seq(Timers) /\ dueList \in Seq(Timers)
  /\ timer \in [Timers -> [mem : {"unused", "live", "freed"}, due : Nat, repeat : Nat, active : BOOLEAN]]
  /\ pc \in {"outside", "top", "wait", "drain", "detach", "tasks", "inTask",
             "due", "call", "inTimer", "stopped", "freed"}
  /\ fired \in [Timers -> Nat]
  /\ quiet \in [Timers -> [by : {"nobody", "loop", "other"}, since : Nat]]

WakeupUnderway == edge \/ \E a \in Actors : calling[a]

(* No wakeup is lost: a loop thread on its way into epoll_wait, or asleep   *)
(* in it, with a task on the list, with stop set behind its back, or with a *)
(* timer due before the timeout it computed, has an event armed or a caller *)
(* about to arm one.  The pipe may be full and its edge already consumed.   *)
NoLostWakeup ==
  /\ pc \in {"top", "wait"} /\ tasks # <<>> => WakeupUnderway
  /\ pc = "wait" /\ stop => WakeupUnderway
  /\ pc = "wait" /\ clock < wakeAt =>
       \A t \in Listed(timers) : timer[t].active /\ timer[t].due < wakeAt => WakeupUnderway

(* The list is sorted, so the prefix tua_loop_collect_due_timers takes is   *)
(* all that is due and its head gives the timeout.                          *)
Sorted == \A i, j \in DOMAIN timers : i < j => timer[timers[i]].due <= timer[timers[j]].due

(* The loop's lists hold no freed timer and no timer twice, and no live     *)
(* timer has fallen off them: cancel marks a timer, and only the loop       *)
(* thread frees it, at a moment when it is on no list.                      *)
TimerMemory ==
  /\ TypeOK /\ Sorted
  /\ Listed(timers) \cup Listed(dueList) = Live
  /\ Listed(timers) \cap Listed(dueList) = {}
  /\ Len(timers) + Len(dueList) = Cardinality(Live)

(* A timer cancelled on the loop thread is never called again; one          *)
(* cancelled on another thread at most once, when the loop thread had       *)
(* already read active.                                                     *)
CancelIsFinal == \A t \in Timers : /\ quiet[t].by = "loop" => quiet[t].since = 0
                                   /\ quiet[t].since <= 1

(* A timer whose time is inside the modelled clock is called, unless it is  *)
(* cancelled or the loop is stopped.                                        *)
TimerFires == \A t \in Timers :
                timer[t].active /\ fired[t] = 0 /\ timer[t].due <= MaxTime
                  ~> fired[t] > 0 \/ ~timer[t].active \/ stop

(* tua_loop_stop makes tua_loop_run return, from whatever thread it comes.  *)
StopReturns == stop /\ pc # "outside" ~> pc \in {"stopped", "freed"}

(* Both: no timer is forgotten and no stop unheard, whatever the loop's      *)
(* thread was about to wait for.                                            *)
LoopServes == TimerFires /\ StopReturns
-----------------------------------------------------------------------------
Promise == INSTANCE LoopTasks WITH
             pending <- batch \o tasks,
             running <- pc = "inTask",
             stopping <- stop

(* The task list, the pipe and the rounds of the loop implement the FIFO    *)
(* executor tua_loop_post promises.                                         *)
ImplementsTasks == Promise!Spec
-----------------------------------------------------------------------------
(* For TLC: tasks, timers and calling threads are interchangeable.          *)
Interchangeable == Permutations(Threads) \cup Permutations(Tasks) \cup Permutations(Timers)
=============================================================================
