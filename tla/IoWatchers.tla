----------------------------- MODULE IoWatchers -----------------------------
(***************************************************************************)
(* Descriptors watched by the epoll loop: tua_io_start_handle,              *)
(* tua_io_cancel and the part of tua_loop_run that hands out events         *)
(* (rt_loop_epoll.c).  EventLoop models the rest of the loop.               *)
(*                                                                         *)
(* epoll is edge-triggered: a descriptor is put on the kernel's ready list  *)
(* when it becomes ready, or is ready as it is added, and leaves the list   *)
(* with the epoll_wait that reports it.  The kernel knows one registration  *)
(* per descriptor; close ends it, and the number is used again.             *)
(*                                                                         *)
(* Starting and cancelling happen on the loop's thread, as in rt_net_posix. *)
(***************************************************************************)
EXTENDS Naturals, SequencesExt

CONSTANTS Fds,      \* descriptor numbers
          Ios,      \* tua_io_t structures
          MaxEvents, \* the length of `events` in tua_loop_run: 64 in the code
          None

ASSUME WatcherAssumption == MaxEvents \in Nat \ {0} /\ None \notin Ios

VARIABLES io,      \* io[i]: state of the structure, its descriptor, active
          epoll,   \* epoll[f]: the structure registered for f, None if none
          rdy,     \* the kernel's ready list, oldest first: structures to be reported
          open,    \* open descriptors
          level,   \* descriptors on which read would not block
          batch,   \* events of the current round not yet looked at
          pc, current

kernel == <<epoll, rdy, open, level>>
vars == <<io, epoll, rdy, open, level, batch, pc, current>>

Init == /\ io = [i \in Ios |-> [st |-> "unused", fd |-> None, active |-> FALSE]]
        /\ epoll = [f \in Fds |-> None] /\ rdy = <<>>
        /\ open = {} /\ level = {}
        /\ batch = <<>> /\ pc = "tasks" /\ current = None

Listed(i) == io[i].st = "listed"
Watching(i) == Listed(i) /\ io[i].active

(* Callbacks of events, tasks and timers; and what precedes tua_loop_run.   *)
UserCode == pc \in {"callback", "tasks"}

(* The ready list with i on it, and without it.                             *)
WithReady(i) == IF i = None \/ Contains(rdy, i) THEN rdy ELSE Append(rdy, i)
WithoutReady(i) == IF Contains(rdy, i) THEN RemoveAt(rdy, CHOOSE k \in DOMAIN rdy : rdy[k] = i) ELSE rdy
-----------------------------------------------------------------------------
(* The environment: sockets are opened, and data arrives.                   *)
Open(f) == /\ UserCode /\ f \notin open
           /\ open' = open \cup {f}
           /\ level' = level \ {f}
           /\ UNCHANGED <<io, epoll, rdy, batch, pc, current>>

Arrive(f) == /\ f \in open
             /\ level' = level \cup {f}
             /\ rdy' = WithReady(epoll[f])
             /\ UNCHANGED <<io, epoll, open, batch, pc, current>>

(* Reading until EAGAIN.                                                    *)
Consume(f) == /\ UserCode /\ f \in open
              /\ level' = level \ {f}
              /\ UNCHANGED <<io, epoll, rdy, open, batch, pc, current>>

(* A descriptor that is watched is cancelled before it is closed, as        *)
(* tua_connect_attempt_cleanup and tua_read_finish do.                      *)
Close(f) == /\ UserCode /\ f \in open
            /\ \A i \in Ios : Watching(i) => io[i].fd # f
            /\ open' = open \ {f}
            /\ epoll' = [epoll EXCEPT ![f] = None]
            /\ rdy' = WithoutReady(epoll[f])
            /\ UNCHANGED <<io, level, batch, pc, current>>
-----------------------------------------------------------------------------
(* tua_io_start_handle: EPOLL_CTL_ADD reports a descriptor that is ready    *)
(* already.                                                                 *)
Start(i, f) == /\ UserCode /\ io[i].st = "unused"
               /\ f \in open /\ epoll[f] = None
               /\ io' = [io EXCEPT ![i] = [st |-> "listed", fd |-> f, active |-> TRUE]]
               /\ epoll' = [epoll EXCEPT ![f] = i]
               /\ rdy' = IF f \in level THEN WithReady(i) ELSE rdy
               /\ UNCHANGED <<open, level, batch, pc, current>>

(* The descriptor is watched (EEXIST) or epoll_ctl fails otherwise: the     *)
(* structure stays on the list until it is pruned.                          *)
StartFailsActive(i, f) == /\ UserCode /\ io[i].st = "unused"
                          /\ f \in open
                          /\ io' = [io EXCEPT ![i] = [st |-> "listed", fd |-> f, active |-> TRUE]]
                          /\ UNCHANGED <<kernel, batch, pc, current>>

StartFails(i, f) == /\ UserCode /\ io[i].st = "unused"
                    /\ f \in open
                    /\ io' = [io EXCEPT ![i] = [st |-> "listed", fd |-> f, active |-> FALSE]]
                    /\ UNCHANGED <<kernel, batch, pc, current>>

(* tua_io_cancel: EPOLL_CTL_DEL names the descriptor, not the structure.    *)
CancelFrees(i) == /\ UserCode /\ Watching(i)
                  /\ io' = [io EXCEPT ![i].st = "freed", ![i].active = FALSE]
                  /\ epoll' = [epoll EXCEPT ![io[i].fd] = None]
                  /\ rdy' = WithoutReady(epoll[io[i].fd])
                  /\ UNCHANGED <<open, level, batch, pc, current>>

Cancel(i) == /\ UserCode /\ Watching(i)
             /\ io' = [io EXCEPT ![i].active = FALSE]
             /\ epoll' = [epoll EXCEPT ![io[i].fd] = None]
             /\ rdy' = WithoutReady(epoll[io[i].fd])
             /\ UNCHANGED <<open, level, batch, pc, current>>
-----------------------------------------------------------------------------
(* The loop                                                                 *)
(* epoll_wait goes through the ready list from its head: it reports what is *)
(* still ready, MaxEvents at most, and leaves the rest for the next call.   *)
ReportAll == /\ pc = "wait" /\ rdy # <<>>
             /\ rdy' = Tail(rdy)
             /\ batch' = IF io[Head(rdy)].fd \in level THEN Append(batch, Head(rdy)) ELSE batch
             /\ UNCHANGED <<io, epoll, open, level, pc, current>>

Report == /\ pc = "wait" /\ rdy # <<>> /\ Len(batch) < MaxEvents
          /\ rdy' = Tail(rdy)
          /\ batch' = IF io[Head(rdy)].fd \in level THEN Append(batch, Head(rdy)) ELSE batch
          /\ UNCHANGED <<io, epoll, open, level, pc, current>>

EndWaitForgets == /\ pc = "wait" /\ (rdy = <<>> \/ Len(batch) = MaxEvents)
                  /\ rdy' = <<>>
                  /\ pc' = "events"
                  /\ UNCHANGED <<io, epoll, open, level, batch, current>>

EndWait == /\ pc = "wait" /\ (rdy = <<>> \/ Len(batch) = MaxEvents)
           /\ pc' = "events"
           /\ UNCHANGED <<io, kernel, batch, current>>

(* `active` is read anew for every event: an earlier callback of the same   *)
(* round may have cancelled.                                                *)
Dispatch == /\ pc = "events" /\ batch # <<>>
            /\ batch' = Tail(batch)
            /\ IF io[Head(batch)].active THEN pc' = "callback" /\ current' = Head(batch)
               ELSE UNCHANGED <<pc, current>>
            /\ UNCHANGED <<io, kernel>>

(* The callbacks of rt_net_posix.c return when read or accept would block,  *)
(* or after a cancel.                                                       *)
Return == /\ pc = "callback"
          /\ ~io[current].active \/ io[current].fd \notin level
          /\ pc' = "events" /\ current' = None
          /\ UNCHANGED <<io, kernel, batch>>

RunTasks == /\ pc = "events" /\ batch = <<>>
            /\ pc' = "tasks"
            /\ UNCHANGED <<io, kernel, batch, current>>

(* tua_loop_prune_ios_locked, last in a round.                              *)
Prune == /\ pc = "tasks"
         /\ io' = [i \in Ios |-> IF Listed(i) /\ ~io[i].active THEN [io[i] EXCEPT !.st = "freed"] ELSE io[i]]
         /\ pc' = "wait"
         /\ UNCHANGED <<kernel, batch, current>>

LoopStep == Report \/ EndWait \/ Dispatch \/ RunTasks \/ Prune
-----------------------------------------------------------------------------
(* malloc hands out freed memory again.                                     *)
Reuse(i) == /\ io[i].st = "freed"
            /\ io' = [io EXCEPT ![i].st = "unused"]
            /\ UNCHANGED <<kernel, batch, pc, current>>

Next == \/ \E f \in Fds : Open(f) \/ Arrive(f) \/ Consume(f) \/ Close(f)
        \/ \E i \in Ios, f \in Fds : Start(i, f) \/ StartFails(i, f)
        \/ \E i \in Ios : Cancel(i) \/ Reuse(i)
        \/ LoopStep \/ Return

(* The loop's thread runs, and its callbacks drain what they were called    *)
(* for and return.                                                          *)
Fairness == /\ WF_vars(LoopStep) /\ SF_vars(Return)
            /\ \A f \in Fds : SF_vars(pc = "callback" /\ io[current].fd = f /\ Consume(f))

Spec == Init /\ [][Next]_vars /\ Fairness
-----------------------------------------------------------------------------
TypeOK == /\ io \in [Ios -> [st : {"unused", "listed", "freed"}, fd : Fds \cup {None}, active : BOOLEAN]]
          /\ epoll \in [Fds -> Ios \cup {None}]
          /\ rdy \in Seq(Ios) /\ open \subseteq Fds /\ level \subseteq Fds
          /\ batch \in Seq(Ios) /\ Len(batch) <= MaxEvents
          /\ pc \in {"wait", "events", "callback", "tasks"}
          /\ current \in Ios \cup {None}
          /\ pc = "callback" <=> current # None

(* What an event of this round, the ready list or the kernel's registration *)
(* points to has not been freed, whatever earlier callbacks cancelled.      *)
EventsAlive ==
  /\ \A k \in DOMAIN batch : Listed(batch[k])
  /\ \A k \in DOMAIN rdy : Listed(rdy[k])
  /\ \A f \in Fds : epoll[f] # None => Listed(epoll[f])
  /\ pc = "callback" => Listed(current)

(* A watcher that is active is the one the kernel has for its descriptor,   *)
(* though numbers are reused and EPOLL_CTL_DEL goes by number; and the      *)
(* kernel has no other.                                                     *)
Registered == \A i \in Ios, f \in Fds : Watching(i) /\ io[i].fd = f <=> epoll[f] = i

(* No edge is lost: when there is data on a watched descriptor, its event   *)
(* is on the ready list, in this round, or being served.                    *)
EdgeKept == \A i \in Ios :
  Watching(i) /\ io[i].fd \in level =>
    Contains(rdy, i) \/ i = current \/ Contains(batch, i)

(* Data on a watched descriptor is read, or the watcher is cancelled.       *)
Served == \A i \in Ios : (Watching(i) /\ io[i].fd \in level) ~> (~Watching(i) \/ io[i].fd \notin level)
=============================================================================
