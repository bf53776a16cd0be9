--------------------------- MODULE TcpConnections ---------------------------
(***************************************************************************)
(* tua_tcp_connect_async and tua_tcp_accept_start (rt_net_posix.c).         *)
(*                                                                         *)
(* A connect goes through three threads' hands: the caller posts a job, a   *)
(* worker resolves the name and posts the addresses to the loop, and the    *)
(* loop tries them one after another, each with a watcher and a timer.  An  *)
(* accept is a watcher of the listener whose handler takes connections      *)
(* until there are none, calling the program back for each.                 *)
(*                                                                         *)
(* The loop's rounds are those of TcpOps: events, tasks, timers.            *)
(***************************************************************************)
EXTENDS Naturals, SequencesExt, FiniteSets

CONSTANTS Conns,         \* calls of tua_tcp_connect_async
          Accepts,       \* calls of tua_tcp_accept_start, on one listener
          MaxAddr,       \* addresses a name resolves to (bound)
          MaxPeers,      \* connections made to the listener (bound)
          MaxFailures,   \* failures of accept(2) other than EAGAIN (bound)
          None

ConnectionsAssumption ==
  /\ IsFiniteSet(Conns) /\ IsFiniteSet(Accepts)
  /\ Conns \cap Accepts = {} /\ None \notin Conns \cup Accepts
  /\ MaxAddr \in Nat /\ MaxPeers \in Nat /\ MaxFailures \in Nat

VARIABLES job,      \* job[c]: where connect c is
          mem,      \* mem[c]: the blocks it has allocated
          addrs,    \* addrs[c]: addresses that were found
          tried,    \* tried[c]: the addresses tried, in order; the last is at->cur
          kernel,   \* kernel[c]: the descriptor of the attempt
          timer,    \* timer[c]: "none", "armed", "due" for the loop to call, "off"
          deadline, \* deadline[c]: "none", "running", "passed"
          result,   \* result[c]: what the callback was told, every time it was called
          lst,      \* the listener: "none", "open", "closed"
          acc,      \* acc[a]: "idle", "refused", "active", "freed"
          backlog,  \* connections the kernel holds for the listener
          peers,    \* history: connections made so far
          failures, \* history: failures of accept(2)
          stale,    \* accept(2) has failed since the listener's last event
          inside,   \* history: an accept was cancelled in a callback of its own
          misuse,   \* history: a handler has used an accept that was freed
          cur,      \* the accept whose handler runs
          watched,  \* connects and accepts with an active watcher
          edge,     \* those the kernel has an event for
          batch,    \* the events of the current round
          todo,     \* the tasks of the current round
          pc

connVars   == <<job, mem, addrs, tried, kernel, timer, deadline, result>>
acceptVars == <<lst, acc, backlog, peers, failures, stale, inside, misuse, cur>>
loopVars   == <<watched, edge, batch, todo, pc>>
vars       == <<connVars, acceptVars, loopVars>>

Init == /\ job = [c \in Conns |-> "none"] /\ mem = [c \in Conns |-> {}]
        /\ addrs = [c \in Conns |-> 0] /\ tried = [c \in Conns |-> <<>>]
        /\ kernel = [c \in Conns |-> "none"] /\ timer = [c \in Conns |-> "none"]
        /\ deadline = [c \in Conns |-> "none"] /\ result = [c \in Conns |-> <<>>]
        /\ lst = "none" /\ acc = [a \in Accepts |-> "idle"]
        /\ backlog = 0 /\ peers = 0 /\ failures = 0 /\ stale = FALSE
        /\ inside = FALSE /\ misuse = FALSE /\ cur = None
        /\ watched = {} /\ edge = {} /\ batch = <<>> /\ todo = {} /\ pc = "tasks"

UserCode == pc \in {"events", "tasks", "timers", "callback"}
-----------------------------------------------------------------------------
(* The call, and the worker                                                 *)

Strings == {"host", "port"}

ConnectAsync(c, d) ==
  /\ UserCode /\ job[c] = "none"
  /\ deadline' = [deadline EXCEPT ![c] = d]
  /\ \/ /\ job' = [job EXCEPT ![c] = "refused"]             \* no memory
        /\ UNCHANGED mem
     \/ /\ job' = [job EXCEPT ![c] = "refused"]             \* tua_workqueue_post says no
        /\ mem' = [mem EXCEPT ![c] = Strings \cup {"job"}]
     \/ /\ job' = [job EXCEPT ![c] = "queued"]
        /\ mem' = [mem EXCEPT ![c] = Strings \cup {"job"}]
  /\ UNCHANGED <<addrs, tried, kernel, timer, result, acceptVars, loopVars>>

Calls(c, e) == result' = [result EXCEPT ![c] = Append(@, e)]

\* Name resolution finds n addresses.  Without memory for the state, or for the
\* loop's task, the worker itself calls back.
ConnectWorker(c) ==
  /\ job[c] = "queued" /\ pc # "crashed"
  /\ \E n \in 0..MaxAddr :
       \/ /\ mem' = [mem EXCEPT ![c] = {"state"} \cup (IF n > 0 THEN {"ai"} ELSE {})]
          /\ addrs' = [addrs EXCEPT ![c] = n]
          /\ job' = [job EXCEPT ![c] = "posted"]
          /\ UNCHANGED result
       \/ /\ mem' = [mem EXCEPT ![c] = {}]
          /\ Calls(c, "NOMEM")
          /\ job' = [job EXCEPT ![c] = "over"]
          /\ UNCHANGED addrs
  /\ UNCHANGED <<tried, kernel, timer, deadline, acceptVars, loopVars>>

DeadlinePasses(c) == /\ deadline[c] = "running"
                     /\ deadline' = [deadline EXCEPT ![c] = "passed"]
                     /\ UNCHANGED <<job, mem, addrs, tried, kernel, timer, result, acceptVars, loopVars>>
-----------------------------------------------------------------------------
(* The loop's side of a connect                                             *)

\* Mutant of Released: the timer is forgotten.
ReleasedButTimer(c) ==
  /\ watched' = watched \ {c} /\ edge' = edge \ {c}
  /\ UNCHANGED timer

\* tua_connect_attempt_cleanup: neither watcher nor timer is left.
Released(c) ==
  /\ watched' = watched \ {c} /\ edge' = edge \ {c}
  /\ timer' = [timer EXCEPT ![c] = IF @ = "none" THEN @ ELSE "off"]

\* tua_connect_finish.  A socket that is connected is the program's.
Finish(c, e) ==
  /\ \E told \in IF e = "OK" THEN {"OK", "NOMEM"} ELSE {e} :
       /\ Calls(c, told)
       /\ kernel' = [kernel EXCEPT ![c] = IF told = "OK" THEN "given" ELSE "none"]
  /\ mem' = [mem EXCEPT ![c] = {}]
  /\ job' = [job EXCEPT ![c] = "over"]
  /\ Released(c)

\* The loop over the addresses from the one numbered i.  socket or connect
\* fails, or there is no watcher or timer to be had: the next is tried.
WalkFrom(c, i) ==
  LET after(k) == tried' = [tried EXCEPT ![c] = @ \o [j \in 1..(k + 1 - i) |-> i + j - 1]]
  IN  \/ /\ after(addrs[c]) /\ Finish(c, "NOTFOUND")
      \/ \E k \in i..addrs[c] :
           /\ after(k)
           /\ \/ Finish(c, "OK")                                 \* connects at once
              \/ /\ kernel' = [kernel EXCEPT ![c] = "connecting"]
                 /\ job' = [job EXCEPT ![c] = "waiting"]
                 /\ mem' = [mem EXCEPT ![c] = @ \cup {"attempt"}]
                 /\ watched' = watched \cup {c} /\ edge' = edge \ {c}
                 /\ timer' = [timer EXCEPT ![c] = IF deadline[c] = "none" THEN "none" ELSE "armed"]
                 /\ UNCHANGED result

TryNext(c, i) ==
  IF deadline[c] = "passed" THEN Finish(c, "TIMEDOUT") /\ UNCHANGED tried ELSE WalkFrom(c, i)

NextAddress(c) == Len(tried[c]) + 1

ConnectResolved(c) ==
  /\ pc = "tasks" /\ c \in todo
  /\ todo' = todo \ {c}
  /\ \/ deadline[c] = "passed" /\ Finish(c, "TIMEDOUT") /\ UNCHANGED tried
     \/ deadline[c] # "passed" /\ "ai" \notin mem[c] /\ Finish(c, "NOTFOUND") /\ UNCHANGED tried
     \/ deadline[c] # "passed" /\ "ai" \in mem[c]
        /\ (TryNext(c, NextAddress(c)) \/ (Finish(c, "NOMEM") /\ UNCHANGED tried))
  /\ UNCHANGED <<addrs, deadline, acceptVars, batch, pc>>

\* EPOLLERR, EPOLLHUP and SO_ERROR all say that this address failed.
OnWritable(c) ==
  IF kernel[c] = "connected" THEN Finish(c, "OK") /\ UNCHANGED tried
  ELSE TryNext(c, NextAddress(c))

OnTimeout(c) ==
  /\ pc = "timers" /\ timer[c] = "due"
  /\ Finish(c, "TIMEDOUT")
  /\ UNCHANGED <<addrs, tried, deadline, acceptVars, batch, todo, pc>>

KernelDecides(c) ==
  /\ kernel[c] = "connecting"
  /\ \E k \in {"connected", "failed"} : kernel' = [kernel EXCEPT ![c] = k]
  /\ edge' = edge \cup ({c} \cap watched)
  /\ UNCHANGED <<job, mem, addrs, tried, timer, deadline, result, acceptVars, watched, batch, todo, pc>>
-----------------------------------------------------------------------------
(* Accepting                                                                *)

Listening == {a \in Accepts : a \in watched}

\* The first address that can be bound and listened on; or none of them can.
Listen == /\ UserCode /\ lst = "none" /\ lst' = "open"
          /\ UNCHANGED <<connVars, acc, backlog, peers, failures, stale, inside, misuse, cur, loopVars>>

\* The program closes it when it has cancelled every accept of it; who waits is
\* turned away.
ListenerClose == /\ UserCode /\ lst = "open" /\ Listening = {}
                 /\ lst' = "closed" /\ backlog' = 0
                 /\ UNCHANGED <<connVars, acc, peers, failures, stale, inside, misuse, cur, loopVars>>

\* A second watcher on the listener's descriptor is refused (EEXIST).
AcceptStart(a) ==
  /\ UserCode /\ lst = "open" /\ acc[a] = "idle"
  /\ \/ acc' = [acc EXCEPT ![a] = "refused"] /\ UNCHANGED <<watched, edge>>
     \/ /\ Listening = {}
        /\ acc' = [acc EXCEPT ![a] = "active"]
        /\ watched' = watched \cup {a}
        /\ edge' = edge \cup (IF backlog > 0 THEN {a} ELSE {})
  /\ UNCHANGED <<connVars, lst, backlog, peers, failures, stale, inside, misuse, cur, batch, todo, pc>>

\* tua_tcp_accept_cancel frees the accept at once, its own callback or not.
AcceptCancel(a) ==
  /\ UserCode /\ acc[a] = "active"
  /\ acc' = [acc EXCEPT ![a] = "freed"]
  /\ inside' = (inside \/ a = cur)
  /\ watched' = watched \ {a} /\ edge' = edge \ {a}
  /\ UNCHANGED <<connVars, lst, backlog, peers, failures, stale, misuse, cur, batch, todo, pc>>

PeerConnects ==
  /\ lst = "open" /\ peers < MaxPeers
  /\ peers' = peers + 1 /\ backlog' = backlog + 1
  /\ edge' = edge \cup Listening
  /\ stale' = FALSE
  /\ UNCHANGED <<connVars, lst, acc, failures, inside, misuse, cur, watched, batch, todo, pc>>

\* Mutant of AcceptOne: one connection for every event.
AcceptOneOnly ==
  /\ pc = "accepting"
  /\ misuse' = (misuse \/ acc[cur] = "freed")
  /\ backlog' = IF backlog > 0 THEN backlog - 1 ELSE 0
  /\ pc' = "events" /\ cur' = None
  /\ UNCHANGED <<connVars, lst, acc, peers, failures, stale, inside, watched, edge, batch, todo>>

\* One round of tua_accept_on_ready's loop.  The callback is told of a socket, or
\* that there was no memory for one; after any other failure the loop returns.
\* It reads the accept first.  In one that was freed it finds what was there, or
\* the program ends.
AcceptOne ==
  /\ pc = "accepting"
  /\ misuse' = (misuse \/ acc[cur] = "freed")
  /\ \/ backlog > 0 /\ backlog' = backlog - 1 /\ pc' = "callback" /\ UNCHANGED <<failures, stale, cur>>
     \/ backlog = 0 /\ pc' = "events" /\ cur' = None /\ UNCHANGED <<backlog, failures, stale>>
     \/ /\ failures < MaxFailures
        /\ failures' = failures + 1 /\ stale' = TRUE
        /\ pc' = "events" /\ cur' = None /\ UNCHANGED backlog
     \/ /\ acc[cur] = "freed"
        /\ pc' = "crashed" /\ cur' = None /\ UNCHANGED <<backlog, failures, stale>>
  /\ UNCHANGED <<connVars, lst, acc, peers, inside, watched, edge, batch, todo>>

CallbackReturns == /\ pc = "callback" /\ pc' = "accepting"
                   /\ UNCHANGED <<connVars, acceptVars, watched, edge, batch, todo>>

-----------------------------------------------------------------------------
(* The loop                                                                 *)

WaitEvents == /\ pc = "wait"
              /\ batch' \in SetToSeqs(edge)
              /\ edge' = {} /\ pc' = "events"
              /\ UNCHANGED <<connVars, acceptVars, watched, todo>>

\* Mutant of Handles: the handler does not look at active.
HandlesAll(w) == w \in watched \/ w \in Accepts

\* The watcher of an event may have been cancelled since.
Handles(w) == w \in watched

Dispatch ==
  /\ pc = "events" /\ batch # <<>>
  /\ batch' = Tail(batch)
  /\ LET w == Head(batch) IN
     \/ /\ ~Handles(w)
        /\ UNCHANGED <<connVars, acceptVars, watched, edge, pc>>
     \/ /\ Handles(w) /\ w \in Accepts
        /\ pc' = "accepting" /\ cur' = w
        /\ UNCHANGED <<connVars, lst, acc, backlog, peers, failures, stale, inside, misuse, watched, edge>>
     \/ /\ Handles(w) /\ w \in Conns
        /\ OnWritable(w)
        /\ UNCHANGED <<addrs, deadline, acceptVars, pc>>
  /\ UNCHANGED todo

RunTasks == /\ pc = "events" /\ batch = <<>>
            /\ todo' = {c \in Conns : job[c] = "posted"}
            /\ pc' = "tasks"
            /\ UNCHANGED <<connVars, acceptVars, watched, edge, batch>>

\* Mutant of CollectDue: the timers that are due are lost.
CollectDrops == /\ pc = "tasks" /\ todo = {}
                /\ timer' = [c \in Conns |-> IF timer[c] = "armed" /\ deadline[c] = "passed" THEN "off" ELSE timer[c]]
                /\ pc' = "timers"
                /\ UNCHANGED <<job, mem, addrs, tried, kernel, deadline, result, acceptVars, watched, edge, batch, todo>>

CollectDue == /\ pc = "tasks" /\ todo = {}
              /\ timer' = [c \in Conns |-> IF timer[c] = "armed" /\ deadline[c] = "passed" THEN "due" ELSE timer[c]]
              /\ pc' = "timers"
              /\ UNCHANGED <<job, mem, addrs, tried, kernel, deadline, result, acceptVars, watched, edge, batch, todo>>

NextRound == /\ pc = "timers" /\ \A c \in Conns : timer[c] # "due"
             /\ pc' = "wait"
             /\ UNCHANGED <<connVars, acceptVars, watched, edge, batch, todo>>

LoopStep == \/ WaitEvents \/ Dispatch \/ RunTasks \/ CollectDue \/ NextRound
            \/ AcceptOne \/ CallbackReturns
            \/ \E c \in Conns : ConnectResolved(c) \/ OnTimeout(c)

Next == \/ LoopStep
        \/ \E c \in Conns : ConnectAsync(c, "none") \/ ConnectAsync(c, "running")
        \/ \E c \in Conns : ConnectWorker(c) \/ DeadlinePasses(c) \/ KernelDecides(c)
        \/ \E a \in Accepts : AcceptStart(a) \/ AcceptCancel(a)
        \/ Listen \/ ListenerClose \/ PeerConnects

\* The loop's thread and the workers run, and time passes.
Fairness == /\ WF_vars(LoopStep)
            /\ \A c \in Conns : WF_vars(ConnectWorker(c)) /\ WF_vars(DeadlinePasses(c))

Spec == Init /\ [][Next]_vars /\ Fairness
-----------------------------------------------------------------------------
TypeOK ==
  /\ job \in [Conns -> {"none", "refused", "queued", "posted", "waiting", "over"}]
  /\ mem \in [Conns -> SUBSET (Strings \cup {"job", "state", "ai", "attempt"})]
  /\ addrs \in [Conns -> 0..MaxAddr] /\ tried \in [Conns -> Seq(1..MaxAddr)]
  /\ kernel \in [Conns -> {"none", "connecting", "connected", "failed", "given"}]
  /\ timer \in [Conns -> {"none", "armed", "due", "off"}]
  /\ deadline \in [Conns -> {"none", "running", "passed"}]
  /\ result \in [Conns -> Seq({"OK", "NOMEM", "TIMEDOUT", "NOTFOUND"})]
  /\ lst \in {"none", "open", "closed"}
  /\ acc \in [Accepts -> {"idle", "refused", "active", "freed"}]
  /\ {backlog, peers} \subseteq 0..MaxPeers /\ failures \in 0..MaxFailures
  /\ {stale, inside, misuse} \subseteq BOOLEAN /\ cur \in Accepts \cup {None}
  /\ watched \subseteq Conns \cup Accepts /\ edge \subseteq watched
  /\ batch \in Seq(Conns \cup Accepts) /\ todo \subseteq Conns
  /\ pc \in {"wait", "events", "tasks", "timers", "accepting", "callback", "crashed"}

(* A connect calls back once, and then it has freed its blocks and has      *)
(* neither a watcher nor a timer the loop may call; while it waits it has a *)
(* watcher, and a timer when it has a deadline.  It has tried the addresses *)
(* in their order, each once, and every one before it says NOTFOUND.        *)
ConnectTidy == TypeOK /\ \A c \in Conns :
  /\ Len(result[c]) = (IF job[c] = "over" THEN 1 ELSE 0)
  /\ job[c] = "over" => /\ mem[c] = {} /\ timer[c] \notin {"armed", "due"}
                        /\ (kernel[c] = "given") = (result[c] = <<"OK">>)
  /\ job[c] = "waiting" <=> c \in watched
  /\ job[c] = "waiting" => (timer[c] \in {"armed", "due"} <=> deadline[c] # "none")
  /\ \A k \in DOMAIN tried[c] : tried[c][k] = k
  /\ result[c] = <<"NOTFOUND">> => Len(tried[c]) = addrs[c]

(* The handler of an accept does not touch it once it is cancelled, whether *)
(* an event of the current batch still names it or its own callback, which  *)
(* the handler's loop goes on after, is where it was cancelled.             *)
AcceptAlive == ~misuse

(* The first half of it: an accept cancelled before its event is looked at  *)
(* is skipped, so nobody comes to touch a freed accept but by cancelling it *)
(* in its own callback.                                                     *)
StaleAcceptsSkipped == misuse => inside

(* A connect ends tidily and stale events of accepts are skipped, also in a *)
(* program whose callbacks cancel their own accept, until it ends of that.  *)
ConnectionsTidy == ConnectTidy /\ StaleAcceptsSkipped

(* A connect with a deadline ends, or the program does.                     *)
ConnectEnds == \A c \in Conns :
  job[c] = "queued" /\ deadline[c] # "none" ~> job[c] = "over" \/ pc = "crashed"

(* Connections that arrive in one burst, of which an edge-triggered watcher *)
(* hears once, are all taken, unless accept(2) fails in between.            *)
BurstAccepted ==
  Listening # {} /\ backlog > 0 ~> backlog = 0 \/ stale \/ Listening = {} \/ pc = "crashed"

(* Nobody who connects or accepts waits for ever: a connect with a deadline   *)
(* ends, and a burst of peers is taken.                                       *)
ConnectionsServed == ConnectEnds /\ BurstAccepted
=============================================================================
