------------------------------- MODULE TcpOps -------------------------------
(***************************************************************************)
(* tua_tcp_read_async and tua_tcp_write_async (rt_net_posix.c).             *)
(*                                                                         *)
(* A call first tries the system call, and is over with a callback inside   *)
(* the call unless that would block.  Then an operation waits with a        *)
(* watcher for its descriptor and, when it has a deadline, a timer.  The    *)
(* loop (IoWatchers, EventLoop) serves events first and timers after; what  *)
(* comes first finishes the operation, cancels the other and frees it.      *)
(*                                                                         *)
(* Everything happens on the loop's thread except what the peer does.  A    *)
(* socket is closed when nothing waits on it (not modelled).                *)
(***************************************************************************)
EXTENDS Naturals, SequencesExt, FiniteSets

CONSTANTS Ops, Socks,
          Len0,     \* bytes an operation is given
          Buffer,   \* bytes of a kernel buffer, and that arrive in all (bound)
          Overlap,  \* writes may be started while another waits on the socket
          None

ASSUME TcpAssumption == /\ Len0 \in Nat \ {0} /\ Buffer \in Nat /\ Overlap \in BOOLEAN
                        /\ None \notin Ops /\ IsFiniteSet(Socks)

VARIABLES op,     \* op[o]: kind, socket, bytes done so far, and its state
          str,    \* str[o]: the string a write was given still exists
          watch,  \* watch[s]: the operation that watches s
          timer,  \* timer[o]: "none", "armed", "due" for the loop to call, "off"
          inbox,  \* inbox[s]: bytes that have arrived
          room,   \* room[s]: bytes the kernel would take
          hup,    \* hup[s]: the peer has shut its side down
          edge,   \* sockets whose watcher is on the kernel's ready list
          batch,  \* the sockets of the current round, and what was reported
          pc,
          out,    \* history: out[s][i] is the operation that sent byte i
          taken   \* history: taken[s][i] is the operation that read byte i

vars == <<op, str, watch, timer, inbox, room, hup, edge, batch, pc, out, taken>>
peer == <<inbox, room, hup>>
loopVars == <<edge, batch, pc>>

Idle == [kind |-> "read", sock |-> None, off |-> 0, st |-> "idle", err |-> "OK"]

Init == /\ op = [o \in Ops |-> Idle] /\ str = [o \in Ops |-> TRUE]
        /\ watch = [s \in Socks |-> None] /\ timer = [o \in Ops |-> "none"]
        /\ inbox = [s \in Socks |-> 0] /\ room \in [Socks -> 0..Buffer]
        /\ hup = [s \in Socks |-> FALSE]
        /\ edge = {} /\ batch = <<>> /\ pc = "tasks"
        /\ out = [s \in Socks |-> <<>>] /\ taken = [s \in Socks |-> <<>>]

Least(a, b) == IF a < b THEN a ELSE b
Pending(o) == op[o].st = "pending"
UserCode == pc \in {"events", "tasks", "timers"}
Watched(s) == watch[s] # None
Readable(s) == inbox[s] > 0 \/ hup[s]

(* Bytes move: a read of o takes n, a write of o sends n.                   *)
Bytes(o, n) == [i \in 1..n |-> o]
Take(s, o, n) == /\ inbox' = [inbox EXCEPT ![s] = @ - n]
                 /\ taken' = [taken EXCEPT ![s] = @ \o Bytes(o, n)]
                 /\ UNCHANGED <<room, hup, out>>
Send(s, o, n) == /\ room' = [room EXCEPT ![s] = @ - n]
                 /\ out' = [out EXCEPT ![s] = @ \o Bytes(o, n)]
                 /\ UNCHANGED <<inbox, hup, taken>>
NoBytes == UNCHANGED <<inbox, room, hup, out, taken>>

Sendable(s, o) == Least(Len0 - op[o].off, room[s])
-----------------------------------------------------------------------------
(* The peer, and the program's other threads                                *)
Ready(s) == IF Watched(s) THEN edge' = edge \cup {s} ELSE UNCHANGED edge

PeerSends(s) == /\ ~hup[s] /\ inbox[s] + Len(taken[s]) < Buffer
                /\ inbox' = [inbox EXCEPT ![s] = @ + 1] /\ Ready(s)
                /\ UNCHANGED <<op, str, watch, timer, room, hup, batch, pc, out, taken>>

PeerReads(s) == /\ room[s] < Buffer
                /\ room' = [room EXCEPT ![s] = @ + 1] /\ Ready(s)
                /\ UNCHANGED <<op, str, watch, timer, inbox, hup, batch, pc, out, taken>>

PeerCloses(s) == /\ ~hup[s]
                 /\ hup' = [hup EXCEPT ![s] = TRUE] /\ Ready(s)
                 /\ UNCHANGED <<op, str, watch, timer, inbox, room, batch, pc, out, taken>>

(* The string of a write that waits goes out of scope, once the call        *)
(* that borrowed it has returned.                                           *)
DropString(o) == /\ str[o] /\ op[o].kind = "write" /\ Pending(o)
                 /\ str' = [str EXCEPT ![o] = FALSE]
                 /\ UNCHANGED <<op, watch, timer, peer, loopVars, out, taken>>
-----------------------------------------------------------------------------
(* The calls                                                                *)
Became(o, k, s, n, st, e) == op' = [op EXCEPT ![o] = [kind |-> k, sock |-> s, off |-> n, st |-> st, err |-> e]]

(* No memory, or EPOLL_CTL_ADD says EEXIST as another operation waits: the  *)
(* call returns an error and there is no callback.                          *)
Refuse(o, k, s, n) == /\ Became(o, k, s, n, "refused", "IO")
                      /\ UNCHANGED <<watch, timer, edge>>

Wait(o, k, s, n) == /\ ~Watched(s)
                    /\ Became(o, k, s, n, "pending", "OK")
                    /\ watch' = [watch EXCEPT ![s] = o]
                    /\ timer' \in {[timer EXCEPT ![o] = t] : t \in {"none", "armed"}}
                    /\ edge' = IF k = "write" /\ hup[s] THEN edge \cup {s} ELSE edge

ReadAsync(o, s) ==
  /\ UserCode /\ op[o].st = "idle"
  /\ IF Readable(s)
     THEN LET n == Least(Len0, inbox[s]) IN
          /\ Became(o, "read", s, n, "done", IF n > 0 THEN "OK" ELSE "IO")
          /\ Take(s, o, n)
          /\ UNCHANGED <<watch, timer, edge>>
     ELSE NoBytes /\ (Wait(o, "read", s, 0) \/ Refuse(o, "read", s, 0))
  /\ UNCHANGED <<str, batch, pc>>

(* Once the peer has shut its side down, write goes on or fails (EPIPE).    *)
WriteAsync(o, s) ==
  /\ UserCode /\ op[o].st = "idle"
  /\ Overlap \/ \A p \in Ops : Pending(p) /\ op[p].kind = "write" => op[p].sock # s
  /\ \/ /\ hup[s]
        /\ \E n \in 0..Sendable(s, o) : Send(s, o, n) /\ Became(o, "write", s, n, "done", "IO")
        /\ UNCHANGED <<watch, timer, edge>>
     \/ LET n == Sendable(s, o) IN
        /\ Send(s, o, n)
        /\ IF n = Len0 THEN Became(o, "write", s, n, "done", "OK") /\ UNCHANGED <<watch, timer, edge>>
           ELSE Wait(o, "write", s, n) \/ Refuse(o, "write", s, n)
  /\ UNCHANGED <<str, batch, pc>>
-----------------------------------------------------------------------------
(* tua_read_finish and tua_write_finish: both registrations are cancelled,  *)
(* then the callback is called and the operation freed.                     *)
FinishKeepsTimer(o, n, e) ==
  /\ Became(o, op[o].kind, op[o].sock, n, "done", e)
  /\ watch' = [watch EXCEPT ![op[o].sock] = None]
  /\ edge' = edge \ {op[o].sock}
  /\ UNCHANGED timer

FinishKeepsWatch(o, n, e) ==
  /\ Became(o, op[o].kind, op[o].sock, n, "done", e)
  /\ timer' = [timer EXCEPT ![o] = IF @ = "none" THEN @ ELSE "off"]
  /\ UNCHANGED <<watch, edge>>

Finish(o, n, e) ==
  /\ Became(o, op[o].kind, op[o].sock, n, "done", e)
  /\ watch' = [watch EXCEPT ![op[o].sock] = None]
  /\ edge' = edge \ {op[o].sock}
  /\ timer' = [timer EXCEPT ![o] = IF @ = "none" THEN @ ELSE "off"]

Unfinished == UNCHANGED <<op, watch, timer, edge>>

(* epoll_wait: the sockets on the ready list in any order, each with the    *)
(* operation the event points to and whether it says HUP.                   *)
EventsOf(S) == {[sock |-> s, op |-> watch[s], hup |-> hup[s]] : s \in S}
Reportable(s) == hup[s] \/ IF op[watch[s]].kind = "read" THEN inbox[s] > 0 ELSE room[s] > 0
WaitEvents == /\ pc = "wait"
              /\ batch' \in SetToSeqs(EventsOf({s \in edge : Reportable(s)}))
              /\ edge' = {}
              /\ pc' = "events"
              /\ UNCHANGED <<op, str, watch, timer, peer, out, taken>>

(* One event.  The watcher may have been cancelled since.  HUP ends the     *)
(* operation with an error, bytes or not.                                   *)
ReadAgain(o) ==
  LET s == op[o].sock
      n == Least(Len0, inbox[s])
  IN IF Readable(s) THEN Take(s, o, n) /\ Finish(o, n, IF n > 0 THEN "OK" ELSE "IO")
     ELSE NoBytes /\ Unfinished

WriteRest(o) ==
  LET s == op[o].sock IN
  \/ /\ hup[s]
     /\ \E n \in 0..Sendable(s, o) : Send(s, o, n) /\ Finish(o, op[o].off + n, "IO")
  \/ LET off == op[o].off + Sendable(s, o) IN
     /\ Send(s, o, Sendable(s, o))
     /\ IF off = Len0 THEN Finish(o, off, "OK")
        ELSE Became(o, "write", s, off, "pending", "OK") /\ UNCHANGED <<watch, timer, edge>>

OnReady == /\ pc = "events" /\ batch # <<>>
           /\ batch' = Tail(batch)
           /\ LET e == Head(batch) IN
              IF watch[e.sock] # e.op THEN NoBytes /\ Unfinished
              ELSE IF e.hup THEN NoBytes /\ Finish(e.op, op[e.op].off, "IO")
              ELSE IF op[e.op].kind = "read" THEN ReadAgain(e.op) ELSE WriteRest(e.op)
           /\ UNCHANGED <<str, pc>>

RunTasks == /\ pc = "events" /\ batch = <<>>
            /\ pc' = "tasks"
            /\ UNCHANGED <<op, str, watch, timer, peer, edge, batch, out, taken>>

(* The timers that have come due leave the loop's list together.            *)
CollectDrops == /\ pc = "tasks"
                /\ \E S \in SUBSET {o \in Ops : timer[o] = "armed"} :
                     timer' = [o \in Ops |-> IF o \in S THEN "off" ELSE timer[o]]
                /\ pc' = "timers"
                /\ UNCHANGED <<op, str, watch, peer, edge, batch, out, taken>>

CollectDue == /\ pc = "tasks"
              /\ \E S \in SUBSET {o \in Ops : timer[o] = "armed"} :
                   timer' = [o \in Ops |-> IF o \in S THEN "due" ELSE timer[o]]
              /\ pc' = "timers"
              /\ UNCHANGED <<op, str, watch, peer, edge, batch, out, taken>>

TimeoutForgets(o) == /\ pc = "timers" /\ timer[o] = "due"
                     /\ Finish(o, 0, "TIMEDOUT")
                     /\ NoBytes
                     /\ UNCHANGED <<str, batch, pc>>

OnTimeout(o) == /\ pc = "timers" /\ timer[o] = "due"
                /\ Finish(o, IF op[o].kind = "write" THEN op[o].off ELSE 0, "TIMEDOUT")
                /\ NoBytes
                /\ UNCHANGED <<str, batch, pc>>

NextRound == /\ pc = "timers" /\ \A o \in Ops : timer[o] # "due"
             /\ pc' = "wait"
             /\ UNCHANGED <<op, str, watch, timer, peer, edge, batch, out, taken>>

LoopStep == WaitEvents \/ OnReady \/ RunTasks \/ CollectDue \/ NextRound
-----------------------------------------------------------------------------
Next == \/ \E s \in Socks : PeerSends(s) \/ PeerReads(s) \/ PeerCloses(s)
        \/ \E o \in Ops, s \in Socks : ReadAsync(o, s) \/ WriteAsync(o, s)
        \/ \E o \in Ops : DropString(o) \/ OnTimeout(o)
        \/ LoopStep

(* The loop's thread runs, and a deadline passes: an armed timer is among   *)
(* those collected in the end.                                              *)
Fairness == /\ WF_vars(LoopStep) /\ \A o \in Ops : WF_vars(OnTimeout(o))
            /\ \A o \in Ops : SF_vars(CollectDue /\ timer[o] = "armed" /\ timer'[o] = "due")

Spec == Init /\ [][Next]_vars /\ Fairness
-----------------------------------------------------------------------------
Results == {"OK", "IO", "TIMEDOUT"}
TypeOK == /\ op \in [Ops -> [kind : {"read", "write"}, sock : Socks \cup {None}, off : 0..Len0,
                            st : {"idle", "refused", "pending", "done"}, err : Results]]
          /\ str \in [Ops -> BOOLEAN]
          /\ watch \in [Socks -> Ops \cup {None}]
          /\ timer \in [Ops -> {"none", "armed", "due", "off"}]
          /\ inbox \in [Socks -> 0..Buffer] /\ room \in [Socks -> 0..Buffer]
          /\ hup \in [Socks -> BOOLEAN] /\ edge \subseteq Socks
          /\ batch \in Seq([sock : Socks, op : Ops, hup : BOOLEAN])
          /\ pc \in {"wait", "events", "tasks", "timers"}
          /\ out \in [Socks -> Seq(Ops)] /\ taken \in [Socks -> Seq(Ops)]

(* An operation that is over has been freed: neither a watcher nor a timer  *)
(* the loop may still call points to it, whichever of the two ended it; and *)
(* one that waits is watched, so that something can end it.                 *)
NothingDangles == TypeOK /\ \A o \in Ops :
  /\ op[o].st # "pending" => timer[o] \notin {"armed", "due"}
  /\ \A s \in Socks : watch[s] = o <=> Pending(o) /\ op[o].sock = s

(* Every byte is accounted for: what a callback is told, and what a waiting *)
(* write has noted, is what was moved, on its socket and nowhere else,      *)
(* through partial writes, timeouts and a peer that leaves.                 *)
Count(h, o) == Cardinality({i \in DOMAIN h : h[i] = o})
Moved(o, k, s) == IF op[o].kind = k /\ op[o].sock = s THEN op[o].off ELSE 0
BytesAccounted == \A o \in Ops, s \in Socks : /\ Count(out[s], o) = Moved(o, "write", s)
                                             /\ Count(taken[s], o) = Moved(o, "read", s)

(* The bytes of different writes do not mix on the wire, when the program   *)
(* starts no write on a socket while another waits there.                   *)
StreamInOrder == ~Overlap =>
  \A s \in Socks : \A i, k \in DOMAIN out[s] :
    i < k /\ out[s][i] = out[s][k] => \A j \in i..k : out[s][j] = out[s][i]

(* An operation with a deadline has its callback.                           *)
DeadlineEnds == \A o \in Ops : timer[o] = "armed" ~> op[o].st = "done"

(* SPEC 11.3: a callee uses what it borrows during the call and keeps it in *)
(* no asynchronous callback.                                                *)
BorrowEnds == \A o \in Ops : Pending(o) /\ op[o].kind = "write" => str[o]
=============================================================================
