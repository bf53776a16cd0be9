-------------------------------- MODULE MCTcp --------------------------------
(* TcpOps and TcpConnections for TLC.  They share the shape of a loop's round *)
(* and no state, so one is explored while the other has not begun: the union  *)
(* of their behaviours, and not the product.                                  *)
EXTENDS TcpOps, TLC

CONSTANTS Conns, Accepts, MaxAddr, MaxPeers, MaxFailures

VARIABLES job, mem, addrs, tried, kernel, ctimer, deadline, result, lst, acc, backlog,
          peers, failures, stale, inside, misuse, cur, watched, cedge, cbatch, todo, cpc

C == INSTANCE TcpConnections WITH timer <- ctimer, edge <- cedge, batch <- cbatch, pc <- cpc

ASSUME ConnectionsAssumption == C!ConnectionsAssumption

conns == <<job, mem, addrs, tried, kernel, ctimer, deadline, result, lst, acc, backlog,
           peers, failures, stale, inside, misuse, cur, watched, cedge, cbatch, todo, cpc>>
both == <<vars, conns>>

ConnsAtRest == C!Init /\ UNCHANGED conns
OpsAtRest   == Init /\ room = [s \in Socks |-> Buffer] /\ UNCHANGED vars

SockInit == Init /\ C!Init
SockNext == \/ ConnsAtRest /\ Next
            \/ OpsAtRest /\ C!Next

SockFairness ==
  /\ WF_both(ConnsAtRest /\ LoopStep) /\ \A o \in Ops : WF_both(ConnsAtRest /\ OnTimeout(o))
  /\ \A o \in Ops : SF_both(ConnsAtRest /\ CollectDue /\ timer[o] = "armed" /\ timer'[o] = "due")
  /\ WF_both(OpsAtRest /\ C!LoopStep)
  /\ \A c \in Conns : WF_both(OpsAtRest /\ C!ConnectWorker(c)) /\ WF_both(OpsAtRest /\ C!DeadlinePasses(c))

SockSpec == SockInit /\ [][SockNext]_both /\ SockFairness

(* The properties of TcpConnections.                                          *)
ConnectionsTidy   == C!ConnectionsTidy
ConnectionsServed == C!ConnectionsServed
=============================================================================
