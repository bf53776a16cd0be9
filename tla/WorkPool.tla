------------------------------ MODULE WorkPool ------------------------------
(***************************************************************************)
(* What the offload pool of the Tua runtime promises its callers, with no   *)
(* threads, no mutex and no condition variable: a job is refused or         *)
(* accepted; the accepted ones start in the order they were accepted, each  *)
(* once; a pool that is closed takes nothing more, but it is retired only   *)
(* after the last accepted job has finished.  Workqueue implements it.      *)
(***************************************************************************)
EXTENDS Sequences, FiniteSets

CONSTANT Jobs       \* the jobs callers may ever submit

VARIABLES backlog,  \* accepted jobs that have not started, oldest first
          running,  \* started jobs
          finished, \* jobs whose function has returned
          refused,  \* jobs the pool did not take
          phase     \* "open", "closed" or "retired"

vars == <<backlog, running, finished, refused, phase>>

Waiting == {backlog[k] : k \in DOMAIN backlog}
Known == Waiting \cup running \cup finished \cup refused

Init == /\ backlog = <<>>
        /\ running = {}
        /\ finished = {}
        /\ refused = {}
        /\ phase = "open"

Accept(j) == /\ phase = "open"
             /\ j \notin Known
             /\ backlog' = Append(backlog, j)
             /\ UNCHANGED <<running, finished, refused, phase>>

Refuse(j) == /\ phase # "retired"
             /\ j \notin Known
             /\ refused' = refused \cup {j}
             /\ UNCHANGED <<backlog, running, finished, phase>>

Start == /\ backlog # <<>>
         /\ running' = running \cup {Head(backlog)}
         /\ backlog' = Tail(backlog)
         /\ UNCHANGED <<finished, refused, phase>>

Finish(j) == /\ j \in running
             /\ running' = running \ {j}
             /\ finished' = finished \cup {j}
             /\ UNCHANGED <<backlog, refused, phase>>

Close == /\ phase = "open"
         /\ phase' = "closed"
         /\ UNCHANGED <<backlog, running, finished, refused>>

Retire == /\ phase = "closed"
          /\ backlog = <<>>
          /\ running = {}
          /\ phase' = "retired"
          /\ UNCHANGED <<backlog, running, finished, refused>>

Next == \/ \E j \in Jobs : Accept(j) \/ Refuse(j) \/ Finish(j)
        \/ Start \/ Close \/ Retire

Spec == /\ Init /\ [][Next]_vars
        /\ WF_vars(Start)
        /\ WF_vars(Retire)
        /\ \A j \in Jobs : WF_vars(Finish(j))
=============================================================================
