----------------------------- MODULE LoopTasks ------------------------------
(***************************************************************************)
(* What tua_loop_post promises, with no pipe, no epoll and no mutex: a      *)
(* posted task waits its turn, tasks run one at a time in the order they    *)
(* were posted, each once.  A loop that is asked to stop may leave tasks    *)
(* behind; before that every posted task runs.  EventLoop implements it.    *)
(***************************************************************************)
EXTENDS Sequences

CONSTANT Tasks

VARIABLES pending,  \* posted tasks, oldest first; the running one is the head
          running,  \* TRUE while the head of pending is being run
          ran,      \* tasks whose function has returned
          stopping  \* tua_loop_stop was called

vars == <<pending, running, ran, stopping>>

Init == /\ pending = <<>>
        /\ running = FALSE
        /\ ran = {}
        /\ stopping = FALSE

Post(k) == /\ k \notin ran
           /\ \A i \in DOMAIN pending : pending[i] # k
           /\ pending' = Append(pending, k)
           /\ UNCHANGED <<running, ran, stopping>>

Begin == /\ ~running
         /\ pending # <<>>
         /\ running' = TRUE
         /\ UNCHANGED <<pending, ran, stopping>>

End == /\ running
       /\ ran' = ran \cup {Head(pending)}
       /\ pending' = Tail(pending)
       /\ running' = FALSE
       /\ UNCHANGED stopping

Stop == /\ stopping' = TRUE
        /\ UNCHANGED <<pending, running, ran>>

(* tua_loop_free throws away what a stopped loop left behind.               *)
Discard == /\ stopping
           /\ ~running
           /\ pending' = <<>>
           /\ UNCHANGED <<running, ran, stopping>>

Next == (\E k \in Tasks : Post(k)) \/ Begin \/ End \/ Stop \/ Discard

Spec == /\ Init /\ [][Next]_vars
        /\ WF_vars(Begin /\ ~stopping)
        /\ WF_vars(End)
=============================================================================
