----------------------------- MODULE Dictionary -----------------------------
(***************************************************************************)
(* What a Tua map promises, with no table, no hashing and no tombstones: a  *)
(* value for each of some keys, and a loop over them that meets every key   *)
(* once.  An assignment may upset a loop (docs/SPEC.md leaves that          *)
(* undefined), and nothing is promised of it then; a deletion does not.     *)
(* TuaMap implements it.                                                    *)
(***************************************************************************)
CONSTANTS Keys, Values,
          Absent   \* what a key that is not in the map is given

VARIABLES dict,    \* dict[k]: the value of k, or Absent
          looping, \* there is a loop
          seen     \* keys it has met

vars == <<dict, looping, seen>>

Present == {k \in Keys : dict[k] # Absent}

Init == dict = [k \in Keys |-> Absent] /\ looping = FALSE /\ seen = {}

Upset == looping' = FALSE /\ seen' = {}

Set == \E k \in Keys :
         /\ Upset \/ (k \in Present /\ UNCHANGED <<looping, seen>>)
         /\ dict'[k] \in Values
         /\ dict' = [dict EXCEPT ![k] = dict'[k]]

Delete == /\ \E k \in Present : dict' = [dict EXCEPT ![k] = Absent]
          /\ UNCHANGED <<looping, seen>>

Clear == /\ dict' = [k \in Keys |-> Absent]
         /\ Upset \/ UNCHANGED <<looping, seen>>

Begin == ~looping /\ looping' = TRUE /\ UNCHANGED <<dict, seen>>

Meet == /\ looping
        /\ \E k \in Present \ seen : seen' = seen \cup {k}
        /\ UNCHANGED <<dict, looping>>

End == looping /\ Present \subseteq seen /\ Upset /\ UNCHANGED dict

Next == Begin \/ Meet \/ End \/ Delete \/ Clear \/ Set

Spec == Init /\ [][Next]_vars
=============================================================================
