------------------------------ MODULE MCValues ------------------------------
(* The memory of values for TLC: Ownership, and TuaMap.  They share no state, *)
(* so one is explored while the other has not begun: the union of their       *)
(* behaviours, and not the product.                                           *)
EXTENDS Ownership, TuaMap

CONSTANTS n1, n2, text, s1, s2

\* Two string objects have the same text, and the homes of the keys collide,
\* wrap around the end and part as the table grows.
MCText == s1 :> text @@ s2 :> text
MCHash == n1 :> 3 @@ text :> 3 @@ n2 :> 6

Family(types, forms, stmts, rounds) ==
  [types |-> types, forms |-> forms, stmts |-> stmts, rounds |-> rounds]

\* Every form in programs of four statements, and longer programs of fewer forms.
MCFamilies ==
  { Family({"str", "map"}, {"ref", "move", "lambda", "if", "block", "while", "pass", "return"}, 4, 1),
    Family({"map"}, {"ref", "block"}, 5, 1),
    Family({"map"}, {"lambda"}, 5, 1),
    Family({"str"}, {"while", "if", "return"}, 5, 2) }

\* The programs of Ownership know no string object of TuaMap.
Interchangeable == Permutations(Strs)

both == <<state, mapVars>>

ProgramAtRest == prog = <<>> /\ family = (CHOOSE f \in Families : TRUE) /\ UNCHANGED state
MapAtRest     == MapInit /\ UNCHANGED mapVars

ValuesInit == Init /\ MapInit
ValuesNext == (MapAtRest /\ Next) \/ (ProgramAtRest /\ MapNext)

ValuesSpec == ValuesInit /\ [][ValuesNext]_both
=============================================================================
