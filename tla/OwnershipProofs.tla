--------------------------- MODULE OwnershipProofs ---------------------------
(***************************************************************************)
(* Proofs about Ownership, for any number of variables and statements: the  *)
(* code emitted for a program that the borrow checker accepts uses no       *)
(* memory after it was freed, reads no value that has gone, and counts the  *)
(* owners of every object, if the program has no lambda and no loop body    *)
(* that runs twice.                                                         *)
(***************************************************************************)
EXTENDS MCValues, FiniteSetTheorems, SequenceTheorems, WellFoundedInduction, TLAPS

(* A least element.                                                         *)
LEMMA LeastNatural ==
  ASSUME NEW T, T \subseteq Nat, T # {}
  PROVE  \E x \in T : \A y \in T : x <= y
<1> DEFINE R == OpToRel(<, Nat)
<1>1. IsWellFoundedOn(R, Nat)
  BY NatLessThanWellFounded
<1>2. \A x, y \in Nat : y < x => <<y, x>> \in R
  BY DEF OpToRel
<1> HIDE DEF R
<1>3. PICK x \in T : \A y \in T : ~(<<y, x>> \in R)
  BY <1>1, WFMin
<1>4. \A y \in T : ~(y < x)
  BY <1>2, <1>3
<1> QED
  BY <1>4
-----------------------------------------------------------------------------
(***************************************************************************)
(* The programs (Ownership).  A machine fits a set V of variables in scope  *)
(* when the count of each object covers the owners it has among them; e and *)
(* g are objects in the hand of a statement, 0 when it holds none.  L are   *)
(* the variables whose declaration has run: a string is in each of those.   *)
(***************************************************************************)
Xs == 1..MaxVars

(* What the code generator knows, the variables at run time, and the heap.  *)
CodeVar  == [t : {"none", "str", "map"}, boxed : {FALSE}, view : BOOLEAN, to : 0..MaxVars]
Cell     == [k : {"val"}, t : {"str", "map"}, rc : Nat, cell : {0}, caps : {<<>>}, code : {<<>>}]
Machines == [vars : [Xs -> CodeVar], slot : [Xs -> Nat], heap : Seq(Cell), faults : {{}}]

(* References and `const` views of a map own nothing.                       *)
IsOwner(m, x) == m.vars[x].to = 0 /\ ~m.vars[x].view
Own(m, V, o)  == {x \in V : IsOwner(m, x) /\ m.slot[x] = o}

(* The owners of object o in scope, and the hands that hold it.             *)
Held(m, V, o, e, g) ==
  Cardinality(Own(m, V, o)) + (IF o = e THEN 1 ELSE 0) + (IF o = g THEN 1 ELSE 0)

(* An owner holds an object of its kind; a string is in each declared       *)
(* owner.                                                                   *)
VarFits(m, L, x) ==
  /\ m.vars[x].t \in {"str", "map"}
  /\ m.vars[x].view => m.vars[x].t = "map" /\ m.vars[x].to = 0
  /\ IsOwner(m, x) /\ m.slot[x] # 0 => m.heap[m.slot[x]].t = m.vars[x].t
  /\ IsOwner(m, x) /\ m.vars[x].t = "str" => (m.slot[x] # 0 <=> x \in L)

(* A count covers the owners, and a map has at most one.                    *)
Covered(m, V, o, e, g, exact) ==
  /\ Held(m, V, o, e, g) <= m.heap[o].rc
  /\ m.heap[o].t = "map" => m.heap[o].rc <= 1
  /\ m.heap[o].t = "str" /\ exact => m.heap[o].rc = Held(m, V, o, e, g)

(* No call was given a string when exact: then no count is above its owners. *)
Fit(m, V, L, e, g, exact) ==
  /\ m \in Machines /\ L \subseteq V /\ V \subseteq Xs
  /\ e \in 0..Len(m.heap) /\ g \in 0..Len(m.heap)
  /\ \A x \in Xs : m.slot[x] \in 0..Len(m.heap)
  /\ \A x \in V : VarFits(m, L, x)
  /\ \A o \in 1..Len(m.heap) : Covered(m, V, o, e, g, exact)

(* Owners of an object are few enough to be counted.                        *)
LEMMA OwnFacts ==
  ASSUME NEW m, NEW V, V \subseteq Xs, NEW o
  PROVE  /\ IsFiniteSet(Own(m, V, o)) /\ Cardinality(Own(m, V, o)) \in Nat
         /\ \A x \in Own(m, V, o) : Cardinality(Own(m, V, o)) >= 1
         /\ \A W \in SUBSET V : Cardinality(Own(m, W, o)) <= Cardinality(Own(m, V, o))
<1>1. IsFiniteSet(Xs)
  BY OwnershipAssumption, FS_Interval DEF Xs
<1>2. \A W \in SUBSET V : IsFiniteSet(Own(m, W, o)) /\ Cardinality(Own(m, W, o)) \in Nat
  <2> SUFFICES ASSUME NEW W \in SUBSET V
               PROVE  IsFiniteSet(Own(m, W, o)) /\ Cardinality(Own(m, W, o)) \in Nat
    OBVIOUS
  <2>1. Own(m, W, o) \in SUBSET Xs
    BY DEF Own
  <2> QED
    BY <1>1, <2>1, FS_Subset, FS_CardinalityType
<1>3. ASSUME NEW x \in Own(m, V, o) PROVE Cardinality(Own(m, V, o)) >= 1
  BY <1>2, FS_EmptySet
<1>4. ASSUME NEW W \in SUBSET V PROVE Cardinality(Own(m, W, o)) <= Cardinality(Own(m, V, o))
  <2>1. Own(m, W, o) \in SUBSET Own(m, V, o)
    BY DEF Own
  <2> QED
    BY <1>2, <2>1, FS_Subset
<1> QED
  BY <1>2, <1>3, <1>4

(* A variable taken out of the scope is one owner less, or none.            *)
LEMMA OwnSplit ==
  ASSUME NEW m, NEW V, V \subseteq Xs, NEW o, NEW x \in V
  PROVE  /\ IsOwner(m, x) /\ m.slot[x] = o
              => Cardinality(Own(m, V, o)) = Cardinality(Own(m, V \ {x}, o)) + 1
         /\ ~(IsOwner(m, x) /\ m.slot[x] = o)
              => Cardinality(Own(m, V, o)) = Cardinality(Own(m, V \ {x}, o))
<1>1. Own(m, V \ {x}, o) = Own(m, V, o) \ {x}
  BY DEF Own
<1>2. /\ IsFiniteSet(Own(m, V, o))
      /\ Cardinality(Own(m, V \ {x}, o)) \in Nat /\ Cardinality(Own(m, V, o)) \in Nat
  BY OwnFacts
<1>3. CASE IsOwner(m, x) /\ m.slot[x] = o
  <2>1. x \in Own(m, V, o)
    BY <1>3 DEF Own
  <2>2. Cardinality(Own(m, V, o) \ {x}) = Cardinality(Own(m, V, o)) - 1
    BY <1>2, <2>1, FS_RemoveElement
  <2>3. Cardinality(Own(m, V \ {x}, o)) = Cardinality(Own(m, V, o)) - 1
    BY <1>1, <2>2
  <2> QED
    BY <1>2, <1>3, <2>3
<1>4. CASE ~(IsOwner(m, x) /\ m.slot[x] = o)
  <2>1. x \notin Own(m, V, o)
    BY <1>4 DEF Own
  <2>2. Cardinality(Own(m, V, o) \ {x}) = Cardinality(Own(m, V, o))
    BY <1>2, <2>1, FS_RemoveElement
  <2> QED
    BY <1>1, <1>2, <1>4, <2>2
<1> QED
  BY <1>3, <1>4

LEMMA OwnSame ==
  ASSUME NEW m, NEW n, NEW V, NEW o,
         \A z \in V : n.vars[z] = m.vars[z] /\ n.slot[z] = m.slot[z]
  PROVE  Own(n, V, o) = Own(m, V, o)
BY DEF Own, IsOwner

LEMMA Cells ==
  ASSUME NEW m \in Machines, NEW o \in 1..Len(m.heap)
  PROVE  /\ m.heap[o] \in Cell /\ m.heap[o].rc \in Nat /\ m.heap[o].t \in {"str", "map"}
         /\ m.heap[o].k = "val"
<1>1. m.heap \in Seq(Cell) /\ m.heap[o] \in Cell
  BY DEF Machines
<1> QED
  BY <1>1 DEF Cell

(* A count changes.                                                         *)
Recount(m, n, o, r) ==
  /\ n \in Machines /\ n.vars = m.vars /\ n.slot = m.slot
  /\ Len(n.heap) = Len(m.heap)
  /\ \A q \in 1..Len(m.heap) :
       n.heap[q].t = m.heap[q].t /\ n.heap[q].rc = IF q = o THEN r ELSE m.heap[q].rc

(* A count that changes with what the hands hold.                           *)
LEMMA Recounted ==
  ASSUME NEW m \in Machines, NEW o \in 1..Len(m.heap), NEW r \in Nat,
         NEW n, n = [m EXCEPT !.heap[o].rc = r]
  PROVE  Recount(m, n, o, r)
<1> DEFINE c == [m.heap[o] EXCEPT !.rc = r]
           h == [m.heap EXCEPT ![o] = c]
<1>1. m.heap \in Seq(Cell) /\ m.heap[o] \in Cell
  BY DEF Machines
<1>2. c \in Cell /\ c.t = m.heap[o].t /\ c.rc = r
  BY <1>1 DEF Cell
<1>3. h \in Seq(Cell) /\ Len(h) = Len(m.heap)
      /\ \A q \in 1..Len(m.heap) : h[q] = IF q = o THEN c ELSE m.heap[q]
  <2> HIDE DEF c
  <2> QED
    BY <1>1, <1>2
<1>4. n = [m EXCEPT !.heap = h]
  BY DEF Machines
<1> HIDE DEF h, c
<1>5. n.heap = h /\ n.vars = m.vars /\ n.slot = m.slot /\ n.faults = m.faults
      /\ n \in Machines
  BY <1>3, <1>4 DEF Machines
<1> QED
  BY <1>2, <1>3, <1>5 DEF Recount
-----------------------------------------------------------------------------
(* A value in hand.                                                         *)
LEMMA HeldFacts ==
  ASSUME NEW m, NEW V, V \subseteq Xs, NEW o, NEW e, NEW g
  PROVE  /\ Held(m, V, o, e, g) \in Nat
         /\ Held(m, V, o, e, g) = Held(m, V, o, g, e)
         /\ o = e \/ o = g => Held(m, V, o, e, g) >= 1
         /\ \A x \in V : IsOwner(m, x) /\ m.slot[x] = o => Held(m, V, o, e, g) >= 1
<1>1. Cardinality(Own(m, V, o)) \in Nat
  BY OwnFacts
<1>2. \A x \in V : IsOwner(m, x) /\ m.slot[x] = o => x \in Own(m, V, o)
  BY DEF Own
<1>3. \A x \in Own(m, V, o) : Cardinality(Own(m, V, o)) >= 1
  BY OwnFacts
<1> QED
  BY <1>1, <1>2, <1>3 DEF Held

(* The two hands can be told apart by nothing.                              *)
LEMMA Swapped ==
  ASSUME NEW m, NEW V, NEW L, NEW e, NEW g, NEW exact, Fit(m, V, L, e, g, exact)
  PROVE  Fit(m, V, L, g, e, exact)
BY HeldFacts DEF Fit, Covered

LEMMA CellsAlive ==
  ASSUME NEW m, NEW V, NEW L, NEW e, NEW g, NEW exact, Fit(m, V, L, e, g, exact)
  PROVE  /\ \A x \in V : IsOwner(m, x) /\ m.slot[x] # 0 => m.heap[m.slot[x]].rc > 0
         /\ e # 0 => m.heap[e].rc > 0
         /\ \A o \in 1..Len(m.heap) : m.heap[o] \in Cell
<1>1. \A o \in 1..Len(m.heap) : Held(m, V, o, e, g) <= m.heap[o].rc /\ m.heap[o] \in Cell
                                /\ m.heap[o].rc \in Nat
  BY Cells DEF Fit, Covered
<1>2. V \subseteq Xs /\ \A x \in V : m.slot[x] \in 0..Len(m.heap)
  BY DEF Fit
<1>3. ASSUME NEW o \in 1..Len(m.heap), Held(m, V, o, e, g) >= 1 PROVE m.heap[o].rc > 0
  BY <1>1, <1>2, <1>3, HeldFacts
<1>4. ASSUME NEW x \in V, IsOwner(m, x), m.slot[x] # 0 PROVE m.heap[m.slot[x]].rc > 0
  <2>1. m.slot[x] \in 1..Len(m.heap)
    BY <1>2, <1>4
  <2>2. Held(m, V, m.slot[x], e, g) >= 1
    BY <1>2, <1>4, HeldFacts
  <2> QED
    BY <1>3, <2>1, <2>2
<1>5. ASSUME e # 0 PROVE m.heap[e].rc > 0
  <2>1. e \in 1..Len(m.heap) /\ Held(m, V, e, e, g) >= 1
    BY <1>2, <1>5, HeldFacts DEF Fit
  <2> QED
    BY <1>3, <2>1
<1> QED
  BY <1>1, <1>4, <1>5

(* The value of a variable is taken out of it.                              *)
LEMMA Taken ==
  ASSUME NEW m, NEW V, NEW L, NEW e, NEW exact, Fit(m, V, L, e, 0, exact),
         NEW x \in V, IsOwner(m, x)
  PROVE  Fit(m, V \ {x}, L \ {x}, e, m.slot[x], exact)
<1>1. V \subseteq Xs /\ m.slot[x] \in 0..Len(m.heap) /\ x \in Xs
  BY DEF Fit
<1>2. \A o \in 1..Len(m.heap) : Held(m, V \ {x}, o, e, m.slot[x]) = Held(m, V, o, e, 0)
  <2> TAKE o \in 1..Len(m.heap)
  <2>1. /\ m.slot[x] = o => Cardinality(Own(m, V, o)) = Cardinality(Own(m, V \ {x}, o)) + 1
        /\ m.slot[x] # o => Cardinality(Own(m, V, o)) = Cardinality(Own(m, V \ {x}, o))
    BY <1>1, OwnSplit
  <2>2. Cardinality(Own(m, V \ {x}, o)) \in Nat /\ Cardinality(Own(m, V, o)) \in Nat
    BY <1>1, OwnFacts
  <2> QED
    BY <2>1, <2>2 DEF Held
<1>3. \A z \in V \ {x} : VarFits(m, L \ {x}, z)
  BY DEF Fit, VarFits
<1> QED
  BY <1>1, <1>2, <1>3 DEF Fit, Covered

(* The value in hand is put into a variable that owns nothing.              *)
LEMMA Put ==
  ASSUME NEW m, NEW V, NEW L, NEW e, NEW g, NEW exact, Fit(m, V, L, e, g, exact),
         NEW x \in Xs \ V, NEW n \in Machines, n.heap = m.heap,
         \A z \in Xs \ {x} : n.vars[z] = m.vars[z] /\ n.slot[z] = m.slot[z],
         IsOwner(n, x), n.slot[x] = g, n.vars[x].t \in {"str", "map"},
         g # 0 => m.heap[g].t = n.vars[x].t,
         NEW K, K \ {x} = L \ {x}, K \subseteq V \cup {x},
         n.vars[x].t = "str" => (g # 0 <=> x \in K)
  PROVE  Fit(n, V \cup {x}, K, e, 0, exact)
<1>1. V \subseteq Xs /\ g \in 0..Len(m.heap) /\ V \cup {x} \subseteq Xs /\ x \notin L
  BY DEF Fit
<1>2. \A o \in 1..Len(m.heap) : Held(n, V \cup {x}, o, e, 0) = Held(m, V, o, e, g)
  <2> TAKE o \in 1..Len(m.heap)
  <2>0. x \in V \cup {x}
    OBVIOUS
  <2>1. /\ g = o => Cardinality(Own(n, V \cup {x}, o)) = Cardinality(Own(n, (V \cup {x}) \ {x}, o)) + 1
        /\ g # o => Cardinality(Own(n, V \cup {x}, o)) = Cardinality(Own(n, (V \cup {x}) \ {x}, o))
    <3>1. V \cup {x} \subseteq Xs /\ IsOwner(n, x) /\ n.slot[x] = g
      BY <1>1
    <3> DEFINE W == V \cup {x}
    <3> HIDE DEF W
    <3>2. W \subseteq Xs /\ x \in W
      BY <2>0, <3>1 DEF W
    <3>3. /\ IsOwner(n, x) /\ n.slot[x] = o
               => Cardinality(Own(n, W, o)) = Cardinality(Own(n, W \ {x}, o)) + 1
          /\ ~(IsOwner(n, x) /\ n.slot[x] = o)
               => Cardinality(Own(n, W, o)) = Cardinality(Own(n, W \ {x}, o))
      BY <3>2, OwnSplit
    <3> QED
      BY <3>1, <3>3 DEF W
  <2>2. (V \cup {x}) \ {x} = V
    OBVIOUS
  <2>3. Own(n, V, o) = Own(m, V, o)
    BY <1>1, OwnSame
  <2>4. Cardinality(Own(m, V, o)) \in Nat
    BY <1>1, OwnFacts
  <2>5. Own(n, (V \cup {x}) \ {x}, o) = Own(m, V, o)
    BY <2>2, <2>3
  <2>6. Cardinality(Own(n, (V \cup {x}) \ {x}, o)) = Cardinality(Own(m, V, o))
    BY <2>5
  <2> QED
    BY <2>1, <2>4, <2>6 DEF Held
<1>3. \A z \in V : VarFits(n, K, z)
  <2> TAKE z \in V
  <2>1. VarFits(m, L, z) /\ z # x /\ n.vars[z] = m.vars[z] /\ n.slot[z] = m.slot[z] /\ (z \in L <=> z \in K)
    BY <1>1 DEF Fit
  <2> QED
    BY <2>1 DEF VarFits, IsOwner
<1>4. VarFits(n, K, x)
  BY DEF VarFits, IsOwner
<1>5. \A z \in Xs : n.slot[z] \in 0..Len(n.heap)
  BY <1>1 DEF Fit
<1>6. \A o \in 1..Len(n.heap) : Covered(n, V \cup {x}, o, e, 0, exact)
  <2>1. \A o \in 1..Len(m.heap) : Covered(m, V, o, e, g, exact)
    BY DEF Fit
  <2> TAKE o \in 1..Len(n.heap)
  <2>2. o \in 1..Len(m.heap) /\ Covered(m, V, o, e, g, exact) /\ Held(n, V \cup {x}, o, e, 0) = Held(m, V, o, e, g)
    BY <1>2, <2>1
  <2> QED
    BY <2>2 DEF Covered
<1>7. e \in 0..Len(n.heap) /\ 0 \in 0..Len(n.heap)
  BY <1>1 DEF Fit
<1>8. \A z \in V \cup {x} : VarFits(n, K, z)
  BY <1>3, <1>4
<1> QED
  BY <1>1, <1>5, <1>6, <1>7, <1>8 DEF Fit

(* A variable that owns nothing is declared.                                *)
LEMMA Bound ==
  ASSUME NEW m, NEW V, NEW L, NEW e, NEW g, NEW exact, Fit(m, V, L, e, g, exact),
         NEW x \in Xs \ V, NEW n \in Machines, n.heap = m.heap,
         \A z \in Xs \ {x} : n.vars[z] = m.vars[z] /\ n.slot[z] = m.slot[z],
         ~IsOwner(n, x), n.slot[x] \in 0..Len(m.heap), n.vars[x].t \in {"str", "map"},
         n.vars[x].view => n.vars[x].t = "map" /\ n.vars[x].to = 0,
         NEW K, K \ {x} = L \ {x}, K \subseteq V \cup {x}
  PROVE  Fit(n, V \cup {x}, K, e, g, exact)
<1>1. V \subseteq Xs /\ g \in 0..Len(m.heap) /\ V \cup {x} \subseteq Xs /\ x \notin L
  BY DEF Fit
<1>2. \A o \in 1..Len(m.heap) : Held(n, V \cup {x}, o, e, g) = Held(m, V, o, e, g)
  <2> TAKE o \in 1..Len(m.heap)
  <2>0. x \in V \cup {x}
    OBVIOUS
  <2>1. Cardinality(Own(n, V \cup {x}, o)) = Cardinality(Own(n, (V \cup {x}) \ {x}, o))
    <3>1. V \cup {x} \subseteq Xs /\ ~(IsOwner(n, x) /\ n.slot[x] = o)
      BY <1>1
    <3> DEFINE W == V \cup {x}
    <3> HIDE DEF W
    <3>2. W \subseteq Xs /\ x \in W
      BY <2>0, <3>1 DEF W
    <3>3. ~(IsOwner(n, x) /\ n.slot[x] = o) => Cardinality(Own(n, W, o)) = Cardinality(Own(n, W \ {x}, o))
      BY <3>2, OwnSplit
    <3> QED
      BY <3>1, <3>3 DEF W
  <2>2. (V \cup {x}) \ {x} = V
    OBVIOUS
  <2>3. Own(n, V, o) = Own(m, V, o)
    BY <1>1, OwnSame
  <2>4. Cardinality(Own(m, V, o)) \in Nat
    BY <1>1, OwnFacts
  <2>5. Own(n, (V \cup {x}) \ {x}, o) = Own(m, V, o)
    BY <2>2, <2>3
  <2>6. Cardinality(Own(n, (V \cup {x}) \ {x}, o)) = Cardinality(Own(m, V, o))
    BY <2>5
  <2> QED
    BY <2>1, <2>4, <2>6 DEF Held
<1>3. \A z \in V : VarFits(n, K, z)
  <2> TAKE z \in V
  <2>1. VarFits(m, L, z) /\ z # x /\ n.vars[z] = m.vars[z] /\ n.slot[z] = m.slot[z] /\ (z \in L <=> z \in K)
    BY <1>1 DEF Fit
  <2> QED
    BY <2>1 DEF VarFits, IsOwner
<1>4. VarFits(n, K, x)
  BY DEF VarFits
<1>5. \A z \in Xs : n.slot[z] \in 0..Len(n.heap)
  BY <1>1 DEF Fit
<1>6. \A o \in 1..Len(n.heap) : Covered(n, V \cup {x}, o, e, g, exact)
  BY <1>2 DEF Fit, Covered
<1>7. e \in 0..Len(n.heap) /\ g \in 0..Len(n.heap)
  BY <1>1 DEF Fit
<1>8. \A z \in V \cup {x} : VarFits(n, K, z)
  BY <1>3, <1>4
<1> QED
  BY <1>1, <1>5, <1>6, <1>7, <1>8 DEF Fit

(* Variables are forgotten when no string is left in them.                  *)
LEMMA Forgotten ==
  ASSUME NEW m, NEW V, NEW L, NEW e, NEW exact, Fit(m, V, L, e, 0, exact),
         NEW W, W \subseteq V, NEW K, K \subseteq W,
         \A z \in W : z \in K <=> z \in L,
         \A z \in V \ W : IsOwner(m, z) /\ m.vars[z].t = "str" => m.slot[z] = 0
  PROVE  Fit(m, W, K, e, 0, exact)
<1>1. V \subseteq Xs /\ W \in SUBSET V /\ W \subseteq Xs
  BY DEF Fit
<1>2. \A z \in W : VarFits(m, K, z)
  BY DEF Fit, VarFits
<1>3. ASSUME NEW o \in 1..Len(m.heap) PROVE Covered(m, W, o, e, 0, exact)
  <2>1. Cardinality(Own(m, W, o)) <= Cardinality(Own(m, V, o))
        /\ Cardinality(Own(m, W, o)) \in Nat /\ Cardinality(Own(m, V, o)) \in Nat
    BY <1>1, OwnFacts
  <2>2. Held(m, W, o, e, 0) <= Held(m, V, o, e, 0)
        /\ Held(m, W, o, e, 0) \in Nat /\ Held(m, V, o, e, 0) \in Nat
    BY <2>1 DEF Held
  <2>3. ASSUME m.heap[o].t = "str" PROVE Held(m, W, o, e, 0) = Held(m, V, o, e, 0)
    <3>1. \A z \in V : IsOwner(m, z) /\ m.slot[z] = o => m.vars[z].t = "str"
      BY <2>3 DEF Fit, VarFits
    <3>2. Own(m, W, o) = Own(m, V, o)
      BY <3>1 DEF Own
    <3> QED
      BY <3>2 DEF Held
  <2>4. Covered(m, V, o, e, 0, exact) /\ m.heap[o].rc \in Nat
    BY Cells DEF Fit
  <2> QED
    BY <2>2, <2>3, <2>4 DEF Covered
<1> QED
  BY <1>1, <1>2, <1>3 DEF Fit

(* A string in hand is released, a map in hand is freed.                    *)
Same(m, n) ==
  /\ n.vars = m.vars /\ n.slot = m.slot /\ Len(n.heap) = Len(m.heap)
  /\ \A q \in 1..Len(m.heap) : n.heap[q].t = m.heap[q].t

LEMMA Counted ==
  ASSUME NEW m, NEW V, NEW L, NEW e, NEW g, NEW exact, Fit(m, V, L, e, g, exact),
         NEW o \in 1..Len(m.heap), NEW r \in Nat, NEW n, Recount(m, n, o, r),
         NEW d \in 0..Len(m.heap), NEW f \in 0..Len(m.heap),
         \A q \in 1..Len(m.heap) : q # o => Held(m, V, q, d, f) = Held(m, V, q, e, g),
         Held(m, V, o, d, f) <= r,
         m.heap[o].t = "map" => r <= 1,
         m.heap[o].t = "str" /\ exact => r = Held(m, V, o, d, f)
  PROVE  Fit(n, V, L, d, f, exact) /\ Same(m, n)
<1>1. m \in Machines /\ V \subseteq Xs
  BY DEF Fit
<1>2. Recount(m, n, o, r)
  OBVIOUS
<1>3. \A q \in 1..Len(n.heap) : Held(n, V, q, d, f) = Held(m, V, q, d, f)
  BY <1>2 DEF Held, Own, IsOwner, Recount
<1>4. \A q \in 1..Len(n.heap) : Covered(n, V, q, d, f, exact)
  BY <1>2, <1>3 DEF Fit, Covered, Recount
<1>5. \A z \in V : VarFits(n, L, z)
  <2> TAKE z \in V
  <2>1. VarFits(m, L, z) /\ m.slot[z] \in 0..Len(m.heap)
    BY <1>1 DEF Fit
  <2> QED
    BY <1>2, <2>1 DEF VarFits, IsOwner, Recount
<1>6. \A z \in Xs : n.slot[z] \in 0..Len(n.heap)
  BY <1>2 DEF Fit, Recount
<1> QED
  BY <1>2, <1>4, <1>5, <1>6 DEF Fit, Recount, Same

LEMMA HeldOther ==
  ASSUME NEW m, NEW V, V \subseteq Xs, NEW o, NEW e, NEW g
  PROVE  /\ o # g /\ o # 0 => Held(m, V, o, e, g) = Held(m, V, o, e, 0)
         /\ o = g /\ o # 0 => Held(m, V, o, e, g) = Held(m, V, o, e, 0) + 1
         /\ Held(m, V, o, e, 0) \in Nat
<1> DEFINE c == Cardinality(Own(m, V, o))
<1>1. c \in Nat
  BY OwnFacts
<1>2. \A h : Held(m, V, o, e, h) = c + (IF o = e THEN 1 ELSE 0) + (IF o = h THEN 1 ELSE 0)
  BY DEF Held
<1> HIDE DEF c
<1> QED
  BY <1>1, <1>2

(* What a hand holds is released.                                           *)
LEMMA Released ==
  ASSUME NEW m, NEW V, NEW L, NEW e, NEW g, NEW exact, Fit(m, V, L, e, g, exact),
         g # 0 => m.heap[g].t = "str"
  PROVE  LET n == StrRelease(m, g)
         IN  Fit(n, V, L, e, 0, exact) /\ Same(m, n)
<1>1. CASE g = 0
  BY <1>1 DEF StrRelease, Touch, Same
<1>2. CASE g # 0
  <2>1. g \in 1..Len(m.heap) /\ V \subseteq Xs /\ m \in Machines /\ e \in 0..Len(m.heap)
    BY <1>2 DEF Fit
  <2>2. m.heap[g].rc \in Nat /\ Covered(m, V, g, e, g, exact)
    BY <2>1, Cells DEF Fit
  <2>3. Held(m, V, g, e, g) = Held(m, V, g, e, 0) + 1 /\ Held(m, V, g, e, 0) \in Nat
    BY <2>1, HeldOther
  <2>4. /\ m.heap[g].rc # 0 /\ m.heap[g].rc - 1 \in Nat
        /\ Held(m, V, g, e, 0) <= m.heap[g].rc - 1
        /\ exact => m.heap[g].rc - 1 = Held(m, V, g, e, 0)
    BY <1>2, <2>2, <2>3 DEF Covered
  <2>5. StrRelease(m, g) = [m EXCEPT !.heap[g].rc = m.heap[g].rc - 1]
    BY <1>2, <2>4 DEF StrRelease, Touch
  <2>6. \A q \in 1..Len(m.heap) : q # g => Held(m, V, q, e, 0) = Held(m, V, q, e, g)
    BY <2>1, HeldOther
  <2>7. 0 \in 0..Len(m.heap) /\ m.heap[g].t # "map"
    BY <1>2, <2>1
  <2> DEFINE r == m.heap[g].rc - 1
  <2>8. r \in Nat /\ Held(m, V, g, e, 0) <= r /\ (exact => r = Held(m, V, g, e, 0))
        /\ StrRelease(m, g) = [m EXCEPT !.heap[g].rc = r]
    BY <2>4, <2>5
  <2> HIDE DEF r
  <2>9. Recount(m, StrRelease(m, g), g, r)
    BY <2>1, <2>8, Recounted
  <2> QED
    BY <2>1, <2>6, <2>7, <2>8, <2>9, Counted
<1> QED
  BY <1>1, <1>2

(* A map in the hand is freed.                                              *)
LEMMA Freed ==
  ASSUME NEW m, NEW V, NEW L, NEW e, NEW g, NEW exact, Fit(m, V, L, e, g, exact),
         g # 0 => m.heap[g].t = "map"
  PROVE  LET n == MapFree(m, g)
         IN  Fit(n, V, L, e, 0, exact) /\ Same(m, n)
<1>1. CASE g = 0
  BY <1>1 DEF MapFree, Touch, Same
<1>2. CASE g # 0
  <2>1. g \in 1..Len(m.heap) /\ V \subseteq Xs /\ m \in Machines /\ e \in 0..Len(m.heap)
    BY <1>2 DEF Fit
  <2>2. m.heap[g].rc \in Nat /\ Covered(m, V, g, e, g, exact)
    BY <2>1, Cells DEF Fit
  <2>3. Held(m, V, g, e, g) = Held(m, V, g, e, 0) + 1 /\ Held(m, V, g, e, 0) \in Nat
    BY <2>1, HeldOther
  <2>4. m.heap[g].rc # 0 /\ Held(m, V, g, e, 0) <= 0
    BY <1>2, <2>2, <2>3 DEF Covered
  <2>5. MapFree(m, g) = [m EXCEPT !.heap[g].rc = 0]
    BY <1>2, <2>4 DEF MapFree, Touch
  <2>6. \A q \in 1..Len(m.heap) : q # g => Held(m, V, q, e, 0) = Held(m, V, q, e, g)
    BY <2>1, HeldOther
  <2>7. 0 \in 0..Len(m.heap) /\ m.heap[g].t # "str" /\ 0 \in Nat /\ 0 <= 1
    BY <1>2, <2>1
  <2>8. Recount(m, MapFree(m, g), g, 0)
    BY <2>1, <2>5, Recounted
  <2> QED
    BY <2>1, <2>4, <2>6, <2>7, <2>8, Counted
<1> QED
  BY <1>1, <1>2

(* A string is retained for the hand.                                       *)
LEMMA Retained ==
  ASSUME NEW m, NEW V, NEW L, NEW g, NEW exact, Fit(m, V, L, 0, g, exact),
         NEW o \in 1..Len(m.heap), m.heap[o].t = "str", m.heap[o].rc > 0
  PROVE  LET n == StrRetain(m, o)
         IN  Fit(n, V, L, o, g, exact) /\ Same(m, n) /\ n.heap[o].t = "str"
<1>1. V \subseteq Xs /\ m \in Machines /\ g \in 0..Len(m.heap) /\ o # 0
  BY DEF Fit
<1>2. m.heap[o].rc \in Nat /\ Covered(m, V, o, 0, g, exact)
  BY <1>1, Cells DEF Fit
<1>3. /\ Held(m, V, o, g, o) = Held(m, V, o, g, 0) + 1 /\ Held(m, V, o, g, 0) \in Nat
      /\ Held(m, V, o, g, o) = Held(m, V, o, o, g)
      /\ Held(m, V, o, g, 0) = Held(m, V, o, 0, g)
  BY <1>1, HeldOther, HeldFacts
<1> DEFINE r == m.heap[o].rc + 1
<1>4. /\ r \in Nat /\ Held(m, V, o, o, g) <= r
      /\ exact => r = Held(m, V, o, o, g)
  BY <1>2, <1>3 DEF Covered
<1>5. StrRetain(m, o) = [m EXCEPT !.heap[o].rc = r]
  BY <1>1 DEF StrRetain, Touch
<1>6. \A q \in 1..Len(m.heap) : q # o => Held(m, V, q, o, g) = Held(m, V, q, 0, g)
  BY DEF Held
<1>7. o \in 0..Len(m.heap) /\ m.heap[o].t # "map"
  OBVIOUS
<1> HIDE DEF r
<1>8. Recount(m, StrRetain(m, o), o, r)
  BY <1>1, <1>4, <1>5, Recounted
<1>9. Fit(StrRetain(m, o), V, L, o, g, exact) /\ Same(m, StrRetain(m, o))
  BY <1>1, <1>4, <1>6, <1>7, <1>8, Counted
<1> QED
  BY <1>1, <1>8, <1>9 DEF Recount

(* A call keeps a count of the string it is given.                          *)
Slack(exact) == ~exact

(* A call may lose a string: then its count is one too high for ever.       *)
LEMMA Lost ==
  ASSUME NEW m, NEW V, NEW L, NEW e, NEW g, NEW exact, Slack(exact), Fit(m, V, L, e, g, exact)
  PROVE  Fit(m, V, L, 0, g, exact)
<1>1. V \subseteq Xs /\ m \in Machines
  BY DEF Fit
<1>2. ASSUME NEW o \in 1..Len(m.heap) PROVE Covered(m, V, o, 0, g, exact)
  <2>1. Covered(m, V, o, e, g, exact) /\ m.heap[o].rc \in Nat
    BY <1>1, Cells DEF Fit
  <2>2. Held(m, V, o, 0, g) <= Held(m, V, o, e, g) /\ Held(m, V, o, 0, g) \in Nat /\ Held(m, V, o, e, g) \in Nat
    BY <1>1, HeldFacts, HeldOther
  <2> QED
    BY <2>1, <2>2 DEF Covered, Slack
<1>3. 0 \in 0..Len(m.heap)
  BY <1>1 DEF Machines
<1> QED
  BY <1>1, <1>2, <1>3 DEF Fit

LEMMA Loosened ==
  ASSUME NEW m, NEW V, NEW L, NEW e, NEW g, NEW exact, Fit(m, V, L, e, g, exact),
         NEW loose, loose = exact \/ Slack(loose)
  PROVE  Fit(m, V, L, e, g, loose)
BY DEF Fit, Covered, Slack

(* A fresh value is in hand.                                                *)
LEMMA Allocated ==
  ASSUME NEW m, NEW V, NEW L, NEW g, NEW exact, Fit(m, V, L, 0, g, exact), NEW t \in {"str", "map"}
  PROVE  LET n == Alloc(m, Object("val", t, 0, <<>>, <<>>))
         IN  /\ Fit(n, V, L, Newest(n), g, exact)
             /\ n.vars = m.vars /\ n.slot = m.slot /\ Newest(n) = Len(m.heap) + 1
             /\ n.heap[Newest(n)].t = t
             /\ \A q \in 1..Len(m.heap) : n.heap[q] = m.heap[q]
<1> DEFINE c == Object("val", t, 0, <<>>, <<>>)
           h == Append(m.heap, c)
           n == Alloc(m, c)
           w == Len(m.heap) + 1
<1>1. m \in Machines /\ V \subseteq Xs /\ m.heap \in Seq(Cell) /\ g \in 0..Len(m.heap)
  BY DEF Fit, Machines
<1>2. c \in Cell /\ c.t = t /\ c.rc = 1
  BY DEF Object, Cell
<1>3. /\ h \in Seq(Cell) /\ Len(h) = w /\ h[w] = c /\ w \in Nat /\ w \in 0..w /\ Len(m.heap) \in Nat
      /\ \A q \in 1..Len(m.heap) : h[q] = m.heap[q]
  <2> HIDE DEF c
  <2> QED
    BY <1>1, <1>2
<1>4. n = [m EXCEPT !.heap = h]
  BY DEF Alloc
<1>5. n \in Machines /\ n.heap = h /\ n.vars = m.vars /\ n.slot = m.slot
  <2> HIDE DEF h, n
  <2> QED
    BY <1>1, <1>3, <1>4 DEF Machines
<1>6. Newest(n) = w
  BY <1>3, <1>5 DEF Newest
<1> HIDE DEF h, n, c
<1>7. \A q \in 1..Len(m.heap) : Held(n, V, q, w, g) = Held(m, V, q, 0, g)
  BY <1>3, <1>5 DEF Held, Own, IsOwner
<1>8. Held(n, V, w, w, g) = 1
  <2>1. Own(n, V, w) = {}
    BY <1>1, <1>3, <1>5 DEF Own, Fit
  <2>2. w # g
    BY <1>1, <1>3
  <2>3. Cardinality(Own(n, V, w)) = 0
    BY <2>1, FS_EmptySet
  <2> QED
    BY <2>2, <2>3 DEF Held
<1>9. \A q \in 1..Len(n.heap) : Covered(n, V, q, w, g, exact)
  <2> TAKE q \in 1..Len(n.heap)
  <2>1. CASE q = w
    BY <1>2, <1>3, <1>5, <1>8, <2>1 DEF Covered
  <2>2. CASE q # w
    <3>1. q \in 1..Len(m.heap)
      BY <1>3, <1>5, <2>2
    <3> QED
      BY <1>3, <1>5, <1>7, <3>1 DEF Fit, Covered
  <2> QED
    BY <2>1, <2>2
<1>10. \A z \in V : VarFits(n, L, z)
  <2> TAKE z \in V
  <2>1. VarFits(m, L, z) /\ m.slot[z] \in 0..Len(m.heap)
    BY <1>1 DEF Fit
  <2> QED
    BY <1>3, <1>5, <2>1 DEF VarFits, IsOwner
<1>11. \A z \in Xs : n.slot[z] \in 0..Len(n.heap)
  BY <1>3, <1>5 DEF Fit
<1>12. Fit(n, V, L, w, g, exact)
  BY <1>1, <1>3, <1>5, <1>9, <1>10, <1>11 DEF Fit
<1>13. n.heap[Newest(n)].t = t /\ \A q \in 1..Len(m.heap) : n.heap[q] = m.heap[q]
  BY <1>2, <1>3, <1>5, <1>6
<1> QED
  BY <1>5, <1>6, <1>12, <1>13 DEF n, c

(* What holds at 0 and goes up holds everywhere below a bound.              *)
LEMMA Upward ==
  ASSUME NEW n \in Nat, NEW S, 0 \in S, \A i \in 0..n : i # n /\ i \in S => i + 1 \in S
  PROVE  \A i \in 0..n : i \in S
<1> SUFFICES ASSUME NEW i \in 0..n, i \notin S PROVE FALSE
  OBVIOUS
<1> DEFINE Bad == {k \in 0..n : k \notin S}
<1>0. Bad \subseteq Nat /\ Bad # {}
  OBVIOUS
<1>1. PICK k \in Bad : \A y \in Bad : k <= y
  <2> HIDE DEF Bad
  <2> QED
    BY <1>0, LeastNatural
<1>2. k \in 0..n /\ k \notin S /\ k # 0
  BY <1>1
<1>3. k - 1 \in 0..n /\ k - 1 # n /\ k - 1 \notin Bad
  BY <1>1, <1>2
<1> QED
  BY <1>2, <1>3

(* The run-time operations.                                                 *)
LEMMA Stored ==
  ASSUME NEW m \in Machines, NEW x \in Xs, NEW v \in Nat, NEW n, n = [m EXCEPT !.slot[x] = v]
  PROVE  /\ n \in Machines /\ n.heap = m.heap /\ n.vars = m.vars /\ n.slot[x] = v
         /\ \A z \in Xs \ {x} : n.slot[z] = m.slot[z]
BY DEF Machines

LEMMA Defined ==
  ASSUME NEW m \in Machines, NEW x \in Xs, NEW v \in Nat, NEW c \in CodeVar
  PROVE  LET n == Bind(m, x, v, c)
         IN  /\ n \in Machines /\ n.heap = m.heap /\ n.vars[x] = c /\ n.slot[x] = v
             /\ \A z \in Xs \ {x} : n.slot[z] = m.slot[z] /\ n.vars[z] = m.vars[z]
BY DEF Machines, Bind

LEMMA VarFacts ==
  ASSUME NEW m \in Machines, NEW x \in Xs
  PROVE  /\ m.vars[x] \in CodeVar /\ m.vars[x].boxed = FALSE /\ m.vars[x].to \in 0..MaxVars
         /\ m.vars[x].t \in {"none", "str", "map"} /\ m.vars[x].view \in BOOLEAN
         /\ m.slot[x] \in Nat
<1>1. m.vars[x] \in CodeVar /\ m.slot[x] \in Nat
  BY DEF Machines
<1> QED
  BY <1>1 DEF CodeVar

(* What dropping a variable leaves of it.                                   *)
Drops(m, n, x) ==
  /\ n.vars = m.vars /\ Len(n.heap) = Len(m.heap)
  /\ \A z \in Xs \ {x} : n.slot[z] = m.slot[z]
  /\ ~(IsOwner(m, x) /\ m.vars[x].t = "str") => n.slot = m.slot

(* The drop of a variable that goes out of scope.                           *)
LEMMA Dropped ==
  ASSUME NEW m, NEW V, NEW L, NEW e, NEW exact, Fit(m, V, L, e, 0, exact), NEW x \in V
  PROVE  Fit(DropVar(m, x), V, L \ {x}, e, 0, exact) /\ Drops(m, DropVar(m, x), x)
<1>1. m \in Machines /\ x \in Xs /\ V \subseteq Xs /\ VarFits(m, L, x) /\ L \subseteq V
      /\ m.slot[x] \in 0..Len(m.heap)
  BY DEF Fit
<1>2. m.vars[x].boxed = FALSE
  BY <1>1, VarFacts
<1>3. CASE m.vars[x].to # 0 \/ m.vars[x].t = "map"
  <2>1. DropVar(m, x) = m
    BY <1>2, <1>3 DEF DropVar
  <2>2. ~(IsOwner(m, x) /\ m.vars[x].t = "str")
    BY <1>3 DEF IsOwner
  <2>3. \A z \in V : VarFits(m, L \ {x}, z)
    BY <2>2 DEF Fit, VarFits
  <2>4. Fit(m, V, L \ {x}, e, 0, exact)
    BY <2>3 DEF Fit
  <2> QED
    BY <2>1, <2>4 DEF Drops
<1>4. CASE m.vars[x].to = 0 /\ m.vars[x].t = "str"
  <2> DEFINE r == StrRelease(m, m.slot[x])
             n == [r EXCEPT !.slot[x] = 0]
  <2>1. DropVar(m, x) = n
    BY <1>2, <1>4 DEF DropVar
  <2>2. IsOwner(m, x)
    BY <1>1, <1>4 DEF VarFits, IsOwner
  <2>3. Fit(m, V \ {x}, L \ {x}, e, m.slot[x], exact)
    BY <2>2, Taken
  <2>4. m.slot[x] # 0 => m.heap[m.slot[x]].t = "str"
    BY <1>1, <1>4, <2>2 DEF VarFits
  <2>5. Fit(r, V \ {x}, L \ {x}, e, 0, exact) /\ Same(m, r)
    BY <2>3, <2>4, Released
  <2> HIDE DEF r
  <2>6. /\ n \in Machines /\ n.heap = r.heap /\ n.vars = r.vars /\ n.slot[x] = 0
        /\ \A z \in Xs \ {x} : n.slot[z] = r.slot[z]
    <3>1. r \in Machines /\ 0 \in Nat
      BY <2>5 DEF Fit
    <3>2. n = [r EXCEPT !.slot[x] = 0]
      OBVIOUS
    <3> HIDE DEF n
    <3> QED
      BY <1>1, <3>1, <3>2, Stored
  <2> HIDE DEF n
  <2>7. Drops(m, n, x)
    BY <2>2, <2>5, <2>6, <1>4 DEF Drops, Same
  <2>8. Fit(n, (V \ {x}) \cup {x}, L \ {x}, e, 0, exact)
    <3>1. x \in Xs \ (V \ {x}) /\ IsOwner(n, x) /\ n.vars[x].t = "str"
      BY <1>1, <1>4, <2>2, <2>5, <2>6 DEF IsOwner, Same
    <3>2. (L \ {x}) \ {x} = (L \ {x}) \ {x} /\ L \ {x} \subseteq (V \ {x}) \cup {x} /\ x \notin L \ {x}
      BY <1>1
    <3>3. \A z \in Xs \ {x} : n.vars[z] = r.vars[z] /\ n.slot[z] = r.slot[z]
      BY <2>6
    <3> QED
      BY <2>5, <2>6, <3>1, <3>2, <3>3, Put
  <2>9. (V \ {x}) \cup {x} = V
    OBVIOUS
  <2> QED
    BY <2>1, <2>7, <2>8, <2>9
<1> QED
  BY <1>1, <1>3, <1>4 DEF VarFits

(* Dropping the variables of a block, one after the other.                  *)
Dropping(p, m, s, n) == p = [i \in 0..n |-> IF i = 0 THEN m ELSE DropVar(p[i - 1], s[i])]

LEMMA DroppingExists ==
  ASSUME NEW m, NEW s, NEW n \in Nat
  PROVE  \E p : Dropping(p, m, s, n)
<1> DEFINE S == {k \in 0..n : \E p : Dropping(p, m, s, k)}
<1>1. 0 \in S
  <2> DEFINE q == [i \in 0..0 |-> m]
  <2>1. q = [i \in 0..0 |-> IF i = 0 THEN m ELSE DropVar(q[i - 1], s[i])]
    OBVIOUS
  <2> HIDE DEF q
  <2>2. Dropping(q, m, s, 0)
    BY <2>1 DEF Dropping
  <2> QED
    BY <2>2
<1>2. ASSUME NEW k \in 0..n, k # n, k \in S PROVE k + 1 \in S
  <2>1. PICK p : Dropping(p, m, s, k)
    BY <1>2
  <2> DEFINE q == [i \in 0..(k + 1) |-> IF i = k + 1 THEN DropVar(p[k], s[k + 1]) ELSE p[i]]
  <2>2. ASSUME NEW i \in 0..(k + 1)
        PROVE  q[i] = (IF i = 0 THEN m ELSE DropVar(q[i - 1], s[i]))
    <3>1. CASE i = k + 1
      <4>1. q[i] = DropVar(p[k], s[k + 1]) /\ i # 0 /\ i - 1 = k /\ q[k] = p[k]
        BY <3>1
      <4> HIDE DEF q
      <4> QED
        BY <3>1, <4>1
    <3>2. CASE i # k + 1
      <4>1. i \in 0..k /\ q[i] = p[i]
        BY <3>2
      <4>2. i # 0 => i - 1 \in 0..k /\ q[i - 1] = p[i - 1]
        BY <4>1
      <4>3. p[i] = (IF i = 0 THEN m ELSE DropVar(p[i - 1], s[i]))
        BY <2>1, <4>1 DEF Dropping
      <4> HIDE DEF q
      <4> QED
        BY <4>1, <4>2, <4>3
    <3> QED
      BY <3>1, <3>2
  <2>3. Dropping(q, m, s, k + 1)
    BY <2>2 DEF Dropping
  <2> HIDE DEF q
  <2> QED
    BY <1>2, <2>3
<1> HIDE DEF S
<1>3. n \in S
  BY <1>1, <1>2, Upward
<1> QED
  BY <1>3 DEF S

LEMMA DropBlockIs ==
  ASSUME NEW m, NEW b, Len(b.names) \in Nat
  PROVE  \E p : Dropping(p, m, b.names, Len(b.names)) /\ DropBlock(m, b) = p[Len(b.names)]
<1> DEFINE p == CHOOSE p : Dropping(p, m, b.names, Len(b.names))
<1>1. Dropping(p, m, b.names, Len(b.names))
  BY DroppingExists
<1>2. DropBlock(m, b) = p[Len(b.names)]
  BY DEF DropBlock, Dropping
<1> QED
  BY <1>1, <1>2

(* What dropping the variables of Z leaves.                                 *)
Cleared(m, n, Z) ==
  /\ n.vars = m.vars /\ Len(n.heap) = Len(m.heap)
  /\ \A z \in Xs : z \notin Z \/ ~(IsOwner(m, z) /\ m.vars[z].t = "str") => n.slot[z] = m.slot[z]

(* The drops at the end of a block.                                         *)
LEMMA BlockDropped ==
  ASSUME NEW m, NEW V, NEW L, NEW e, NEW exact, Fit(m, V, L, e, 0, exact),
         NEW b, b.names \in Seq(V)
  PROVE  LET n == DropBlock(m, b)
         IN  Fit(n, V, L \ Range(b.names), e, 0, exact) /\ Cleared(m, n, Range(b.names))
<1> DEFINE s == b.names
           Z(i) == {s[j] : j \in 1..i}
<1>1. Len(s) \in Nat /\ \A i \in 1..Len(s) : s[i] \in V
  OBVIOUS
<1>2. PICK p : Dropping(p, m, s, Len(s)) /\ DropBlock(m, b) = p[Len(s)]
  BY <1>1, DropBlockIs
<1> DEFINE S == {i \in 0..Len(s) : Fit(p[i], V, L \ Z(i), e, 0, exact) /\ Cleared(m, p[i], Z(i))}
<1>3. 0 \in S
  <2>1. p[0] = m /\ 0 \in 0..Len(s)
    BY <1>1, <1>2 DEF Dropping
  <2>2. Z(0) = {} /\ L \ {} = L
    OBVIOUS
  <2> QED
    BY <2>1, <2>2 DEF Cleared
<1>4. ASSUME NEW i \in 0..Len(s), i # Len(s), i \in S PROVE i + 1 \in S
  <2>1. i + 1 \in 1..Len(s) /\ i + 1 \in 0..Len(s) /\ i + 1 # 0 /\ (i + 1) - 1 = i
    BY <1>1, <1>4
  <2>2. p[i + 1] = DropVar(p[i], s[i + 1])
    BY <1>2, <2>1 DEF Dropping
  <2>3. Fit(p[i], V, L \ Z(i), e, 0, exact) /\ Cleared(m, p[i], Z(i))
    BY <1>4
  <2>4. s[i + 1] \in V
    BY <1>1, <2>1
  <2>5. Fit(p[i + 1], V, (L \ Z(i)) \ {s[i + 1]}, e, 0, exact) /\ Drops(p[i], p[i + 1], s[i + 1])
    <3> DEFINE m0 == p[i]
               x0 == s[i + 1]
               L0 == L \ Z(i)
    <3>1. Fit(m0, V, L0, e, 0, exact) /\ x0 \in V
      BY <2>3, <2>4
    <3> HIDE DEF m0, x0, L0
    <3>2. Fit(DropVar(m0, x0), V, L0 \ {x0}, e, 0, exact) /\ Drops(m0, DropVar(m0, x0), x0)
      BY <3>1, Dropped
    <3> QED
      BY <2>2, <3>2 DEF m0, x0, L0
  <2>6. Z(i + 1) = Z(i) \cup {s[i + 1]}
    BY <2>1
  <2>7. (L \ Z(i)) \ {s[i + 1]} = L \ Z(i + 1)
    BY <2>6
  <2>8. Cleared(m, p[i + 1], Z(i + 1))
    <3> HIDE DEF Z, s
    <3> QED
      BY <2>3, <2>5, <2>6 DEF Cleared, Drops, IsOwner
  <2> QED
    BY <2>1, <2>5, <2>7, <2>8
<1>5. Len(s) \in S
  <2>1. Len(s) \in Nat /\ Len(s) \in 0..Len(s)
    BY <1>1
  <2> HIDE DEF S
  <2>2. \A i \in 0..Len(s) : i # Len(s) /\ i \in S => i + 1 \in S
    BY <1>4
  <2> QED
    BY <1>3, <2>1, <2>2, Upward
<1>6. Z(Len(s)) = Range(b.names)
  BY DEF Range
<1> QED
  BY <1>2, <1>5, <1>6

(* Dropping every open scope.                                               *)
Inner(i) == blocks[Len(blocks) + 1 - i]
Leaving(p, m, n) == p = [i \in 0..n |-> IF i = 0 THEN m ELSE DropBlock(p[i - 1], Inner(i))]

LEMMA LeavingExists ==
  ASSUME NEW m, NEW n \in Nat
  PROVE  \E p : Leaving(p, m, n)
<1> DEFINE S == {k \in 0..n : \E p : Leaving(p, m, k)}
<1>1. 0 \in S
  <2> DEFINE q == [i \in 0..0 |-> m]
  <2>1. q = [i \in 0..0 |-> IF i = 0 THEN m ELSE DropBlock(q[i - 1], Inner(i))]
    OBVIOUS
  <2> HIDE DEF q
  <2>2. Leaving(q, m, 0)
    BY <2>1 DEF Leaving
  <2> QED
    BY <2>2
<1>2. ASSUME NEW k \in 0..n, k # n, k \in S PROVE k + 1 \in S
  <2>1. PICK p : Leaving(p, m, k)
    BY <1>2
  <2> DEFINE q == [i \in 0..(k + 1) |-> IF i = k + 1 THEN DropBlock(p[k], Inner(k + 1)) ELSE p[i]]
  <2>2. ASSUME NEW i \in 0..(k + 1)
        PROVE  q[i] = (IF i = 0 THEN m ELSE DropBlock(q[i - 1], Inner(i)))
    <3>1. CASE i = k + 1
      <4>1. q[i] = DropBlock(p[k], Inner(k + 1)) /\ i # 0 /\ i - 1 = k /\ q[k] = p[k]
        BY <3>1
      <4> HIDE DEF q
      <4> QED
        BY <3>1, <4>1
    <3>2. CASE i # k + 1
      <4>1. i \in 0..k /\ q[i] = p[i]
        BY <3>2
      <4>2. i # 0 => i - 1 \in 0..k /\ q[i - 1] = p[i - 1]
        BY <4>1
      <4>3. p[i] = (IF i = 0 THEN m ELSE DropBlock(p[i - 1], Inner(i)))
        BY <2>1, <4>1 DEF Leaving
      <4> HIDE DEF q
      <4> QED
        BY <4>1, <4>2, <4>3
    <3> QED
      BY <3>1, <3>2
  <2>3. Leaving(q, m, k + 1)
    BY <2>2 DEF Leaving
  <2> HIDE DEF q
  <2> QED
    BY <1>2, <2>3
<1> HIDE DEF S
<1>3. n \in S
  BY <1>1, <1>2, Upward
<1> QED
  BY <1>3 DEF S

LEMMA DropScopesIs ==
  ASSUME NEW m, Len(blocks) \in Nat
  PROVE  \E p : Leaving(p, m, Len(blocks)) /\ DropScopes(m) = p[Len(blocks)]
<1> DEFINE p == CHOOSE p : Leaving(p, m, Len(blocks))
<1>1. Leaving(p, m, Len(blocks))
  BY LeavingExists
<1>2. DropScopes(m) = p[Len(blocks)]
  BY DEF DropScopes, Leaving, Inner
<1> QED
  BY <1>1, <1>2

(* The drops of all blocks, at a return.                                    *)
LEMMA ScopesDropped ==
  ASSUME NEW m, NEW V, NEW L, NEW e, NEW exact, Fit(m, V, L, e, 0, exact),
         Len(blocks) \in Nat,
         \A k \in 1..Len(blocks) : blocks[k].names \in Seq(V),
         \A x \in L : \E k \in 1..Len(blocks) : x \in Range(blocks[k].names)
  PROVE  Fit(DropScopes(m), V, {}, e, 0, exact) /\ DropScopes(m).vars = m.vars
<1> DEFINE n == Len(blocks)
           Z(i) == {x \in L : \E j \in 1..i : x \in Range(Inner(j).names)}
<1>1. n \in Nat /\ \A i \in 1..n : Inner(i).names \in Seq(V)
  BY DEF Inner
<1>2. PICK p : Leaving(p, m, n) /\ DropScopes(m) = p[n]
  BY <1>1, DropScopesIs
<1> DEFINE S == {i \in 0..n : Fit(p[i], V, L \ Z(i), e, 0, exact) /\ p[i].vars = m.vars}
<1>3. 0 \in S
  <2>1. p[0] = m /\ 0 \in 0..n
    BY <1>1, <1>2 DEF Leaving
  <2>2. Z(0) = {} /\ L \ {} = L
    OBVIOUS
  <2> QED
    BY <2>1, <2>2
<1>4. ASSUME NEW i \in 0..n, i # n, i \in S PROVE i + 1 \in S
  <2>1. i + 1 \in 1..n /\ i + 1 \in 0..n /\ i + 1 # 0 /\ (i + 1) - 1 = i
    BY <1>1, <1>4
  <2>2. p[i + 1] = DropBlock(p[i], Inner(i + 1))
    BY <1>2, <2>1 DEF Leaving
  <2>3. Fit(p[i], V, L \ Z(i), e, 0, exact) /\ p[i].vars = m.vars
    BY <1>4
  <2> DEFINE m0 == p[i]
             b0 == Inner(i + 1)
             L0 == L \ Z(i)
  <2>4. Fit(m0, V, L0, e, 0, exact) /\ b0.names \in Seq(V)
    BY <1>1, <2>1, <2>3
  <2>5. Fit(DropBlock(m0, b0), V, L0 \ Range(b0.names), e, 0, exact) /\ Cleared(m0, DropBlock(m0, b0), Range(b0.names))
    <3> HIDE DEF m0, b0, L0
    <3> QED
      BY <2>4, BlockDropped
  <2>6. L0 \ Range(b0.names) = L \ Z(i + 1)
    BY <2>1
  <2>7. Fit(p[i + 1], V, L \ Z(i + 1), e, 0, exact) /\ Cleared(p[i], p[i + 1], Range(b0.names))
    <3> HIDE DEF Z
    <3> QED
      BY <2>2, <2>5, <2>6
  <2> QED
    BY <2>1, <2>3, <2>7 DEF Cleared
<1>5. n \in S
  <2>1. n \in Nat /\ n \in 0..n
    BY <1>1
  <2> HIDE DEF S
  <2>2. \A i \in 0..n : i # n /\ i \in S => i + 1 \in S
    BY <1>4
  <2> QED
    BY <1>3, <2>1, <2>2, Upward
<1>6. L \ Z(n) = {}
  <2> SUFFICES ASSUME NEW x \in L PROVE x \in Z(n)
    OBVIOUS
  <2>1. PICK k \in 1..n : x \in Range(blocks[k].names)
    OBVIOUS
  <2>2. n + 1 - k \in 1..n /\ n + 1 - (n + 1 - k) = k
    BY <1>1
  <2>3. Inner(n + 1 - k) = blocks[k]
    BY <2>2 DEF Inner
  <2> QED
    BY <2>1, <2>2, <2>3
<1> QED
  BY <1>2, <1>5, <1>6

(* The initialisers.                                                        *)
LEMMA Compiled ==
  ASSUME NEW m \in Machines, NEW y \in Xs
  PROVE  /\ \A t : Compile(m, New(t)) = [m |-> Alloc(m, Object("val", t, 0, <<>>, <<>>)),
                                         v |-> Newest(Alloc(m, Object("val", t, 0, <<>>, <<>>)))]
         /\ Compile(m, Var(y)) = [m |-> m, v |-> m.slot[y]]
         /\ Compile(m, Ref(y)) = [m |-> m, v |-> 0]
         /\ Compile(m, Move(y)) = [m |-> IF IsMoved(m.vars[y]) THEN [m EXCEPT !.slot[y] = 0] ELSE m,
                                   v |-> m.slot[y]]
<1>1. m.vars[y].boxed = FALSE
  BY VarFacts
<1> QED
  BY <1>1 DEF Compile, New, Var, Ref, Move, Load, Store

OwnerVar(t)  == [t |-> t, boxed |-> FALSE, view |-> FALSE, to |-> 0]
ViewVar      == [t |-> "map", boxed |-> FALSE, view |-> TRUE, to |-> 0]
RefVar(t, y) == [t |-> t, boxed |-> FALSE, view |-> FALSE, to |-> y]
RunLet(m, s) == ExecLet(m, s, FALSE)

LEMMA KindFacts ==
  /\ \A t : OwnerVar(t).t = t /\ OwnerVar(t).to = 0 /\ ~OwnerVar(t).view
  /\ ViewVar.t = "map" /\ ViewVar.to = 0 /\ ViewVar.view
  /\ \A t, y : RefVar(t, y).t = t /\ RefVar(t, y).to = y /\ ~RefVar(t, y).view
  /\ \A t \in {"str", "map"} : OwnerVar(t) \in CodeVar /\ \A y \in Xs : RefVar(t, y) \in CodeVar
  /\ ViewVar \in CodeVar
BY OwnershipAssumption DEF OwnerVar, ViewVar, RefVar, CodeVar, Xs

(* What the code of each declaration comes to.                              *)
LEMMA LetNewIs ==
  ASSUME NEW m \in Machines, NEW x \in Xs, NEW const \in BOOLEAN, NEW t \in {"str", "map"}
  PROVE  LET n == Alloc(m, Object("val", t, 0, <<>>, <<>>))
         IN  RunLet(m, Let(const, x, New(t))) = Bind(n, x, Newest(n), OwnerVar(t))
<1> DEFINE n == Alloc(m, Object("val", t, 0, <<>>, <<>>))
           s == Let(const, x, New(t))
<1>1. s.const = const /\ s.x = x /\ s.init = New(t) /\ s.init.k = "new" /\ s.init.t = t /\ s.init.y = 0
  BY DEF Let, Stmt, New
<1>2. Compile(m, s.init).m = n /\ Compile(m, s.init).v = Newest(n)
  <2>1. Compile(m, New(t)) = [m |-> n, v |-> Newest(n)]
    BY Compiled
  <2> HIDE DEF n, s
  <2> QED
    BY <1>1, <2>1
<1> HIDE DEF n, s
<1>3. Declared(m, s, FALSE) = OwnerVar(t)
  BY <1>1 DEF Declared, OwnerVar, ViewVar, RefVar
<1>4. s.init.k \notin {"var", "group"} /\ s.init.k # "var" /\ s.x = x
  BY <1>1
<1>5. RunLet(m, s) = Bind(n, x, Newest(n), OwnerVar(t))
  BY <1>2, <1>3, <1>4, KindFacts DEF RunLet, ExecLet, Define
<1> QED
  BY <1>5 DEF s, n

LEMMA LetVarIs ==
  ASSUME NEW m \in Machines, NEW x \in Xs, NEW y \in Xs, NEW const \in BOOLEAN, m.vars[y].to = 0
  PROVE  LET n == RunLet(m, Let(const, x, Var(y)))
             v == m.slot[y]
         IN  /\ m.vars[y].t = "str" => n = Bind(StrRetain(m, v), x, v, OwnerVar("str"))
             /\ m.vars[y].t = "map" /\ const => n = Bind(m, x, v, ViewVar)
             /\ m.vars[y].t = "map" /\ ~const => n = Store(Bind(m, x, v, OwnerVar("map")), y, 0)
<1> DEFINE s == Let(const, x, Var(y))
           v == m.slot[y]
<1>1. s.const = const /\ s.x = x /\ s.init = Var(y) /\ s.init.k = "var" /\ s.init.y = y
  BY DEF Let, Stmt, Var
<1>2. Compile(m, s.init).m = m /\ Compile(m, s.init).v = v
  <2>1. Compile(m, Var(y)) = [m |-> m, v |-> v]
    BY Compiled
  <2> HIDE DEF v, s
  <2> QED
    BY <1>1, <2>1
<1> HIDE DEF v, s
<1>3. s.init.k \in {"var", "group"} /\ s.x = x /\ s.init.k = "var" /\ s.init.y = y /\ s.const = const
  BY <1>1
<1>4. m.vars[y].t = "str" => ~IsMoved(m.vars[s.init.y])
  BY <1>1 DEF IsMoved
<1>8. m.vars[y].t = "map" => IsMoved(m.vars[s.init.y])
  BY <1>1 DEF IsMoved
<1>9. Declared(m, s, FALSE) = OwnerVar("map") => Define(m, s, FALSE) = Bind(m, x, v, OwnerVar("map"))
  <2> DEFINE d == OwnerVar("map")
  <2>1. d.t # "str"
    BY DEF OwnerVar
  <2> HIDE DEF d
  <2>2. Declared(m, s, FALSE) = d => Define(m, s, FALSE) = Bind(m, s.x, v, d)
    <3> SUFFICES ASSUME Declared(m, s, FALSE) = d PROVE Define(m, s, FALSE) = Bind(m, s.x, v, d)
      OBVIOUS
    <3> DEFINE r == IF d.t = "str" /\ s.init.k \in {"var", "group"} /\ d.to = 0
                    THEN StrRetain(Compile(m, s.init).m, Compile(m, s.init).v) ELSE Compile(m, s.init).m
    <3>1. r = m
      BY <1>2, <2>1
    <3>2. Define(m, s, FALSE) = Bind(r, s.x, Compile(m, s.init).v, d)
      BY DEF Define
    <3> HIDE DEF r
    <3> QED
      BY <1>2, <3>1, <3>2
  <2> QED
    BY <1>3, <2>2 DEF d
<1>5. ASSUME m.vars[y].t = "str"
      PROVE  RunLet(m, s) = Bind(StrRetain(m, v), x, v, OwnerVar("str"))
  <2>1. Declared(m, s, FALSE) = OwnerVar("str")
    BY <1>1, <1>5 DEF Declared, OwnerVar, ViewVar, RefVar
  <2>2. ~(~s.const /\ s.init.k = "var" /\ IsMoved(m.vars[s.init.y]))
    BY <1>4, <1>5
  <2>3. OwnerVar("str").t = "str" /\ OwnerVar("str").to = 0
    BY DEF OwnerVar, ViewVar
  <2> QED
    BY <1>2, <1>3, <2>1, <2>2, <2>3 DEF RunLet, ExecLet, Define
<1>6. ASSUME m.vars[y].t = "map", const
      PROVE  RunLet(m, s) = Bind(m, x, v, ViewVar)
  <2>1. Declared(m, s, FALSE) = ViewVar
    BY <1>1, <1>6 DEF Declared, OwnerVar, ViewVar, RefVar
  <2>2. ~(~s.const /\ s.init.k = "var" /\ IsMoved(m.vars[s.init.y]))
    BY <1>3, <1>6
  <2>3. ViewVar.t # "str"
    BY DEF OwnerVar, ViewVar
  <2> QED
    BY <1>2, <1>3, <2>1, <2>2, <2>3 DEF RunLet, ExecLet, Define
<1>7. ASSUME m.vars[y].t = "map", ~const
      PROVE  RunLet(m, s) = Store(Bind(m, x, v, OwnerVar("map")), y, 0)
  <2>1. Declared(m, s, FALSE) = OwnerVar("map")
    BY <1>1, <1>7 DEF Declared, OwnerVar, ViewVar, RefVar
  <2>2. ~s.const /\ s.init.k = "var" /\ IsMoved(m.vars[s.init.y])
    BY <1>3, <1>7, <1>8
  <2>3. OwnerVar("map").t # "str"
    BY DEF OwnerVar, ViewVar
  <2>4. s.x = x /\ s.init.y = y
    BY <1>3
  <2> QED
    <3>1. Define(m, s, FALSE) = Bind(m, x, v, OwnerVar("map"))
      BY <1>9, <2>1
    <3> QED
      BY <2>2, <2>4, <3>1 DEF RunLet, ExecLet
<1> QED
  BY <1>5, <1>6, <1>7 DEF s, v

LEMMA LetRefIs ==
  ASSUME NEW m \in Machines, NEW x \in Xs, NEW y \in Xs, NEW const \in BOOLEAN
  PROVE  RunLet(m, Let(const, x, Ref(y))) = Bind(m, x, 0, RefVar(m.vars[y].t, y))
<1> DEFINE s == Let(const, x, Ref(y))
<1>1. s.const = const /\ s.x = x /\ s.init = Ref(y) /\ s.init.k = "ref" /\ s.init.y = y
  BY DEF Let, Stmt, Ref
<1>2. Compile(m, s.init).m = m /\ Compile(m, s.init).v = 0
  <2>1. Compile(m, Ref(y)) = [m |-> m, v |-> 0]
    BY Compiled
  <2> HIDE DEF s
  <2> QED
    BY <1>1, <2>1
<1> HIDE DEF s
<1>3. Declared(m, s, FALSE) = RefVar(m.vars[y].t, y)
  BY <1>1 DEF Declared, OwnerVar, ViewVar, RefVar
<1>4. s.init.k \notin {"var", "group"} /\ s.init.k # "var" /\ s.x = x
  BY <1>1
<1>5. RunLet(m, s) = Bind(m, x, 0, RefVar(m.vars[y].t, y))
  BY <1>2, <1>3, <1>4, KindFacts DEF RunLet, ExecLet, Define
<1> QED
  BY <1>5 DEF s

LEMMA LetMoveIs ==
  ASSUME NEW m \in Machines, NEW x \in Xs, NEW y \in Xs, NEW const \in BOOLEAN,
         m.vars[y].to = 0, m.vars[y].t = "map"
  PROVE  RunLet(m, Let(const, x, Move(y)))
           = Bind([m EXCEPT !.slot[y] = 0], x, m.slot[y], OwnerVar("map"))
<1> DEFINE s == Let(const, x, Move(y))
           n == [m EXCEPT !.slot[y] = 0]
           v == m.slot[y]
<1>1. s.const = const /\ s.x = x /\ s.init = Move(y) /\ s.init.k = "move" /\ s.init.y = y
  BY DEF Let, Stmt, Move
<1>2. Compile(m, s.init).m = n /\ Compile(m, s.init).v = v
  <2>1. IsMoved(m.vars[y])
    BY DEF IsMoved
  <2>2. Compile(m, Move(y)) = [m |-> IF IsMoved(m.vars[y]) THEN [m EXCEPT !.slot[y] = 0] ELSE m, v |-> m.slot[y]]
    BY Compiled
  <2>3. Compile(m, Move(y)) = [m |-> n, v |-> v]
    BY <2>1, <2>2
  <2> HIDE DEF n, v, s
  <2> QED
    BY <1>1, <2>3
<1> HIDE DEF n, v, s
<1>3. Declared(m, s, FALSE) = OwnerVar("map")
  BY <1>1 DEF Declared, OwnerVar, ViewVar, RefVar
<1>4. s.init.k \notin {"var", "group"} /\ s.init.k # "var" /\ s.x = x
  BY <1>1
<1>5. RunLet(m, s) = Bind(n, x, v, OwnerVar("map"))
  BY <1>2, <1>3, <1>4, KindFacts DEF RunLet, ExecLet, Define
<1> QED
  BY <1>5 DEF s, n, v

(* The statements: what each leaves of a machine that fits.                 *)
OwnsA(m, y, t) == IsOwner(m, y) /\ m.vars[y].t = t
Flag(const) == const \in BOOLEAN
(* A statement leaves the variables outside X alone.                        *)
Elsewhere(m, n, X) == \A z \in Xs \ X : n.vars[z] = m.vars[z] /\ n.slot[z] = m.slot[z]

(* Variable x is declared as c with value v; or it gets v and stays what it *)
(* was.                                                                     *)
Gets(m, n, x, c, v) ==
  Elsewhere(m, n, {x}) /\ n.vars[x] = c /\ n.slot[x] = v /\ n.heap = m.heap
Keeps(m, n, x, v) ==
  /\ n.vars = m.vars /\ n.slot[x] = v /\ n.heap = m.heap
  /\ \A z \in Xs \ {x} : n.slot[z] = m.slot[z]

LEMMA FitFacts ==
  ASSUME NEW m, NEW V, NEW L, NEW e, NEW g, NEW exact, Fit(m, V, L, e, g, exact)
  PROVE  /\ m \in Machines /\ V \subseteq Xs /\ L \subseteq V /\ m.heap \in Seq(Cell) /\ Len(m.heap) \in Nat
         /\ \A x \in V : x \in Xs /\ VarFits(m, L, x) /\ m.slot[x] \in 0..Len(m.heap)
BY DEF Fit, Machines

(* What may be put into an owner of type t, and what owns nothing.          *)
InHand(m, g, t) == t \in {"str", "map"} /\ (g # 0 => m.heap[g].t = t) /\ (t = "str" => g # 0)

(* What a reference or a view is made of.                                   *)
Borrower(m, v, c) ==
  /\ v \in 0..Len(m.heap) /\ c \in CodeVar /\ c.t \in {"str", "map"}
  /\ c.to # 0 \/ c.view
  /\ c.view => c.t = "map" /\ c.to = 0

(* A variable that owns is declared, and one that does not.                 *)
LEMMA BindPut ==
  ASSUME NEW m, NEW V, NEW L, NEW g, NEW exact, Fit(m, V, L, 0, g, exact),
         NEW x \in Xs \ V, NEW t, InHand(m, g, t)
  PROVE  /\ Fit(Bind(m, x, g, OwnerVar(t)), V \cup {x}, L \cup {x}, 0, 0, exact)
         /\ Gets(m, Bind(m, x, g, OwnerVar(t)), x, OwnerVar(t), g)
<1> DEFINE c == OwnerVar(t)
           n == Bind(m, x, g, c)
<1>1. m \in Machines /\ g \in Nat /\ L \subseteq V
  BY DEF Fit
<1>2. c \in CodeVar /\ c.t = t /\ c.to = 0 /\ c.view = FALSE
  BY KindFacts DEF InHand
<1> HIDE DEF c
<1>3. /\ n \in Machines /\ n.heap = m.heap /\ n.vars[x] = c /\ n.slot[x] = g
      /\ \A z \in Xs \ {x} : n.slot[z] = m.slot[z] /\ n.vars[z] = m.vars[z]
  BY <1>1, <1>2, Defined
<1> HIDE DEF n
<1>4. IsOwner(n, x)
  BY <1>2, <1>3 DEF IsOwner
<1>5. (L \cup {x}) \ {x} = L \ {x} /\ L \cup {x} \subseteq V \cup {x} /\ x \in L \cup {x}
  BY <1>1
<1>6. Fit(n, V \cup {x}, L \cup {x}, 0, 0, exact)
  <2> DEFINE K == L \cup {x}
  <2>1. K \ {x} = L \ {x} /\ K \subseteq V \cup {x} /\ x \in K
    BY <1>5
  <2>2. n.vars[x].t \in {"str", "map"} /\ (g # 0 => m.heap[g].t = n.vars[x].t)
        /\ (n.vars[x].t = "str" => (g # 0 <=> x \in K))
    BY <1>2, <1>3, <2>1 DEF InHand
  <2> HIDE DEF K
  <2>3. Fit(n, V \cup {x}, K, 0, 0, exact)
    BY <1>3, <1>4, <2>1, <2>2, Put
  <2> QED
    BY <2>3 DEF K
<1> QED
  BY <1>3, <1>6 DEF n, c, Elsewhere, Gets

LEMMA BindBound ==
  ASSUME NEW m, NEW V, NEW L, NEW exact, Fit(m, V, L, 0, 0, exact),
         NEW x \in Xs \ V, NEW v, NEW c, Borrower(m, v, c)
  PROVE  /\ Fit(Bind(m, x, v, c), V \cup {x}, L \cup {x}, 0, 0, exact)
         /\ Gets(m, Bind(m, x, v, c), x, c, v)
<1> DEFINE n == Bind(m, x, v, c)
<1>1. m \in Machines /\ v \in Nat /\ L \subseteq V /\ c \in CodeVar
  BY DEF Fit, Borrower
<1>3. /\ n \in Machines /\ n.heap = m.heap /\ n.vars[x] = c /\ n.slot[x] = v
      /\ \A z \in Xs \ {x} : n.slot[z] = m.slot[z] /\ n.vars[z] = m.vars[z]
  BY <1>1, Defined
<1> HIDE DEF n
<1>4. ~IsOwner(n, x)
  BY <1>3 DEF IsOwner, Borrower
<1>5. Fit(n, V \cup {x}, L \cup {x}, 0, 0, exact)
  <2> DEFINE K == L \cup {x}
  <2>1. K \ {x} = L \ {x} /\ K \subseteq V \cup {x}
    BY <1>1
  <2>2. n.vars[x].t \in {"str", "map"} /\ n.slot[x] \in 0..Len(m.heap)
        /\ (n.vars[x].view => n.vars[x].t = "map" /\ n.vars[x].to = 0)
    BY <1>3 DEF Borrower
  <2> HIDE DEF K
  <2>3. Fit(n, V \cup {x}, K, 0, 0, exact)
    BY <1>3, <1>4, <2>1, <2>2, Bound
  <2> QED
    BY <2>3 DEF K
<1> QED
  BY <1>3, <1>5 DEF n, Elsewhere, Gets

(* An owner gets the value in hand, or none.                                *)
LEMMA StorePut ==
  ASSUME NEW m, NEW V, NEW L, NEW e, NEW g, NEW exact, Fit(m, V, L, e, g, exact),
         NEW x \in Xs \ V, IsOwner(m, x), InHand(m, g, m.vars[x].t)
  PROVE  /\ Fit(Store(m, x, g), V \cup {x}, L \cup {x}, e, 0, exact)
         /\ Keeps(m, Store(m, x, g), x, g)
<1> DEFINE n == Store(m, x, g)
<1>1. m \in Machines /\ g \in Nat /\ L \subseteq V
  BY DEF Fit
<1>5. m.vars[x].boxed = FALSE
  BY <1>1, VarFacts
<1>2. /\ n \in Machines /\ n.heap = m.heap /\ n.vars = m.vars /\ n.slot[x] = g
      /\ \A z \in Xs \ {x} : n.slot[z] = m.slot[z]
  <2>1. n = [m EXCEPT !.slot[x] = g]
    BY <1>5 DEF Store
  <2> HIDE DEF n
  <2> QED
    BY <1>1, <2>1, Stored
<1> HIDE DEF n
<1>3. IsOwner(n, x)
  BY <1>2 DEF IsOwner
<1>4. Fit(n, V \cup {x}, L \cup {x}, e, 0, exact)
  <2> DEFINE K == L \cup {x}
  <2>1. K \ {x} = L \ {x} /\ K \subseteq V \cup {x} /\ x \in K
    BY <1>1
  <2>2. n.vars[x].t \in {"str", "map"} /\ (g # 0 => m.heap[g].t = n.vars[x].t)
        /\ (n.vars[x].t = "str" => (g # 0 <=> x \in K))
    BY <1>2, <2>1 DEF InHand
  <2>3. \A z \in Xs \ {x} : n.vars[z] = m.vars[z] /\ n.slot[z] = m.slot[z]
    BY <1>2
  <2> HIDE DEF K
  <2>4. Fit(n, V \cup {x}, K, e, 0, exact)
    BY <1>2, <1>3, <2>1, <2>2, <2>3, Put
  <2> QED
    BY <2>4 DEF K
<1> QED
  BY <1>2, <1>4 DEF n, Keeps

LEMMA Rejoined ==
  ASSUME NEW V, NEW L, NEW x \in V, x \in L
  PROVE  (V \ {x}) \cup {x} = V /\ (L \ {x}) \cup {x} = L
OBVIOUS
-----------------------------------------------------------------------------
Filled(n, x)       == n.slot[x] # 0

(* What a declaration leaves behind.                                        *)
Shares(m, n, x, y) == n.slot[x] = m.slot[y]
Adds(m, n, V, L, x, c, exact) ==
  /\ Fit(n, V \cup {x}, L \cup {x}, 0, 0, exact)
  /\ Elsewhere(m, n, {x}) /\ n.vars[x] = c

(* A declaration keeps the counts: of a new value,                          *)
LEMMA LetNewFits ==
  ASSUME NEW m, NEW V, NEW L, NEW exact, Fit(m, V, L, 0, 0, exact),
         NEW x \in Xs \ V, NEW t \in {"str", "map"}, NEW const, Flag(const)
  PROVE  LET n == RunLet(m, Let(const, x, New(t)))
         IN  Adds(m, n, V, L, x, OwnerVar(t), exact) /\ Filled(n, x)
<1> DEFINE r == Alloc(m, Object("val", t, 0, <<>>, <<>>))
           w == Newest(r)
           n == Bind(r, x, w, OwnerVar(t))
<1>1. m \in Machines /\ RunLet(m, Let(const, x, New(t))) = n
  BY FitFacts, LetNewIs DEF Flag
<1>2. Fit(r, V, L, w, 0, exact) /\ r.vars = m.vars /\ r.slot = m.slot /\ w = Len(m.heap) + 1 /\ r.heap[w].t = t
  BY Allocated
<1> HIDE DEF r, w
<1>3. Fit(r, V, L, 0, w, exact) /\ w # 0 /\ InHand(r, w, t)
  BY <1>2, Swapped, FitFacts DEF InHand
<1>4. /\ Fit(n, V \cup {x}, L \cup {x}, 0, 0, exact)
      /\ Gets(r, n, x, OwnerVar(t), w)
  BY <1>3, BindPut
<1> HIDE DEF n
<1> QED
  BY <1>1, <1>2, <1>3, <1>4 DEF Elsewhere, Gets, Adds, Filled

(* of a copy of a string,                                                   *)
LEMMA LetStrFits ==
  ASSUME NEW m, NEW V, NEW L, NEW exact, Fit(m, V, L, 0, 0, exact),
         NEW x \in Xs \ V, NEW y \in L, NEW const, Flag(const),
         OwnsA(m, y, "str")
  PROVE  LET n == RunLet(m, Let(const, x, Var(y)))
         IN  Adds(m, n, V, L, x, OwnerVar("str"), exact) /\ Filled(n, x)
<1> DEFINE v == m.slot[y]
           r == StrRetain(m, v)
           n == Bind(r, x, v, OwnerVar("str"))
<1>1. m \in Machines /\ y \in V /\ y \in Xs /\ VarFits(m, L, y) /\ v \in 0..Len(m.heap)
  BY FitFacts
<1>2. RunLet(m, Let(const, x, Var(y))) = n
  BY <1>1, LetVarIs DEF OwnsA, IsOwner, Flag
<1>3. v # 0 /\ m.heap[v].t = "str" /\ m.heap[v].rc > 0 /\ v \in 1..Len(m.heap)
  BY <1>1, CellsAlive DEF VarFits, OwnsA
<1> HIDE DEF v
<1>4. Fit(r, V, L, v, 0, exact) /\ Same(m, r) /\ r.heap[v].t = "str"
  BY <1>3, Retained
<1> HIDE DEF r
<1>5. Fit(r, V, L, 0, v, exact) /\ InHand(r, v, "str")
  BY <1>3, <1>4, Swapped DEF InHand
<1>6. /\ Fit(n, V \cup {x}, L \cup {x}, 0, 0, exact)
      /\ Gets(r, n, x, OwnerVar("str"), v)
  BY <1>5, BindPut
<1> HIDE DEF n
<1> QED
  BY <1>2, <1>3, <1>4, <1>6 DEF Elsewhere, Same, Gets, Adds, Filled

(* of a `const` view of a map,                                              *)
LEMMA LetViewFits ==
  ASSUME NEW m, NEW V, NEW L, NEW exact, Fit(m, V, L, 0, 0, exact),
         NEW x \in Xs \ V, NEW y \in V, OwnsA(m, y, "map")
  PROVE  LET n == RunLet(m, Let(TRUE, x, Var(y)))
         IN  Adds(m, n, V, L, x, ViewVar, exact) /\ Shares(m, n, x, y)
<1> DEFINE v == m.slot[y]
           n == Bind(m, x, v, ViewVar)
<1>1. m \in Machines /\ y \in Xs /\ v \in 0..Len(m.heap) /\ Borrower(m, v, ViewVar)
  BY FitFacts, KindFacts DEF Borrower, OwnsA
<1>2. RunLet(m, Let(TRUE, x, Var(y))) = n
  BY <1>1, LetVarIs DEF OwnsA, IsOwner, Flag
<1>3. Fit(n, V \cup {x}, L \cup {x}, 0, 0, exact) /\ Gets(m, n, x, ViewVar, v)
  <2>1. Borrower(m, v, ViewVar)
    BY <1>1
  <2> HIDE DEF v
  <2> QED
    BY <2>1, BindBound
<1> HIDE DEF n
<1> QED
  BY <1>2, <1>3 DEF Gets, Adds, Shares

(* of a reference,                                                          *)
LEMMA LetRefFits ==
  ASSUME NEW m, NEW V, NEW L, NEW exact, Fit(m, V, L, 0, 0, exact),
         NEW x \in Xs \ V, NEW y \in V, NEW const, Flag(const)
  PROVE  LET n == RunLet(m, Let(const, x, Ref(y)))
         IN  Adds(m, n, V, L, x, RefVar(m.vars[y].t, y), exact)
<1> DEFINE t == m.vars[y].t
           n == Bind(m, x, 0, RefVar(t, y))
<1>1. m \in Machines /\ y \in Xs /\ y \in 0..MaxVars /\ y # 0 /\ 0 \in 0..Len(m.heap)
      /\ Borrower(m, 0, RefVar(t, y))
  BY FitFacts, KindFacts, OwnershipAssumption DEF Xs, VarFits, Borrower
<1>2. RunLet(m, Let(const, x, Ref(y))) = n
  BY <1>1, LetRefIs DEF Flag
<1>3. Fit(n, V \cup {x}, L \cup {x}, 0, 0, exact) /\ Gets(m, n, x, RefVar(t, y), 0)
  <2>1. Borrower(m, 0, RefVar(t, y))
    BY <1>1
  <2> HIDE DEF t
  <2> QED
    BY <2>1, BindBound
<1> HIDE DEF n
<1> QED
  BY <1>2, <1>3 DEF Gets, Adds, Shares

(* A map changes hands.                                                     *)
Moves(m, n, x, y) ==
  /\ Elsewhere(m, n, {x, y}) /\ n.vars[y] = m.vars[y]
  /\ n.slot[x] = m.slot[y] /\ n.slot[y] = 0

(* The map of y has moved to x, or was dropped.                             *)
MovesTo(m, n, V, L, x, y, exact) ==
  /\ Fit(n, V \cup {x}, L \cup {x}, 0, 0, exact)
  /\ Moves(m, n, x, y) /\ n.vars[x] = OwnerVar("map")

(* of a map that moves,                                                     *)
LEMMA LetMapFits ==
  ASSUME NEW m, NEW V, NEW L, NEW exact, Fit(m, V, L, 0, 0, exact),
         NEW x \in Xs \ V, NEW y \in L, OwnsA(m, y, "map")
  PROVE  LET n == RunLet(m, Let(FALSE, x, Var(y)))
         IN  MovesTo(m, n, V, L, x, y, exact)
<1> DEFINE v == m.slot[y]
           d == Bind(m, x, v, OwnerVar("map"))
           n == Store(d, y, 0)
           W == V \ {y}
           K == L \ {y}
<1>1. m \in Machines /\ y \in Xs /\ y \in V /\ x # y /\ v \in 0..Len(m.heap) /\ VarFits(m, L, y)
  BY FitFacts
<1>2. RunLet(m, Let(FALSE, x, Var(y))) = n
  BY <1>1, LetVarIs DEF OwnsA, IsOwner, Flag
<1>3. Fit(m, W, K, 0, v, exact) /\ x \in Xs \ W /\ InHand(m, v, "map")
  BY <1>1, Taken DEF VarFits, InHand, OwnsA
<1>4. /\ Fit(d, W \cup {x}, K \cup {x}, 0, 0, exact)
      /\ Gets(m, d, x, OwnerVar("map"), v)
  <2> HIDE DEF v, W, K
  <2> QED
    BY <1>3, BindPut
<1> HIDE DEF d
<1>5. IsOwner(d, y) /\ d.vars[y].t = "map" /\ y \in Xs \ (W \cup {x}) /\ d.vars[y] = m.vars[y]
      /\ InHand(d, 0, d.vars[y].t)
  BY <1>1, <1>4 DEF Elsewhere, IsOwner, InHand, OwnsA, Gets
<1>6. /\ Fit(n, (W \cup {x}) \cup {y}, (K \cup {x}) \cup {y}, 0, 0, exact)
      /\ Keeps(d, n, y, 0)
  <2> HIDE DEF v, W, K
  <2> QED
    BY <1>4, <1>5, StorePut
<1>7. (W \cup {x}) \cup {y} = V \cup {x} /\ (K \cup {x}) \cup {y} = L \cup {x}
  BY <1>1
<1>8. Moves(m, n, x, y)
  <2> HIDE DEF n
  <2> QED
    BY <1>1, <1>4, <1>5, <1>6 DEF Moves, Elsewhere, Gets, Keeps
<1> HIDE DEF n, W, K
<1> QED
  BY <1>1, <1>2, <1>4, <1>6, <1>7, <1>8 DEF Gets, Keeps, MovesTo

(* and of what `move` takes.                                                *)
LEMMA LetMoveFits ==
  ASSUME NEW m, NEW V, NEW L, NEW exact, Fit(m, V, L, 0, 0, exact), NEW const, Flag(const),
         NEW x \in Xs \ V, NEW y \in L, OwnsA(m, y, "map")
  PROVE  LET n == RunLet(m, Let(const, x, Move(y)))
         IN  MovesTo(m, n, V, L, x, y, exact)
<1> DEFINE v == m.slot[y]
           d == Store(m, y, 0)
           n == Bind(d, x, v, OwnerVar("map"))
           W == V \ {y}
           K == L \ {y}
<1>1. m \in Machines /\ y \in Xs /\ y \in V /\ x # y /\ v \in 0..Len(m.heap) /\ VarFits(m, L, y)
      /\ m.vars[y].boxed = FALSE
  BY FitFacts, VarFacts
<1>2. RunLet(m, Let(const, x, Move(y))) = n
  BY <1>1, LetMoveIs DEF OwnsA, IsOwner, Store, Flag
<1>3. Fit(m, W, K, 0, v, exact) /\ y \in Xs \ W /\ InHand(m, v, "map") /\ InHand(m, 0, m.vars[y].t)
  BY <1>1, Taken DEF VarFits, InHand, OwnsA
<1>4. Fit(m, W, K, v, 0, exact)
  BY <1>3, Swapped
<1>5. /\ Fit(d, W \cup {y}, K \cup {y}, v, 0, exact)
      /\ Keeps(m, d, y, 0)
  <2>1. IsOwner(m, y)
    BY DEF OwnsA
  <2> HIDE DEF v, W, K
  <2> QED
    BY <1>3, <1>4, <2>1, StorePut
<1> HIDE DEF d
<1>6. W \cup {y} = V /\ K \cup {y} = L
  BY <1>1
<1>7. Fit(d, V, L, 0, v, exact)
  <2> HIDE DEF v, W, K
  <2> QED
    BY <1>5, <1>6, Swapped
<1>8. /\ Fit(n, V \cup {x}, L \cup {x}, 0, 0, exact)
      /\ Gets(d, n, x, OwnerVar("map"), v)
  <2>1. InHand(d, v, "map")
    BY <1>3, <1>5 DEF InHand, Keeps
  <2> HIDE DEF v, W, K
  <2> QED
    BY <1>7, <2>1, BindPut
<1>9. Moves(m, n, x, y)
  <2> HIDE DEF n
  <2> QED
    BY <1>1, <1>5, <1>8 DEF Moves, Elsewhere, Gets, Keeps
<1> HIDE DEF n
<1> QED
  BY <1>2, <1>8, <1>9 DEF Gets, MovesTo

(* Assignments.                                                             *)
LEMMA Loaded ==
  ASSUME NEW m \in Machines, NEW x \in Xs
  PROVE  /\ Load(m, x) = m.slot[x]
         /\ \A v : Store(m, x, v) = [m EXCEPT !.slot[x] = v]
         /\ m.vars[x].to = 0 /\ m.vars[x].t = "str" => ~IsMoved(m.vars[x])
         /\ m.vars[x].to = 0 /\ m.vars[x].t = "map" => IsMoved(m.vars[x])
BY VarFacts DEF Load, Store, IsMoved

(* What the code of an assignment comes to.                                 *)
LEMMA AssignNewIs ==
  ASSUME NEW m \in Machines, NEW x \in Xs, NEW t, OwnsA(m, x, t), t \in {"str", "map"}
  PROVE  LET r == Alloc(m, Object("val", t, 0, <<>>, <<>>))
             n == ExecAssign(m, Assign(x, New(t)))
         IN  /\ t = "str" => n = Store(StrRelease(r, Load(r, x)), x, Newest(r))
             /\ t = "map" => n = Store(MapFree(r, Load(r, x)), x, Newest(r))
<1> DEFINE r == Alloc(m, Object("val", t, 0, <<>>, <<>>))
           s == Assign(x, New(t))
           w == Newest(r)
<1>1. s.x = x /\ s.init = New(t) /\ s.init.k = "new" /\ s.init.k # "var" /\ s.init.k \notin {"var", "group"}
  BY DEF Assign, Stmt, New
<1>2. Compile(m, s.init).m = r /\ Compile(m, s.init).v = w
  <2>1. Compile(m, New(t)) = [m |-> r, v |-> w]
    BY Compiled
  <2> HIDE DEF r, s
  <2> QED
    BY <1>1, <2>1
<1>3. m.vars[x].t = t /\ m.vars[x].to = 0 /\ ~BorrowedStringSource(s.init)
  BY <1>1 DEF OwnsA, IsOwner, BorrowedStringSource
<1> HIDE DEF r, s, w
<1>4. CASE t = "str"
  <2>1. ExecAssign(m, s) = Store(StrRelease(r, Load(r, x)), x, w)
    BY <1>1, <1>2, <1>3, <1>4 DEF ExecAssign
  <2> QED
    BY <1>4, <2>1 DEF r, s, w
<1>5. CASE t = "map"
  <2>1. ExecAssign(m, s) = Store(MapFree(r, Load(r, x)), x, w)
    BY <1>1, <1>2, <1>3, <1>5 DEF ExecAssign
  <2> QED
    BY <1>5, <2>1 DEF r, s, w
<1> QED
  BY <1>4, <1>5

LEMMA AssignVarIs ==
  ASSUME NEW m \in Machines, NEW x \in Xs, NEW y \in Xs, NEW t, OwnsA(m, x, t), OwnsA(m, y, t),
         t \in {"str", "map"}
  PROVE  LET n == ExecAssign(m, Assign(x, Var(y)))
         IN  /\ x = y => n = m
             /\ x # y /\ t = "str" => n = Store(StrRetain(StrRelease(m, m.slot[x]), m.slot[y]), x, m.slot[y])
             /\ x # y /\ t = "map" => n = Store(Store(MapFree(m, m.slot[x]), x, m.slot[y]), y, 0)
<1> DEFINE s == Assign(x, Var(y))
           v == m.slot[y]
           o == m.slot[x]
<1>1. s.x = x /\ s.init = Var(y) /\ s.init.k = "var" /\ s.init.y = y
  BY DEF Assign, Stmt, Var
<1>2. Compile(m, s.init).m = m /\ Compile(m, s.init).v = v
  <2>1. Compile(m, Var(y)) = [m |-> m, v |-> v]
    BY Compiled
  <2> HIDE DEF s, v
  <2> QED
    BY <1>1, <2>1
<1>3. m.vars[x].t = t /\ m.vars[x].to = 0 /\ m.vars[y].t = t /\ m.vars[y].to = 0
      /\ Load(m, x) = o /\ BorrowedStringSource(s.init)
  BY <1>1, Loaded DEF OwnsA, IsOwner, BorrowedStringSource
<1>4. (t = "str" => ~IsMoved(m.vars[y])) /\ (t = "map" => IsMoved(m.vars[y]))
  BY <1>3, Loaded
<1> HIDE DEF s, v, o
<1>5. x = y => ExecAssign(m, s) = m
  BY <1>1 DEF ExecAssign
<1>6. x # y /\ t = "str" => ExecAssign(m, s) = Store(StrRetain(StrRelease(m, o), v), x, v)
  BY <1>1, <1>2, <1>3, <1>4 DEF ExecAssign
<1>7. x # y /\ t = "map" => ExecAssign(m, s) = Store(Store(MapFree(m, o), x, v), y, 0)
  BY <1>1, <1>2, <1>3, <1>4 DEF ExecAssign
<1> QED
  BY <1>5, <1>6, <1>7 DEF s, v, o

(* Only the slots of X change.                                              *)
Writes(m, n, X) == n.vars = m.vars /\ \A z \in Xs \ X : n.slot[z] = m.slot[z]

(* An assignment releases what the variable had: of a new value,            *)
LEMMA AssignNewFits ==
  ASSUME NEW m, NEW V, NEW L, NEW exact, Fit(m, V, L, 0, 0, exact),
         NEW x \in L, NEW t, OwnsA(m, x, t), t \in {"str", "map"}
  PROVE  LET n == ExecAssign(m, Assign(x, New(t)))
         IN  Fit(n, V, L, 0, 0, exact) /\ Writes(m, n, {x}) /\ n.slot[x] # 0
<1> DEFINE r == Alloc(m, Object("val", t, 0, <<>>, <<>>))
           w == Newest(r)
           v == Load(r, x)
           d == IF t = "str" THEN StrRelease(r, v) ELSE MapFree(r, v)
           n == Store(d, x, w)
           W == V \ {x}
           K == L \ {x}
<1>1. m \in Machines /\ x \in Xs /\ x \in V /\ x \in Xs \ W
  BY FitFacts
<1>2. ExecAssign(m, Assign(x, New(t))) = n
  BY <1>1, AssignNewIs
<1>3. /\ Fit(r, V, L, w, 0, exact) /\ r.vars = m.vars /\ r.slot = m.slot
      /\ w = Len(m.heap) + 1 /\ w # 0 /\ r.heap[w].t = t
  <2>1. Fit(r, V, L, w, 0, exact) /\ r.vars = m.vars /\ r.slot = m.slot /\ w = Len(m.heap) + 1 /\ r.heap[w].t = t
    BY Allocated
  <2> QED
    BY <2>1, FitFacts
<1> HIDE DEF r, w
<1>4. r \in Machines /\ v = r.slot[x] /\ OwnsA(r, x, t) /\ VarFits(r, L, x)
  BY <1>1, <1>3, FitFacts, Loaded DEF OwnsA, IsOwner
<1>5. Fit(r, W, K, w, v, exact)
  <2>1. IsOwner(r, x) /\ x \in V
    BY <1>1, <1>4 DEF OwnsA
  <2> HIDE DEF v
  <2> QED
    BY <1>3, <1>4, <2>1, Taken
<1>6. v # 0 => r.heap[v].t = t
  BY <1>4 DEF VarFits, OwnsA
<1>7. Fit(d, W, K, w, 0, exact) /\ Same(r, d)
  <2>1. t = "str" => d = StrRelease(r, v)
    OBVIOUS
  <2>2. t = "map" => d = MapFree(r, v)
    OBVIOUS
  <2> HIDE DEF v, W, K, d
  <2>3. CASE t = "str"
    BY <1>5, <1>6, <2>1, <2>3, Released
  <2>4. CASE t = "map"
    BY <1>5, <1>6, <2>2, <2>4, Freed
  <2> QED
    BY <2>3, <2>4
<1> HIDE DEF d
<1>8. Fit(d, W, K, 0, w, exact) /\ IsOwner(d, x) /\ InHand(d, w, d.vars[x].t)
  <2>1. w \in 1..Len(r.heap)
    BY <1>3 DEF Fit
  <2>2. d.heap[w].t = t /\ d.vars[x].t = t
    BY <1>3, <1>4, <1>7, <2>1 DEF Same, OwnsA
  <2>3. InHand(d, w, d.vars[x].t)
    BY <1>3, <2>2 DEF InHand
  <2>4. IsOwner(d, x)
    BY <1>4, <1>7 DEF Same, OwnsA, IsOwner
  <2>5. Fit(d, W, K, 0, w, exact)
    BY <1>7, Swapped
  <2> QED
    BY <2>3, <2>4, <2>5
<1>9. /\ Fit(n, W \cup {x}, K \cup {x}, 0, 0, exact)
      /\ Keeps(d, n, x, w)
  <2> HIDE DEF v, W, K
  <2> QED
    BY <1>1, <1>8, StorePut
<1> HIDE DEF n
<1>10. W \cup {x} = V /\ K \cup {x} = L
  BY <1>1
<1>11. Writes(m, n, {x}) /\ n.slot[x] # 0
  BY <1>3, <1>7, <1>9 DEF Writes, Keeps, Same
<1> HIDE DEF W, K
<1> QED
  BY <1>2, <1>9, <1>10, <1>11

(* of a string,                                                             *)
LEMMA AssignStrFits ==
  ASSUME NEW m, NEW V, NEW L, NEW exact, Fit(m, V, L, 0, 0, exact),
         NEW x \in L, NEW y \in L, OwnsA(m, x, "str"), OwnsA(m, y, "str"), x # y
  PROVE  LET n == ExecAssign(m, Assign(x, Var(y)))
         IN  Fit(n, V, L, 0, 0, exact) /\ Writes(m, n, {x}) /\ n.slot[x] # 0
<1> DEFINE o == m.slot[x]
           v == m.slot[y]
           d == StrRelease(m, o)
           r == StrRetain(d, v)
           n == Store(r, x, v)
           W == V \ {x}
           K == L \ {x}
<1>1. /\ m \in Machines /\ x \in Xs /\ x \in V /\ x \in Xs \ W /\ y \in Xs /\ y \in W /\ y \in K
      /\ VarFits(m, L, x) /\ VarFits(m, L, y)
  BY FitFacts
<1>2. ExecAssign(m, Assign(x, Var(y))) = n
  BY <1>1, AssignVarIs
<1>3. Fit(m, W, K, 0, o, exact) /\ (o # 0 => m.heap[o].t = "str")
  BY <1>1, Taken DEF VarFits, OwnsA
<1>4. Fit(d, W, K, 0, 0, exact) /\ Same(m, d)
  <2> HIDE DEF o, W, K
  <2> QED
    BY <1>3, Released
<1> HIDE DEF d
<1>5. v # 0 /\ v = d.slot[y] /\ IsOwner(d, y) /\ d.vars[y].t = "str" /\ v \in 0..Len(d.heap)
  BY <1>1, <1>4, FitFacts DEF VarFits, OwnsA, Same, IsOwner
<1>6. v \in 1..Len(d.heap) /\ d.heap[v].t = "str" /\ d.heap[v].rc > 0
  <2>1. VarFits(d, K, y)
    <3> HIDE DEF W, K
    <3> QED
      BY <1>1, <1>4, FitFacts
  <2>2. d.heap[v].rc > 0
    <3> HIDE DEF v, W, K
    <3> QED
      BY <1>1, <1>4, <1>5, CellsAlive
  <2>3. v \in 1..Len(d.heap)
    BY <1>4, <1>5, FitFacts
  <2> QED
    BY <1>5, <2>1, <2>2, <2>3 DEF VarFits
<1> HIDE DEF v
<1>7. Fit(r, W, K, v, 0, exact) /\ Same(d, r) /\ r.heap[v].t = "str"
  <2> HIDE DEF W, K
  <2> QED
    BY <1>4, <1>6, Retained
<1> HIDE DEF r
<1>8. Fit(r, W, K, 0, v, exact) /\ IsOwner(r, x) /\ InHand(r, v, r.vars[x].t)
  <2>1. r.vars[x].t = "str" /\ IsOwner(r, x)
    BY <1>4, <1>7 DEF Same, OwnsA, IsOwner
  <2>2. InHand(r, v, r.vars[x].t)
    BY <1>5, <1>7, <2>1 DEF InHand
  <2>3. Fit(r, W, K, 0, v, exact)
    BY <1>7, Swapped
  <2> QED
    BY <2>1, <2>2, <2>3
<1>9. /\ Fit(n, W \cup {x}, K \cup {x}, 0, 0, exact)
      /\ Keeps(r, n, x, v)
  <2> HIDE DEF W, K
  <2> QED
    BY <1>1, <1>8, StorePut
<1> HIDE DEF n
<1>10. W \cup {x} = V /\ K \cup {x} = L
  BY <1>1
<1>11. Writes(m, n, {x}) /\ n.slot[x] # 0
  BY <1>4, <1>5, <1>7, <1>9 DEF Writes, Keeps, Same
<1> HIDE DEF W, K
<1> QED
  BY <1>2, <1>9, <1>10, <1>11

(* and of a map that moves.                                                 *)
LEMMA AssignMapFits ==
  ASSUME NEW m, NEW V, NEW L, NEW exact, Fit(m, V, L, 0, 0, exact),
         NEW x \in L, NEW y \in L, OwnsA(m, x, "map"), OwnsA(m, y, "map"), x # y
  PROVE  LET n == ExecAssign(m, Assign(x, Var(y)))
         IN  Fit(n, V, L, 0, 0, exact) /\ Writes(m, n, {x, y}) /\ n.slot[x] = m.slot[y]
<1> DEFINE o == m.slot[x]
           v == m.slot[y]
           d == MapFree(m, o)
           r == Store(d, x, v)
           n == Store(r, y, 0)
           W == V \ {x}
           K == L \ {x}
           W2 == W \ {y}
           K2 == K \ {y}
<1>1. /\ m \in Machines /\ x \in Xs /\ x \in V /\ x \in Xs \ W2 /\ y \in Xs /\ y \in W /\ y \in K
      /\ VarFits(m, L, x) /\ VarFits(m, L, y) /\ y \in Xs \ (W2 \cup {x})
  BY FitFacts
<1>2. ExecAssign(m, Assign(x, Var(y))) = n
  BY <1>1, AssignVarIs
<1>3. Fit(m, W, K, 0, o, exact) /\ (o # 0 => m.heap[o].t = "map")
  BY <1>1, Taken DEF VarFits, OwnsA
<1>4. Fit(d, W, K, 0, 0, exact) /\ Same(m, d)
  <2> HIDE DEF o, W, K
  <2> QED
    BY <1>3, Freed
<1> HIDE DEF d
<1>5. v = d.slot[y] /\ IsOwner(d, y) /\ d.vars[y].t = "map" /\ IsOwner(d, x) /\ d.vars[x].t = "map"
  BY <1>4 DEF OwnsA, Same, IsOwner
<1>6. Fit(d, W2, K2, 0, v, exact) /\ InHand(d, v, d.vars[x].t)
  <2>1. VarFits(d, K, y)
    <3> HIDE DEF W, K
    <3> QED
      BY <1>1, <1>4, FitFacts
  <2>2. Fit(d, W \ {y}, K \ {y}, 0, d.slot[y], exact)
    <3> HIDE DEF W, K
    <3> QED
      BY <1>1, <1>4, <1>5, Taken
  <2> QED
    BY <1>5, <2>1, <2>2 DEF VarFits, InHand
<1> HIDE DEF v
<1>7. /\ Fit(r, W2 \cup {x}, K2 \cup {x}, 0, 0, exact)
      /\ Keeps(d, r, x, v)
  <2> HIDE DEF W, K, W2, K2
  <2> QED
    BY <1>1, <1>5, <1>6, StorePut
<1> HIDE DEF r
<1>8. IsOwner(r, y) /\ InHand(r, 0, r.vars[y].t)
  BY <1>5, <1>7 DEF Keeps, IsOwner, InHand
<1>9. /\ Fit(n, (W2 \cup {x}) \cup {y}, (K2 \cup {x}) \cup {y}, 0, 0, exact)
      /\ Keeps(r, n, y, 0)
  <2> HIDE DEF W, K, W2, K2
  <2> QED
    BY <1>1, <1>7, <1>8, StorePut
<1> HIDE DEF n
<1>10. (W2 \cup {x}) \cup {y} = V /\ (K2 \cup {x}) \cup {y} = L
  BY <1>1
<1>11. Writes(m, n, {x, y}) /\ n.slot[x] = v
  BY <1>1, <1>4, <1>7, <1>9 DEF Writes, Keeps, Same
<1> HIDE DEF W, K, W2, K2
<1> QED
  BY <1>2, <1>9, <1>10, <1>11 DEF v

(* Uses, arguments and returns.                                             *)
Safe(m, x) == m.slot[x] # 0 /\ m.heap[m.slot[x]].rc > 0

LEMMA Looked ==
  ASSUME NEW m, NEW o, o # 0, m.heap[o].rc > 0, m.heap[o].rc \in Nat
  PROVE  Look(m, o) = m
BY DEF Look, Touch

(* A use of a value that is there changes nothing.                          *)
LEMMA UseIs ==
  ASSUME NEW m, NEW V, NEW L, NEW e, NEW exact, Fit(m, V, L, e, 0, exact), NEW x \in V
  PROVE  /\ m.vars[x].to = 0 /\ Safe(m, x) => ExecUse(m, x) = m
         /\ \A y \in Xs : m.vars[x].to = y /\ Open(y) /\ Safe(m, y) => ExecUse(m, x) = m
<1>1. m \in Machines /\ x \in Xs /\ \A y \in Xs : y # 0
  BY FitFacts DEF Xs
<1>2. \A y \in Xs : Load(m, y) = m.slot[y] /\ m.slot[y] \in 0..Len(m.heap)
  BY <1>1, Loaded DEF Fit
<1>3. ASSUME NEW y \in Xs, Safe(m, y) PROVE Look(m, Load(m, y)) = m
  <2>1. m.slot[y] \in 1..Len(m.heap) /\ m.slot[y] # 0 /\ m.heap[m.slot[y]].rc > 0
    BY <1>2, <1>3 DEF Safe
  <2>2. m.heap[m.slot[y]].rc \in Nat
    BY <1>1, <2>1, Cells
  <2> QED
    BY <1>2, <2>1, <2>2, Looked
<1>4. m.vars[x].to = 0 /\ Safe(m, x) => ExecUse(m, x) = m
  BY <1>1, <1>3 DEF ExecUse
<1>5. ASSUME NEW y \in Xs, m.vars[x].to = y, Open(y), Safe(m, y) PROVE ExecUse(m, x) = m
  <2>1. m.vars[x].to # 0 /\ Open(m.vars[x].to) /\ Look(m, Load(m, m.vars[x].to)) = m
    BY <1>1, <1>3, <1>5
  <2> QED
    BY <2>1 DEF ExecUse
<1> QED
  BY <1>4, <1>5

(* What the code of a call comes to.                                        *)
LEMMA PassIs ==
  ASSUME NEW m \in Machines, NEW x \in Xs, m.vars[x].to = 0, Look(m, m.slot[x]) = m, NEW mode
  PROVE  LET n == ExecPass(m, Pass(mode, x))
             v == m.slot[x]
         IN  /\ mode # "move" /\ m.vars[x].t = "str" => n = StrRetain(m, v)
             /\ mode # "move" /\ m.vars[x].t = "map" => n = m
             /\ mode = "move" /\ m.vars[x].t = "str" => n = StrRelease(StrRetain(m, v), v)
             /\ mode = "move" /\ m.vars[x].t = "map" => n = MapFree(Store(m, x, 0), v)
<1> DEFINE s == Pass(mode, x)
           v == m.slot[x]
<1>1. s.x = x /\ s.init.t = mode
  BY DEF Pass, Stmt, New
<1>2. Load(m, x) = v /\ Look(m, v) = m
  BY Loaded
<1> HIDE DEF s, v
<1>3. mode # "move" /\ m.vars[x].t = "str" => ExecPass(m, s) = StrRetain(m, v)
  BY <1>1, <1>2 DEF ExecPass
<1>4. mode # "move" /\ m.vars[x].t = "map" => ExecPass(m, s) = m
  BY <1>1, <1>2 DEF ExecPass
<1>5. mode = "move" /\ m.vars[x].t = "str" => ExecPass(m, s) = StrRelease(StrRetain(m, v), v)
  BY <1>1, <1>2 DEF ExecPass
<1>6. mode = "move" /\ m.vars[x].t = "map" => ExecPass(m, s) = MapFree(Store(m, x, 0), v)
  BY <1>1, <1>2 DEF ExecPass
<1> QED
  BY <1>3, <1>4, <1>5, <1>6 DEF s, v

(* A call given a string may keep a count of it,                            *)
LEMMA PassStrFits ==
  ASSUME NEW m, NEW V, NEW L, NEW exact, Slack(exact), Fit(m, V, L, 0, 0, exact),
         NEW x \in L, OwnsA(m, x, "str"), NEW mode
  PROVE  LET n == ExecPass(m, Pass(mode, x))
         IN  Fit(n, V, L, 0, 0, exact) /\ Writes(m, n, {})
<1> DEFINE v == m.slot[x]
           r == StrRetain(m, v)
<1>1. m \in Machines /\ x \in V /\ x \in Xs /\ VarFits(m, L, x) /\ v \in 0..Len(m.heap)
  BY FitFacts
<1>2. v # 0 /\ m.heap[v].t = "str" /\ m.heap[v].rc > 0 /\ v \in 1..Len(m.heap)
  BY <1>1, CellsAlive DEF VarFits, OwnsA
<1>3. Look(m, v) = m /\ m.vars[x].to = 0 /\ m.vars[x].t = "str"
  BY <1>1, <1>2, Cells, Looked DEF OwnsA, IsOwner
<1>4. /\ mode # "move" => ExecPass(m, Pass(mode, x)) = r
      /\ mode = "move" => ExecPass(m, Pass(mode, x)) = StrRelease(r, v)
  BY <1>1, <1>3, PassIs
<1> HIDE DEF v
<1>5. Fit(r, V, L, v, 0, exact) /\ Same(m, r) /\ r.heap[v].t = "str"
  BY <1>2, Retained
<1>6. Fit(r, V, L, 0, 0, exact)
  <2> HIDE DEF r
  <2> QED
    BY <1>5, Lost
<1>7. Fit(StrRelease(r, v), V, L, 0, 0, exact) /\ Same(r, StrRelease(r, v))
  <2> HIDE DEF r
  <2>1. Fit(r, V, L, 0, v, exact)
    BY <1>5, Swapped
  <2> QED
    BY <1>5, <2>1, Released
<1>8. Writes(m, r, {}) /\ Writes(m, StrRelease(r, v), {})
  BY <1>5, <1>7 DEF Same, Writes
<1> HIDE DEF r
<1> QED
  BY <1>4, <1>6, <1>7, <1>8

(* and one given a map takes it.                                            *)
LEMMA PassMapFits ==
  ASSUME NEW m, NEW V, NEW L, NEW exact, Fit(m, V, L, 0, 0, exact),
         NEW x \in V, OwnsA(m, x, "map"), x \in L, Safe(m, x), NEW mode
  PROVE  LET n == ExecPass(m, Pass(mode, x))
         IN  /\ Fit(n, V, L, 0, 0, exact)
             /\ mode # "move" => n = m
             /\ mode = "move" => Writes(m, n, {x})
<1> DEFINE v == m.slot[x]
           d == Store(m, x, 0)
           n == MapFree(d, v)
           W == V \ {x}
           K == L \ {x}
<1>1. m \in Machines /\ x \in Xs /\ VarFits(m, L, x) /\ v \in 0..Len(m.heap) /\ v # 0 /\ v \in 1..Len(m.heap)
      /\ m.heap[v].rc > 0 /\ x \in Xs \ W
  BY FitFacts DEF Safe
<1>2. Look(m, v) = m /\ m.vars[x].to = 0 /\ m.vars[x].t = "map"
  BY <1>1, Cells, Looked DEF OwnsA, IsOwner
<1>3. /\ mode # "move" => ExecPass(m, Pass(mode, x)) = m
      /\ mode = "move" => ExecPass(m, Pass(mode, x)) = n
  BY <1>1, <1>2, PassIs
<1>4. Fit(m, W, K, v, 0, exact) /\ m.heap[v].t = "map"
  <2>1. Fit(m, W, K, 0, v, exact)
    BY Taken DEF OwnsA
  <2> HIDE DEF W, K
  <2> QED
    BY <1>1, <2>1, Swapped DEF OwnsA, VarFits
<1> HIDE DEF v
<1>5. /\ Fit(d, W \cup {x}, K \cup {x}, v, 0, exact)
      /\ Keeps(m, d, x, 0)
  <2>1. IsOwner(m, x) /\ InHand(m, 0, m.vars[x].t)
    BY <1>2 DEF OwnsA, InHand
  <2> HIDE DEF W, K
  <2> QED
    BY <1>1, <1>4, <2>1, StorePut
<1> HIDE DEF d
<1>6. W \cup {x} = V /\ K \cup {x} = L
  OBVIOUS
<1>7. Fit(d, V, L, 0, v, exact) /\ d.heap[v].t = "map"
  <2> HIDE DEF W, K
  <2> QED
    BY <1>4, <1>5, <1>6, Swapped DEF Keeps
<1>8. Fit(n, V, L, 0, 0, exact) /\ Same(d, n)
  BY <1>7, Freed
<1>9. Writes(m, n, {x})
  <2> HIDE DEF n
  <2> QED
    BY <1>5, <1>8 DEF Same, Writes, Keeps
<1> HIDE DEF n
<1> QED
  BY <1>3, <1>8, <1>9

(* A return drops all but what it returns.                                  *)
LEMMA ReturnFits ==
  ASSUME NEW m, NEW V, NEW L, NEW exact, Fit(m, V, L, 0, 0, exact), NEW y \in L, IsOwner(m, y)
  PROVE  /\ m.vars[y].t = "str" => Fit(StrRetain(m, m.slot[y]), V, L, m.slot[y], 0, exact)
         /\ m.vars[y].t = "map" => Fit(Store(m, y, 0), V, L, m.slot[y], 0, exact)
<1> DEFINE v == m.slot[y]
           W == V \ {y}
           K == L \ {y}
<1>1. m \in Machines /\ y \in V /\ y \in Xs /\ VarFits(m, L, y) /\ v \in 0..Len(m.heap) /\ y \in Xs \ W
  BY FitFacts
<1>2. ASSUME m.vars[y].t = "str" PROVE Fit(StrRetain(m, v), V, L, v, 0, exact)
  <2>1. v # 0 /\ m.heap[v].t = "str" /\ m.heap[v].rc > 0 /\ v \in 1..Len(m.heap)
    BY <1>1, <1>2, CellsAlive DEF VarFits
  <2> HIDE DEF v
  <2> QED
    BY <2>1, Retained
<1>3. ASSUME m.vars[y].t = "map" PROVE Fit(Store(m, y, 0), V, L, v, 0, exact)
  <2>1. Fit(m, W, K, 0, v, exact) /\ InHand(m, 0, m.vars[y].t)
    BY <1>1, <1>3, Taken DEF InHand
  <2>2. Fit(m, W, K, v, 0, exact)
    <3> HIDE DEF v, W, K
    <3> QED
      BY <2>1, Swapped
  <2>3. Fit(Store(m, y, 0), W \cup {y}, K \cup {y}, v, 0, exact)
    <3> HIDE DEF v, W, K
    <3> QED
      BY <1>1, <2>1, <2>2, StorePut
  <2>4. W \cup {y} = V /\ K \cup {y} = L
    BY <1>1
  <2> HIDE DEF v, W, K
  <2> QED
    BY <2>3, <2>4
<1> QED
  BY <1>2, <1>3

(* The checker: positions and last uses.                                    *)
LEMMA MaxFacts ==
  ASSUME NEW n \in Nat, NEW S, S \subseteq 0..n, S # {}
  PROVE  Max(S) \in S /\ \A y \in S : y <= Max(S)
<1> DEFINE T == {n - x : x \in S}
<1>1. T \subseteq Nat /\ T # {}
  <2>1. \A x \in S : x \in 0..n
    OBVIOUS
  <2>2. \A x \in 0..n : n - x \in Nat
    OBVIOUS
  <2>3. PICK x \in S : TRUE
    OBVIOUS
  <2>4. n - x \in T
    OBVIOUS
  <2> QED
    BY <2>1, <2>2, <2>4
<1>2. PICK z \in T : \A y \in T : z <= y
  <2> HIDE DEF T
  <2> QED
    BY <1>1, LeastNatural
<1>3. PICK x \in S : z = n - x
  BY <1>2
<1>4. \A y \in S : x >= y
  <2> TAKE y \in S
  <2>1. n - y \in T
    OBVIOUS
  <2>2. n - x <= n - y
    BY <1>2, <1>3, <2>1
  <2>3. x \in 0..n /\ y \in 0..n
    OBVIOUS
  <2> QED
    BY <2>2, <2>3
<1>5. \E w \in S : \A y \in S : w >= y
  BY <1>4
<1>6. Max(S) \in S /\ \A y \in S : Max(S) >= y
  BY <1>5 DEF Max
<1> QED
  BY <1>6

OpenedIn(p, b, j) == {i \in b + 1 .. j - 1 : p[i].op \in Opens}
EndedIn(p, b, j)  == {i \in b + 1 .. j - 1 : p[i].op = "end"}

(* How deep a statement is below a block, counted from its opening.         *)
LEMMA NestIs ==
  ASSUME NEW p, NEW b \in Nat, NEW j \in Nat
  PROVE  /\ Nest(p, b, j) = Cardinality(OpenedIn(p, b, j)) - Cardinality(EndedIn(p, b, j))
         /\ IsFiniteSet(OpenedIn(p, b, j)) /\ Cardinality(OpenedIn(p, b, j)) \in Nat
         /\ IsFiniteSet(EndedIn(p, b, j)) /\ Cardinality(EndedIn(p, b, j)) \in Nat
<1>1. IsFiniteSet(b + 1 .. j - 1)
  BY FS_Interval
<1>2. OpenedIn(p, b, j) \in SUBSET (b + 1 .. j - 1) /\ EndedIn(p, b, j) \in SUBSET (b + 1 .. j - 1)
  BY DEF OpenedIn, EndedIn
<1>3. IsFiniteSet(OpenedIn(p, b, j)) /\ IsFiniteSet(EndedIn(p, b, j))
  BY <1>1, <1>2, FS_Subset
<1>4. Nest(p, b, j) = Cardinality(OpenedIn(p, b, j)) - Cardinality(EndedIn(p, b, j))
  BY DEF Nest, OpenedIn, EndedIn
<1> QED
  BY <1>3, <1>4, FS_CardinalityType

LEMMA NestStart ==
  ASSUME NEW p, NEW b \in Nat
  PROVE  Nest(p, b, b + 1) = 0
<1>1. OpenedIn(p, b, b + 1) = {} /\ EndedIn(p, b, b + 1) = {}
  BY DEF OpenedIn, EndedIn
<1>2. Cardinality({}) = 0
  BY FS_EmptySet
<1>3. Nest(p, b, b + 1) = Cardinality({}) - Cardinality({})
  BY <1>1 DEF Nest, OpenedIn, EndedIn
<1> QED
  BY <1>2, <1>3

LEMMA NestSame ==
  ASSUME NEW p, NEW q, NEW b \in Nat, NEW j \in Nat, \A i \in 1 .. j - 1 : p[i] = q[i]
  PROVE  Nest(p, b, j) = Nest(q, b, j)
<1>1. OpenedIn(p, b, j) = OpenedIn(q, b, j) /\ EndedIn(p, b, j) = EndedIn(q, b, j)
  BY DEF OpenedIn, EndedIn
<1> QED
  BY <1>1, NestIs

LEMMA Widened ==
  ASSUME NEW S, NEW T, NEW j, IsFiniteSet(S), j \notin S
  PROVE  /\ T = S \cup {j} => Cardinality(T) = Cardinality(S) + 1
         /\ T = S => Cardinality(T) = Cardinality(S)
BY FS_AddElement

(* A statement more.                                                        *)
LEMMA NestNext ==
  ASSUME NEW p, NEW b \in Nat, NEW j \in Nat, b < j
  PROVE  /\ Nest(p, b, j) \in Int
         /\ p[j].op \in Opens => Nest(p, b, j + 1) = Nest(p, b, j) + 1
         /\ p[j].op = "end" => Nest(p, b, j + 1) = Nest(p, b, j) - 1
         /\ p[j].op \notin Opens \cup {"end"} => Nest(p, b, j + 1) = Nest(p, b, j)
<1> DEFINE S == OpenedIn(p, b, j)
           T == EndedIn(p, b, j)
           S2 == OpenedIn(p, b, j + 1)
           T2 == EndedIn(p, b, j + 1)
<1>1. IsFiniteSet(S) /\ IsFiniteSet(T) /\ Cardinality(S) \in Nat /\ Cardinality(T) \in Nat
      /\ Nest(p, b, j) = Cardinality(S) - Cardinality(T)
      /\ Nest(p, b, j + 1) = Cardinality(S2) - Cardinality(T2)
  BY NestIs
<1>2. b + 1 .. (j + 1) - 1 = (b + 1 .. j - 1) \cup {j} /\ j \notin b + 1 .. j - 1
  OBVIOUS
<1>3. /\ p[j].op \in Opens => S2 = S \cup {j}
      /\ p[j].op \notin Opens => S2 = S
      /\ p[j].op = "end" => T2 = T \cup {j}
      /\ p[j].op # "end" => T2 = T
      /\ j \notin S /\ j \notin T
  BY <1>2 DEF OpenedIn, EndedIn
<1>4. p[j].op \in Opens => p[j].op # "end"
  BY DEF Opens
<1> HIDE DEF S, T, S2, T2
<1>5. /\ p[j].op \in Opens => Cardinality(S2) = Cardinality(S) + 1
      /\ p[j].op \notin Opens => Cardinality(S2) = Cardinality(S)
      /\ p[j].op = "end" => Cardinality(T2) = Cardinality(T) + 1
      /\ p[j].op # "end" => Cardinality(T2) = Cardinality(T)
  BY <1>1, <1>3, Widened
<1> QED
  BY <1>1, <1>4, <1>5

(* Where a statement stands in its block.                                   *)
LEMMA IndexFacts ==
  ASSUME NEW p, NEW b \in Nat, NEW j \in Nat, b < j
  PROVE  /\ StmtIndex(p, b, j) \in b + 1 .. j
         /\ \A i \in b + 1 .. j : StmtIndex(p, b, i) <= StmtIndex(p, b, j)
<1> DEFINE S(i) == {k \in b + 1 .. i : Nest(p, b, k) = 0}
<1>1. ASSUME NEW i \in b + 1 .. j
      PROVE  StmtIndex(p, b, i) \in S(i) /\ \A k \in S(i) : k <= StmtIndex(p, b, i)
  <2>1. b + 1 \in S(i)
    BY NestStart
  <2>2. i \in Nat /\ S(i) \subseteq 0..i /\ S(i) # {}
    BY <2>1
  <2>3. StmtIndex(p, b, i) = Max(S(i))
    BY DEF StmtIndex
  <2> HIDE DEF S
  <2> QED
    BY <2>2, <2>3, MaxFacts
<1>2. \A i \in b + 1 .. j : S(i) \subseteq S(j)
  OBVIOUS
<1>3. j \in b + 1 .. j
  OBVIOUS
<1>4. StmtIndex(p, b, j) \in b + 1 .. j
  BY <1>1, <1>3
<1> HIDE DEF S
<1> QED
  BY <1>1, <1>2, <1>3, <1>4

(* A variable that the last statement mentions is in use in every open block. *)
LEMMA InUse ==
  ASSUME NEW p, Len(p) \in Nat, NEW b \in Nat, b < Len(p), NEW v \in Names(p[Len(p)]),
         \A j \in b + 1 .. Len(p) : p[j].op \in {"end", "else"} => Nest(p, b, j) # 0
  PROVE  \A j \in b + 1 .. Len(p) : StmtIndex(p, b, j) <= LastUse(p, b, v)
<1> DEFINE i == Len(p)
           Ends == {j \in b + 1 .. i : p[j].op \in {"end", "else"} /\ Nest(p, b, j) = 0}
           Mentions == {j \in b + 1 .. i : v \in Names(p[j])}
<1>1. Ends = {}
  OBVIOUS
<1>2. BlockEnd(p, b) = i
  BY <1>1 DEF BlockEnd
<1>3. i \in Mentions /\ Mentions \subseteq 0..i
  OBVIOUS
<1>4. LastUse(p, b, v) = StmtIndex(p, b, Max(Mentions))
  BY <1>2, <1>3 DEF LastUse
<1>5. Max(Mentions) = i
  <2>1. Max(Mentions) \in Mentions /\ \A y \in Mentions : y <= Max(Mentions)
    <3> HIDE DEF Mentions
    <3> QED
      BY <1>3, MaxFacts
  <2>2. Max(Mentions) \in b + 1 .. i /\ i <= Max(Mentions)
    BY <1>3, <2>1
  <2> QED
    BY <2>2
<1> QED
  BY <1>4, <1>5, IndexFacts

(* Names are given in order.                                                *)
Lets(p) == {i \in 1..Len(p) : p[i].op = "let"}

(* A new variable is the next number.                                       *)
Fresh(p) == Cardinality(Lets(p)) + 1

LEMMA FreshNext ==
  ASSUME NEW p, NEW q, Len(p) \in Nat, Len(q) = Len(p) + 1, \A i \in 1..Len(p) : q[i] = p[i]
  PROVE  /\ Fresh(p) \in Nat \ {0}
         /\ q[Len(q)].op = "let" => Fresh(q) = Fresh(p) + 1
         /\ q[Len(q)].op # "let" => Fresh(q) = Fresh(p)
<1>1. IsFiniteSet(1..Len(p)) /\ Lets(p) \in SUBSET (1..Len(p))
  BY FS_Interval DEF Lets
<1>2. IsFiniteSet(Lets(p)) /\ Cardinality(Lets(p)) \in Nat
  BY <1>1, FS_Subset, FS_CardinalityType
<1>3. 1..Len(q) = (1..Len(p)) \cup {Len(q)} /\ Len(q) \notin 1..Len(p)
  OBVIOUS
<1>4. /\ q[Len(q)].op = "let" => Lets(q) = Lets(p) \cup {Len(q)}
      /\ q[Len(q)].op # "let" => Lets(q) = Lets(p)
      /\ Len(q) \notin Lets(p)
  BY <1>3 DEF Lets
<1>5. /\ q[Len(q)].op = "let" => Cardinality(Lets(q)) = Cardinality(Lets(p)) + 1
      /\ q[Len(q)].op # "let" => Cardinality(Lets(q)) = Cardinality(Lets(p))
  BY <1>2, <1>4, Widened
<1> QED
  BY <1>2, <1>5 DEF Fresh

(* The checker: the pass over a program.                                    *)
NextKnown(p, i, a) == IF a.ok THEN AnalyzeStmt(p, i, a) ELSE a
Judging(f, p, n) == f = [i \in 0..n |-> IF i = 0 THEN EmptyScope ELSE NextKnown(p, i, f[i - 1])]

(* A recursive function over the statements is defined.                     *)
LEMMA JudgingExists ==
  ASSUME NEW p, NEW n \in Nat
  PROVE  \E f : Judging(f, p, n)
<1> DEFINE S == {k \in 0..n : \E f : Judging(f, p, k)}
<1>1. 0 \in S
  <2> DEFINE q == [i \in 0..0 |-> EmptyScope]
  <2>1. q = [i \in 0..0 |-> IF i = 0 THEN EmptyScope ELSE NextKnown(p, i, q[i - 1])]
    OBVIOUS
  <2> HIDE DEF q
  <2>2. Judging(q, p, 0)
    BY <2>1 DEF Judging
  <2> QED
    BY <2>2
<1>2. ASSUME NEW k \in 0..n, k # n, k \in S PROVE k + 1 \in S
  <2>1. PICK f : Judging(f, p, k)
    BY <1>2
  <2> DEFINE q == [i \in 0..(k + 1) |-> IF i = k + 1 THEN NextKnown(p, k + 1, f[k]) ELSE f[i]]
  <2>2. ASSUME NEW i \in 0..(k + 1)
        PROVE  q[i] = (IF i = 0 THEN EmptyScope ELSE NextKnown(p, i, q[i - 1]))
    <3>1. CASE i = k + 1
      <4>1. q[i] = NextKnown(p, k + 1, f[k]) /\ i # 0 /\ i - 1 = k /\ q[k] = f[k]
        BY <3>1
      <4> HIDE DEF q
      <4> QED
        BY <3>1, <4>1
    <3>2. CASE i # k + 1
      <4>1. i \in 0..k /\ q[i] = f[i]
        BY <3>2
      <4>2. i # 0 => i - 1 \in 0..k /\ q[i - 1] = f[i - 1]
        BY <4>1
      <4>3. f[i] = (IF i = 0 THEN EmptyScope ELSE NextKnown(p, i, f[i - 1]))
        BY <2>1, <4>1 DEF Judging
      <4> HIDE DEF q
      <4> QED
        BY <4>1, <4>2, <4>3
    <3> QED
      BY <3>1, <3>2
  <2>3. Judging(q, p, k + 1)
    BY <2>2 DEF Judging
  <2> HIDE DEF q
  <2> QED
    BY <1>2, <2>3
<1> HIDE DEF S
<1>3. n \in S
  BY <1>1, <1>2, Upward
<1> QED
  BY <1>3 DEF S

(* The checker goes on from what it knew.                                   *)
LEMMA AnalysisIs ==
  ASSUME NEW p, Len(p) \in Nat
  PROVE  /\ Analysis(p)[0] = EmptyScope
         /\ \A i \in 1..Len(p) : Analysis(p)[i] = NextKnown(p, i, Analysis(p)[i - 1])
<1> DEFINE f == CHOOSE f : Judging(f, p, Len(p))
<1>1. Judging(f, p, Len(p))
  BY JudgingExists
<1>2. Analysis(p) = f
  BY DEF Analysis, Judging, NextKnown
<1> HIDE DEF f
<1>3. f[0] = EmptyScope
  BY <1>1 DEF Judging
<1>4. ASSUME NEW i \in 1..Len(p) PROVE f[i] = NextKnown(p, i, f[i - 1])
  <2>1. i \in 0..Len(p) /\ i # 0
    OBVIOUS
  <2> QED
    BY <1>1, <2>1 DEF Judging
<1> QED
  BY <1>2, <1>3, <1>4

(* What the checker knows: of a variable, and of a program.                 *)
VarKnown == [t : {"str", "map"}, const : BOOLEAN, moved : BOOLEAN, ref : {"no", "shared", "excl"},
             borrowed : BOOLEAN, block : Nat, from : Nat, fromMut : BOOLEAN]
Learning(scopes, var, borrows, ok) == [scopes |-> scopes, var |-> var, borrows |-> borrows, ok |-> ok]

Knowing(a) ==
  /\ a = Learning(a.scopes, a.var, a.borrows, a.ok)
  /\ a.scopes \in Seq(Nat) /\ a.var \in Seq(VarKnown) /\ a.ok \in BOOLEAN

LEMMA LearningFacts ==
  ASSUME NEW scopes, NEW var, NEW borrows, NEW ok
  PROVE  LET a == Learning(scopes, var, borrows, ok)
         IN  a.scopes = scopes /\ a.var = var /\ a.borrows = borrows /\ a.ok = ok
BY DEF Learning

LEMMA Except ==
  ASSUME NEW a, a = Learning(a.scopes, a.var, a.borrows, a.ok)
  PROVE  /\ \A ok : [a EXCEPT !.ok = ok] = Learning(a.scopes, a.var, a.borrows, ok)
         /\ \A w : [a EXCEPT !.borrows = @ \cup {w}] = Learning(a.scopes, a.var, a.borrows \cup {w}, a.ok)
         /\ \A var : [a EXCEPT !.var = var] = Learning(a.scopes, var, a.borrows, a.ok)
         /\ \A scopes : [a EXCEPT !.scopes = scopes] = Learning(scopes, a.var, a.borrows, a.ok)
<1> DEFINE S == a.scopes
           V == a.var
           B == a.borrows
           K == a.ok
<1>1. a = [scopes |-> S, var |-> V, borrows |-> B, ok |-> K]
  BY DEF Learning
<1> HIDE DEF S, V, B, K
<1>2. /\ \A ok : [a EXCEPT !.ok = ok] = Learning(S, V, B, ok)
      /\ \A w : [a EXCEPT !.borrows = @ \cup {w}] = Learning(S, V, B \cup {w}, K)
      /\ \A var : [a EXCEPT !.var = var] = Learning(S, var, B, K)
      /\ \A scopes : [a EXCEPT !.scopes = scopes] = Learning(scopes, V, B, K)
  BY <1>1 DEF Learning
<1> QED
  BY <1>2 DEF S, V, B, K

(* What is known of a variable stays known; a moved one stays moved.        *)
Later(v, w) ==
  /\ w.t = v.t /\ w.const = v.const /\ w.ref = v.ref /\ w.borrowed = v.borrowed /\ w.from = v.from
  /\ v.moved => w.moved

(* It has no other variables than before, and forgets no move and no        *)
(* borrow.                                                                  *)
Learned(a, n) ==
  /\ Knowing(n) /\ n.scopes = a.scopes /\ Len(n.var) = Len(a.var) /\ a.borrows \subseteq n.borrows
  /\ \A x \in 1..Len(a.var) : Later(a.var[x], n.var[x])
  /\ n.ok => a.ok

LEMMA LearnedTwice ==
  ASSUME NEW a, NEW b, NEW c, Learned(a, b), Learned(b, c)
  PROVE  Learned(a, c)
BY DEF Learned, Later

(* An error ends the pass.                                                  *)
LEMMA Rejected ==
  ASSUME NEW a, Knowing(a), NEW bad
  PROVE  LET n == Reject(a, bad)
         IN  Learned(a, n) /\ n.scopes = a.scopes /\ n.var = a.var /\ n.borrows = a.borrows
             /\ (n.ok => n = a /\ a.ok /\ ~bad)
<1>1. CASE bad
  <2> DEFINE n == Reject(a, bad)
  <2>1. n = Learning(a.scopes, a.var, a.borrows, FALSE)
    BY <1>1, Except DEF Reject, Knowing
  <2> HIDE DEF n
  <2>2. n.scopes = a.scopes /\ n.var = a.var /\ n.borrows = a.borrows /\ n.ok = FALSE
    BY <2>1 DEF Learning
  <2>3. Knowing(n)
    BY <2>1, <2>2 DEF Knowing
  <2>4. Learned(a, n)
    BY <2>2, <2>3 DEF Learned, Later
  <2> QED
    BY <2>2, <2>4 DEF n
<1>2. CASE ~bad
  <2>1. Reject(a, bad) = a
    BY <1>2 DEF Reject
  <2> QED
    BY <1>2, <2>1 DEF Learned, Later
<1> QED
  BY <1>1, <1>2

Lost1(v) == [v EXCEPT !.moved = TRUE]

LEMMA Marked ==
  ASSUME NEW a, Knowing(a), NEW y \in 1..Len(a.var)
  PROVE  LET n == [a EXCEPT !.var[y].moved = TRUE]
         IN  Learned(a, n) /\ n.borrows = a.borrows /\ n.ok = a.ok /\ n.var[y].moved
<1> DEFINE v == a.var[y]
           w == Lost1(v)
           V == [a.var EXCEPT ![y] = w]
           n == [a EXCEPT !.var[y].moved = TRUE]
<1>1. a.var \in Seq(VarKnown) /\ v \in VarKnown
  BY DEF Knowing
<1>2. w \in VarKnown /\ Later(v, w) /\ w.moved
  BY <1>1 DEF VarKnown, Later, Lost1
<1>3. n = [a EXCEPT !.var = V]
  <2>1. a = Learning(a.scopes, a.var, a.borrows, a.ok)
    BY DEF Knowing
  <2> QED
    BY <2>1 DEF Learning, Lost1
<1> HIDE DEF w, n, v
<1>4. V \in Seq(VarKnown) /\ Len(V) = Len(a.var) /\ V[y] = w /\ \A x \in 1..Len(a.var) : x # y => V[x] = a.var[x]
  BY <1>1, <1>2
<1> HIDE DEF V
<1>5. n = Learning(a.scopes, V, a.borrows, a.ok)
  BY <1>3, Except DEF Knowing
<1>6. n.scopes = a.scopes /\ n.var = V /\ n.borrows = a.borrows /\ n.ok = a.ok
  BY <1>5, LearningFacts
<1>7. Knowing(n)
  BY <1>4, <1>5, <1>6 DEF Knowing
<1>8. \A x \in 1..Len(a.var) : Later(a.var[x], n.var[x])
  <2> TAKE x \in 1..Len(a.var)
  <2>1. CASE x = y
    BY <1>2, <1>4, <1>6, <2>1 DEF v
  <2>2. CASE x # y
    BY <1>4, <1>6, <2>2 DEF Later
  <2> QED
    BY <2>1, <2>2
<1> QED
  BY <1>2, <1>4, <1>6, <1>7, <1>8 DEF Learned, n

(* A move is marked, if nothing is lent.                                    *)
LEMMA Moved ==
  ASSUME NEW p, NEW i, NEW a, Knowing(a), NEW y \in 1..Len(a.var)
  PROVE  LET n == MoveVar(p, i, a, y)
         IN  /\ Learned(a, n) /\ n.borrows = a.borrows
             /\ n.ok /\ MoveOnly(a.var[y]) => ~MayNotMove(p, i, a, y) /\ n.var[y].moved
<1>1. CASE ~MoveOnly(a.var[y])
  <2>1. MoveVar(p, i, a, y) = a
    BY <1>1 DEF MoveVar
  <2> QED
    BY <1>1, <2>1 DEF Learned, Later
<1>2. CASE MoveOnly(a.var[y])
  <2> DEFINE bad == MayNotMove(p, i, a, y)
             r == Reject(a, bad)
             n == [r EXCEPT !.var[y].moved = TRUE]
  <2>1. MoveVar(p, i, a, y) = n
    BY <1>2 DEF MoveVar
  <2>2. Learned(a, r) /\ r.var = a.var /\ r.borrows = a.borrows /\ (r.ok => ~bad)
    BY Rejected
  <2> HIDE DEF r, bad
  <2>3. Learned(r, n) /\ n.borrows = r.borrows /\ n.ok = r.ok /\ n.var[y].moved
    <3>1. Knowing(r) /\ y \in 1..Len(r.var)
      BY <2>2 DEF Learned
    <3> QED
      BY <3>1, Marked
  <2> HIDE DEF n
  <2>4. Learned(a, n)
    BY <2>2, <2>3, LearnedTwice
  <2> QED
    BY <2>1, <2>2, <2>3, <2>4 DEF bad
<1> QED
  BY <1>1, <1>2

(* A borrow of y, from a block on to its last use.                          *)
Loan(y, mut, end, at) == [owner |-> y, mut |-> mut, end |-> end, at |-> at]

(* A borrow is added if it conflicts with none.                             *)
LEMMA Borrowed ==
  ASSUME NEW p, NEW i, NEW a, Knowing(a), NEW y, NEW mut, NEW at, NEW end
  PROVE  LET n == Borrow(p, i, a, y, mut, at, end)
         IN  Learned(a, n) /\ n.var = a.var /\ (n.ok => Loan(y, mut, end, at) \in n.borrows)
<1> DEFINE n == Borrow(p, i, a, y, mut, at, end)
           w == Loan(y, mut, end, at)
<1>1. CASE \E u \in Active(p, i, a, y) : u.at <= at /\ (mut \/ u.mut)
  <2>1. n = Learning(a.scopes, a.var, a.borrows, FALSE)
    BY <1>1, Except DEF Borrow, Knowing
  <2> HIDE DEF n
  <2>2. n.scopes = a.scopes /\ n.var = a.var /\ n.borrows = a.borrows /\ n.ok = FALSE
    BY <2>1 DEF Learning
  <2>3. Knowing(n)
    BY <2>1, <2>2 DEF Knowing
  <2> QED
    BY <2>2, <2>3 DEF Learned, Later, n
<1>2. CASE ~(\E u \in Active(p, i, a, y) : u.at <= at /\ (mut \/ u.mut))
  <2>1. n = [a EXCEPT !.borrows = @ \cup {w}]
    BY <1>2 DEF Borrow, Loan
  <2> HIDE DEF w, n
  <2>2. n = Learning(a.scopes, a.var, a.borrows \cup {w}, a.ok)
    BY <2>1, Except DEF Knowing
  <2>3. n.scopes = a.scopes /\ n.var = a.var /\ n.borrows = a.borrows \cup {w} /\ n.ok = a.ok
    BY <2>2, LearningFacts
  <2>4. Knowing(n)
    BY <2>2, <2>3 DEF Knowing
  <2> QED
    BY <2>3, <2>4 DEF Learned, Later, w, n
<1> QED
  BY <1>1, <1>2

(* What the checker makes of each statement.                                *)
LEMMA KindsDiffer ==
  /\ \A const, x, init : LET s == Let(const, x, init)
                         IN  s.op = "let" /\ s.const = const /\ s.x = x /\ s.init = init
  /\ \A x, init : LET s == Assign(x, init) IN s.op = "assign" /\ s.x = x /\ s.init = init
  /\ \A x : LET s == Use(x) IN s.op = "use" /\ s.x = x
  /\ \A mode, x : LET s == Pass(mode, x) IN s.op = "pass" /\ s.x = x /\ s.init.t = mode
  /\ \A init : LET s == Return(init) IN s.op = "return" /\ s.init = init
  /\ \A op : Mark(op).op = op
BY DEF Let, Assign, Use, Pass, Return, Mark, Stmt, New

LEMMA InitsDiffer ==
  /\ \A t : New(t).k = "new" /\ New(t).t = t /\ New(t).y = 0
  /\ \A y : Var(y).k = "var" /\ Var(y).y = y
  /\ \A y : Ref(y).k = "ref" /\ Ref(y).y = y
  /\ \A y : Move(y).k = "move" /\ Move(y).y = y
BY DEF New, Var, Ref, Move

(* What the checker concludes from each statement.                          *)
LEMMA Judges ==
  ASSUME NEW p, NEW i, NEW a
  PROVE  LET s == p[i]
             n == AnalyzeStmt(p, i, a)
         IN  /\ s.op = "let" => n = Declare(p, i, a, s)
             /\ s.op = "assign" => n = AssignVar(p, i, a, s)
             /\ s.op = "use" => n = Reject(a, a.var[s.x].moved)
             /\ s.op = "pass" => n = PassArg(p, i, a, s)
             /\ s.op = "return" => n = ReturnValue(p, i, a, s)
             /\ s.op \in Opens => n = [a EXCEPT !.scopes = Append(@, i)]
             /\ s.op = "else" => n = [a EXCEPT !.scopes = Append(Front(@), i)]
             /\ s.op = "end" => n = [a EXCEPT !.scopes = Front(@)]
BY SMT DEF AnalyzeStmt, Opens

LEMMA JudgeUse ==
  ASSUME NEW p, NEW i, NEW a, Knowing(a), NEW x, p[i] = Use(x)
  PROVE  LET n == AnalyzeStmt(p, i, a)
         IN  Learned(a, n) /\ (n.ok => ~a.var[x].moved)
<1> DEFINE bad == a.var[x].moved
<1>1. AnalyzeStmt(p, i, a) = Reject(a, bad)
  <2>1. p[i].op = "use" /\ p[i].x = x
    BY KindsDiffer
  <2> QED
    BY <2>1, Judges
<1> HIDE DEF bad
<1>2. Learned(a, Reject(a, bad)) /\ (Reject(a, bad).ok => ~bad)
  BY Rejected
<1> QED
  BY <1>1, <1>2 DEF bad

LEMMA JudgeRead ==
  ASSUME NEW p, NEW i, NEW a, Knowing(a), NEW y, NEW init, init = Var(y) \/ init = Ref(y)
  PROVE  LET n == Infer(p, i, a, init)
         IN  Learned(a, n) /\ n.var = a.var /\ n.borrows = a.borrows /\ (n.ok => n = a /\ ~a.var[y].moved)
<1> DEFINE bad == a.var[y].moved
<1>1. init.k \in {"var", "ref"} /\ init.y = y
  BY InitsDiffer
<1>2. Infer(p, i, a, init) = Reject(a, bad)
  BY <1>1 DEF Infer
<1> HIDE DEF bad
<1>3. LET n == Reject(a, bad)
      IN  Learned(a, n) /\ n.scopes = a.scopes /\ n.var = a.var /\ n.borrows = a.borrows
             /\ (n.ok => n = a /\ a.ok /\ ~bad)
  BY Rejected
<1> QED
  BY <1>2, <1>3 DEF bad

(* A map that is taken was there to take, and is marked.                    *)
Taking(p, i, a, y, n) == MoveOnly(a.var[y]) => ~MayNotMove(p, i, a, y) /\ n.var[y].moved

LEMMA RejectMoved ==
  ASSUME NEW p, NEW i, NEW a, Knowing(a), NEW bad, NEW y \in 1..Len(a.var)
  PROVE  LET n == MoveVar(p, i, Reject(a, bad), y)
         IN  Learned(a, n) /\ n.borrows = a.borrows /\ (n.ok => ~bad /\ Taking(p, i, a, y, n))
<1> DEFINE r == Reject(a, bad)
           n == MoveVar(p, i, r, y)
<1>1. Learned(a, r) /\ r.var = a.var /\ r.borrows = a.borrows /\ (r.ok => r = a /\ ~bad)
  BY Rejected
<1> HIDE DEF r
<1>2. /\ Learned(r, n) /\ n.borrows = r.borrows
      /\ n.ok /\ MoveOnly(r.var[y]) => ~MayNotMove(p, i, r, y) /\ n.var[y].moved
  <2>1. Knowing(r) /\ y \in 1..Len(r.var)
    BY <1>1 DEF Learned
  <2> QED
    BY <2>1, Moved
<1> HIDE DEF n
<1>3. Learned(a, n)
  BY <1>1, <1>2, LearnedTwice
<1>4. n.ok => r = a /\ ~bad
  BY <1>1, <1>2 DEF Learned
<1>5. n.ok => Taking(p, i, a, y, n)
  BY <1>1, <1>2, <1>4 DEF Taking
<1> QED
  BY <1>1, <1>2, <1>3, <1>4, <1>5 DEF r, n

LEMMA JudgePass ==
  ASSUME NEW p, NEW i, NEW a, Knowing(a), NEW x \in 1..Len(a.var),
         NEW mode \in {"const", "let", "move"}, p[i] = Pass(mode, x)
  PROVE  LET n == AnalyzeStmt(p, i, a)
         IN  /\ Learned(a, n) /\ (n.ok => ~a.var[x].moved)
             /\ n.ok /\ mode = "move" => Taking(p, i, a, x, n)
<1> DEFINE n == PassArg(p, i, a, p[i])
           v == a.var[x]
           badC == v.moved \/ \E w \in Active(p, i, a, x) : w.mut
           badL == v.moved \/ v.const \/ v.ref = "shared" \/ BorrowHasAny(p, i, a, x)
<1>1. p[i].op = "pass" /\ p[i].x = x /\ p[i].init.t = mode
  BY KindsDiffer
<1>2. AnalyzeStmt(p, i, a) = n
  BY <1>1, Judges
<1>3. CASE mode = "const"
  <2>1. n = Reject(a, badC)
    BY <1>1, <1>3 DEF PassArg
  <2>2. badC \/ ~v.moved
    OBVIOUS
  <2> HIDE DEF badC, n
  <2>3. Learned(a, Reject(a, badC)) /\ (Reject(a, badC).ok => ~badC)
    BY Rejected
  <2> QED
    BY <1>2, <1>3, <2>1, <2>2, <2>3
<1>4. CASE mode = "let"
  <2>1. n = Reject(a, badL)
    BY <1>1, <1>4 DEF PassArg
  <2>2. badL \/ ~v.moved
    OBVIOUS
  <2> HIDE DEF badL, n
  <2>3. Learned(a, Reject(a, badL)) /\ (Reject(a, badL).ok => ~badL)
    BY Rejected
  <2> QED
    BY <1>2, <1>4, <2>1, <2>2, <2>3
<1>5. CASE mode = "move"
  <2>1. n = MoveVar(p, i, Reject(a, v.moved), x)
    BY <1>1, <1>5 DEF PassArg
  <2> DEFINE bad == v.moved
  <2> HIDE DEF n, bad
  <2>2. n = MoveVar(p, i, Reject(a, bad), x)
    BY <2>1 DEF bad
  <2>3. Learned(a, n) /\ (n.ok => ~bad /\ Taking(p, i, a, x, n))
    BY <2>2, RejectMoved
  <2> QED
    BY <1>2, <2>3 DEF bad
<1> QED
  BY <1>3, <1>4, <1>5

(* No borrow of x is active.                                                *)
Unlent(p, i, a, x) == Active(p, i, a, x) = {}

LEMMA JudgeAssignNew ==
  ASSUME NEW p, NEW i, NEW a, Knowing(a), NEW x, NEW t, p[i] = Assign(x, New(t))
  PROVE  LET n == AnalyzeStmt(p, i, a)
         IN  Learned(a, n) /\ (n.ok => ~a.var[x].const /\ Unlent(p, i, a, x))
<1> DEFINE y == p[i].init.y
           bad == \/ a.var[x].const
                  \/ BorrowHasAny(p, i, a, x)
                  \/ /\ p[i].init.k = "ref"
                     /\ ~ScopeIsAncestor(a, a.var[y].block, a.var[x].block)
           r == Reject(a, bad)
<1>1. p[i].op = "assign" /\ p[i].x = x /\ p[i].init.k = "new"
  BY KindsDiffer, InitsDiffer
<1>2. Infer(p, i, r, p[i].init) = r
  BY <1>1 DEF Infer
<1>3. AnalyzeStmt(p, i, a) = r
  <2>1. AnalyzeStmt(p, i, a) = AssignVar(p, i, a, p[i])
    BY <1>1, Judges
  <2>2. AssignVar(p, i, a, p[i]) = Infer(p, i, r, p[i].init)
    BY <1>1 DEF AssignVar
  <2> QED
    BY <1>2, <2>1, <2>2
<1>4. ~bad => ~a.var[x].const /\ Unlent(p, i, a, x)
  BY DEF Unlent, BorrowHasAny
<1>5. Learned(a, r) /\ (r.ok => ~bad)
  <2> HIDE DEF bad
  <2> QED
    BY Rejected
<1> QED
  BY <1>3, <1>4, <1>5

LEMMA JudgeAssignVar ==
  ASSUME NEW p, NEW i, NEW a, Knowing(a), NEW x, NEW y \in 1..Len(a.var), a.var[y].from = 0,
         p[i] = Assign(x, Var(y))
  PROVE  LET n == AnalyzeStmt(p, i, a)
         IN  /\ Learned(a, n)
             /\ n.ok => /\ ~a.var[x].const /\ Unlent(p, i, a, x)
                        /\ ~a.var[y].moved /\ Taking(p, i, a, y, n)
<1> DEFINE bad == \/ a.var[x].const
                  \/ BorrowHasAny(p, i, a, x)
                  \/ /\ p[i].init.k = "ref"
                     /\ ~ScopeIsAncestor(a, a.var[y].block, a.var[x].block)
           r == Reject(a, bad)
           b == Infer(p, i, r, p[i].init)
           n == MoveVar(p, i, b, y)
<1>1. p[i].op = "assign" /\ p[i].x = x /\ p[i].init = Var(y) /\ p[i].init.k = "var" /\ p[i].init.y = y
  BY KindsDiffer, InitsDiffer
<1>2. AnalyzeStmt(p, i, a) = n
  <2>1. AnalyzeStmt(p, i, a) = AssignVar(p, i, a, p[i])
    BY <1>1, Judges
  <2>2. AssignVar(p, i, a, p[i]) = n
    BY <1>1 DEF AssignVar
  <2> QED
    BY <2>1, <2>2
<1>3. ~bad => ~a.var[x].const /\ Unlent(p, i, a, x)
  BY DEF Unlent, BorrowHasAny
<1> HIDE DEF bad
<1>4. Learned(a, r) /\ r.var = a.var /\ (r.ok => r = a /\ ~bad)
  BY Rejected
<1> HIDE DEF r
<1>5. Learned(r, b) /\ b.var = r.var /\ (b.ok => b = r /\ ~r.var[y].moved)
  <2>1. Knowing(r) /\ b = Infer(p, i, r, Var(y))
    BY <1>1, <1>4 DEF Learned
  <2> HIDE DEF b
  <2> QED
    BY <2>1, JudgeRead
<1> HIDE DEF b
<1>6. Learned(b, n) /\ (n.ok /\ MoveOnly(b.var[y]) => ~MayNotMove(p, i, b, y) /\ n.var[y].moved)
  <2>1. Knowing(b) /\ y \in 1..Len(b.var)
    BY <1>4, <1>5 DEF Learned
  <2> QED
    BY <2>1, Moved
<1> HIDE DEF n
<1>7. Learned(a, n)
  BY <1>4, <1>5, <1>6, LearnedTwice
<1>8. n.ok => b = r /\ r = a /\ ~bad /\ ~a.var[y].moved
  BY <1>4, <1>5, <1>6 DEF Learned
<1>9. n.ok => Taking(p, i, a, y, n)
  BY <1>4, <1>5, <1>6, <1>8 DEF Taking
<1> QED
  BY <1>2, <1>3, <1>7, <1>8, <1>9

LEMMA JudgeReturn ==
  ASSUME NEW p, NEW i, NEW a, Knowing(a), NEW y, p[i] = Return(Var(y))
  PROVE  AnalyzeStmt(p, i, a).ok =>
           /\ ~a.var[y].moved
           /\ ~(~IsRef(a.var[y]) /\ MoveOnly(a.var[y]) /\ a.var[y].borrowed)
<1> DEFINE b == Infer(p, i, a, p[i].init)
           bad == /\ p[i].init.k = "var" /\ ~IsRef(a.var[p[i].init.y])
                  /\ MoveOnly(a.var[p[i].init.y]) /\ a.var[p[i].init.y].borrowed
<1>1. p[i].op = "return" /\ p[i].init = Var(y) /\ p[i].init.k = "var" /\ p[i].init.y = y
  BY KindsDiffer, InitsDiffer
<1>2. AnalyzeStmt(p, i, a) = Reject(b, bad)
  <2>1. AnalyzeStmt(p, i, a) = ReturnValue(p, i, a, p[i])
    BY <1>1, Judges
  <2> QED
    BY <2>1 DEF ReturnValue
<1>3. Learned(a, b) /\ (b.ok => ~a.var[y].moved)
  <2>1. b = Infer(p, i, a, Var(y))
    BY <1>1
  <2> HIDE DEF b
  <2> QED
    BY <2>1, JudgeRead
<1>4. ~bad => ~(~IsRef(a.var[y]) /\ MoveOnly(a.var[y]) /\ a.var[y].borrowed)
  BY <1>1
<1> HIDE DEF b, bad
<1>5. Reject(b, bad).ok => b.ok /\ ~bad
  BY <1>3, Rejected DEF Learned
<1> QED
  BY <1>2, <1>3, <1>4, <1>5

(* The marks of blocks.                                                     *)
LEMMA JudgeMark ==
  ASSUME NEW p, NEW i \in Nat, NEW a, Knowing(a), NEW op, p[i] = Mark(op),
         op \in Opens \cup {"else", "end"}, a.scopes # <<>>
  PROVE  LET n == AnalyzeStmt(p, i, a)
         IN  /\ Knowing(n) /\ n.var = a.var /\ n.borrows = a.borrows /\ n.ok = a.ok
             /\ op \in Opens => n.scopes = Append(a.scopes, i)
             /\ op = "else" => n.scopes = Append(Front(a.scopes), i)
             /\ op = "end" => n.scopes = Front(a.scopes)
<1> DEFINE n == AnalyzeStmt(p, i, a)
           S == IF op \in Opens THEN Append(a.scopes, i)
                ELSE IF op = "else" THEN Append(Front(a.scopes), i) ELSE Front(a.scopes)
<1>1. p[i].op = op
  BY KindsDiffer
<1>2. /\ "else" \notin Opens /\ "end" \notin Opens
  BY DEF Opens
<1>3. n = [a EXCEPT !.scopes = S]
  BY <1>1, <1>2, Judges
<1>4. S \in Seq(Nat)
  <2>1. a.scopes \in Seq(Nat) /\ Front(a.scopes) \in Seq(Nat)
    BY DEF Knowing, Front
  <2> QED
    BY <2>1
<1>5. /\ op \in Opens => S = Append(a.scopes, i)
      /\ op = "else" => S = Append(Front(a.scopes), i)
      /\ op = "end" => S = Front(a.scopes)
  BY <1>2
<1> HIDE DEF n, S
<1>6. n = Learning(S, a.var, a.borrows, a.ok)
  BY <1>3, Except DEF Knowing
<1>7. n.scopes = S /\ n.var = a.var /\ n.borrows = a.borrows /\ n.ok = a.ok
  BY <1>6, LearningFacts
<1>8. Knowing(n)
  BY <1>4, <1>6, <1>7 DEF Knowing
<1> QED
  BY <1>5, <1>7, <1>8 DEF n

(* Declarations.                                                            *)
NewVar(a, s) ==
  [t |-> TypeOf(a, s.init), const |-> s.const, moved |-> FALSE, ref |-> RefKind(a, s.const, s.init),
   borrowed |-> RefKind(a, s.const, s.init) # "no" \/ ConstView(a, s), block |-> Last(a.scopes),
   from |-> Source(a, s)[1], fromMut |-> Source(a, s)[2]]

(* A declaration adds a variable, and its borrows.                          *)
LEMMA DeclareIs ==
  ASSUME NEW p, NEW i, NEW a, NEW s
  PROVE  Declare(p, i, a, s)
           = [DeclareBorrows(p, i, Infer(p, i, a, s.init), s) EXCEPT !.var = Append(@, NewVar(a, s))]
BY DEF Declare, NewVar

(* The checker goes on with a variable w more.                              *)
Declares(a, n, w) ==
  /\ Knowing(n) /\ n.scopes = a.scopes /\ Len(n.var) = Len(a.var) + 1 /\ a.borrows \subseteq n.borrows
  /\ \A x \in 1..Len(a.var) : Later(a.var[x], n.var[x])
  /\ n.var[Len(a.var) + 1] = w
  /\ n.ok => a.ok

Unchanged(a, d, n) == \A x \in 1..Len(a.var) : n.var[x] = d.var[x]

LEMMA Added ==
  ASSUME NEW a, NEW d, Learned(a, d), NEW w \in VarKnown
  PROVE  LET n == [d EXCEPT !.var = Append(@, w)]
         IN  Declares(a, n, w) /\ n.borrows = d.borrows /\ n.ok = d.ok /\ Unchanged(a, d, n)
<1> DEFINE V == Append(d.var, w)
           n == [d EXCEPT !.var = Append(@, w)]
<1>1. d.var \in Seq(VarKnown) /\ d.scopes \in Seq(Nat) /\ d.ok \in BOOLEAN /\ Len(d.var) = Len(a.var)
      /\ d = Learning(d.scopes, d.var, d.borrows, d.ok)
  BY DEF Learned, Knowing
<1>2. n = [d EXCEPT !.var = V]
  BY <1>1 DEF Learning
<1>3. V \in Seq(VarKnown) /\ Len(V) = Len(a.var) + 1 /\ V[Len(a.var) + 1] = w
      /\ \A x \in 1..Len(a.var) : V[x] = d.var[x]
  BY <1>1
<1> HIDE DEF V, n
<1>4. n = Learning(d.scopes, V, d.borrows, d.ok)
  BY <1>1, <1>2, Except
<1>5. n.scopes = d.scopes /\ n.var = V /\ n.borrows = d.borrows /\ n.ok = d.ok
  BY <1>4, LearningFacts
<1>6. Knowing(n)
  BY <1>1, <1>3, <1>4, <1>5 DEF Knowing
<1> QED
  BY <1>3, <1>5, <1>6 DEF Declares, Learned, Unchanged, n

(* A variable that owns, and a loan of y to v until the last use of v.      *)
OwnerKnown(w, t, const) == w.t = t /\ ~IsRef(w) /\ w.from = 0 /\ w.const = const
RefKnown(w, t)   == w.t = t /\ IsRef(w)
Lends(p, n, at, v, y) == \E mut \in BOOLEAN : Loan(y, mut, LastUse(p, at, v), at) \in n.borrows

(* What is known of the new variable.                                       *)
LEMMA NewVarFacts ==
  ASSUME NEW a, Knowing(a), a.scopes # <<>>, NEW const, Flag(const), NEW x
  PROVE  /\ \A t \in {"str", "map"} :
              LET w == NewVar(a, Let(const, x, New(t))) IN w \in VarKnown /\ OwnerKnown(w, t, const)
         /\ \A y \in 1..Len(a.var) :
              LET w == NewVar(a, Let(const, x, Ref(y))) IN w \in VarKnown /\ RefKnown(w, a.var[y].t)
         /\ \A y \in 1..Len(a.var) :
              LET w == NewVar(a, Let(const, x, Move(y))) IN w \in VarKnown /\ OwnerKnown(w, a.var[y].t, const)
         /\ \A y \in 1..Len(a.var) : ~IsRef(a.var[y]) /\ a.var[y].from = 0 =>
              LET w == NewVar(a, Let(const, x, Var(y)))
              IN  /\ w \in VarKnown /\ OwnerKnown(w, a.var[y].t, const)
                  /\ const /\ MoveOnly(a.var[y]) => w.borrowed
<1>1. Last(a.scopes) \in Nat
  BY DEF Knowing, Last
<1>2. \A y \in 1..Len(a.var) : a.var[y] \in VarKnown
  BY DEF Knowing
<1>3. \A init : LET s == Let(const, x, init) IN s.const = const /\ s.init = init
  BY KindsDiffer
<1>4. ASSUME NEW t \in {"str", "map"}
      PROVE  LET w == NewVar(a, Let(const, x, New(t))) IN w \in VarKnown /\ OwnerKnown(w, t, const)
  <2> DEFINE s == Let(const, x, New(t))
  <2>1. s.const = const /\ s.init.k = "new" /\ s.init.t = t
    BY <1>3, InitsDiffer
  <2> HIDE DEF s
  <2>2. TypeOf(a, s.init) = t /\ RefKind(a, s.const, s.init) = "no" /\ ~ConstView(a, s)
        /\ Source(a, s)[1] = 0 /\ Source(a, s)[2] \in BOOLEAN
    BY <2>1 DEF TypeOf, RefKind, ConstView, Source
  <2>6. ConstView(a, s) \in BOOLEAN
    BY <2>1 DEF ConstView, Flag
  <2> QED
    BY <1>1, <2>1, <2>2, <2>6 DEF s, NewVar, VarKnown, OwnerKnown, IsRef, Flag
<1>5. ASSUME NEW y \in 1..Len(a.var)
      PROVE  LET w == NewVar(a, Let(const, x, Ref(y))) IN w \in VarKnown /\ RefKnown(w, a.var[y].t)
  <2> DEFINE s == Let(const, x, Ref(y))
  <2>1. s.const = const /\ s.init.k = "ref" /\ s.init.y = y
    BY <1>3, InitsDiffer
  <2> HIDE DEF s
  <2>2. TypeOf(a, s.init) = a.var[y].t /\ RefKind(a, s.const, s.init) \in {"shared", "excl"}
        /\ Source(a, s)[1] = y /\ Source(a, s)[2] \in BOOLEAN
    BY <2>1 DEF TypeOf, RefKind, Source, Flag
  <2>3. a.var[y].t \in {"str", "map"}
    BY <1>2 DEF VarKnown
  <2> QED
    BY <1>1, <2>1, <2>2, <2>3 DEF s, NewVar, VarKnown, RefKnown, IsRef, Flag
<1>6. ASSUME NEW y \in 1..Len(a.var)
      PROVE  LET w == NewVar(a, Let(const, x, Move(y))) IN w \in VarKnown /\ OwnerKnown(w, a.var[y].t, const)
  <2> DEFINE s == Let(const, x, Move(y))
  <2>1. s.const = const /\ s.init.k = "move" /\ s.init.y = y
    BY <1>3, InitsDiffer
  <2> HIDE DEF s
  <2>2. TypeOf(a, s.init) = a.var[y].t /\ RefKind(a, s.const, s.init) = "no" /\ ~ConstView(a, s)
        /\ Source(a, s)[1] = 0 /\ Source(a, s)[2] \in BOOLEAN
    BY <2>1 DEF TypeOf, RefKind, ConstView, Source
  <2>6. ConstView(a, s) \in BOOLEAN
    BY <2>1 DEF ConstView, Flag
  <2>3. a.var[y].t \in {"str", "map"}
    BY <1>2 DEF VarKnown
  <2> QED
    BY <1>1, <2>1, <2>2, <2>3, <2>6 DEF s, NewVar, VarKnown, OwnerKnown, IsRef, Flag
<1>7. ASSUME NEW y \in 1..Len(a.var), ~IsRef(a.var[y]), a.var[y].from = 0
      PROVE  LET w == NewVar(a, Let(const, x, Var(y)))
             IN  /\ w \in VarKnown /\ OwnerKnown(w, a.var[y].t, const)
                 /\ const /\ MoveOnly(a.var[y]) => w.borrowed
  <2> DEFINE s == Let(const, x, Var(y))
  <2>1. s.const = const /\ s.init.k = "var" /\ s.init.y = y
    BY <1>3, InitsDiffer
  <2> HIDE DEF s
  <2>2. TypeOf(a, s.init) = a.var[y].t /\ RefKind(a, s.const, s.init) = "no"
    BY <1>7, <2>1 DEF TypeOf, RefKind
  <2>3. a.var[y].t \in {"str", "map"} /\ a.var[y].fromMut \in BOOLEAN
    BY <1>2 DEF VarKnown
  <2>4. Source(a, s)[1] = 0 /\ Source(a, s)[2] \in BOOLEAN
    BY <1>7, <2>1, <2>3 DEF Source
  <2>5. const /\ MoveOnly(a.var[y]) => ConstView(a, s)
    BY <2>1, <2>2 DEF ConstView
  <2>6. ConstView(a, s) \in BOOLEAN
    BY <2>1 DEF ConstView, Flag
  <2> QED
    BY <1>1, <2>1, <2>2, <2>3, <2>4, <2>5, <2>6 DEF s, NewVar, VarKnown, OwnerKnown, IsRef, Flag
<1> QED
  BY <1>4, <1>5, <1>6, <1>7

LEMMA LearnedSame ==
  ASSUME NEW a, Knowing(a)
  PROVE  Learned(a, a)
BY DEF Learned, Later

(* Each declaration that passes.                                            *)
LEMMA JudgeLetNew ==
  ASSUME NEW p, NEW i, NEW a, Knowing(a), a.scopes # <<>>, NEW const, Flag(const), NEW x,
         NEW t \in {"str", "map"}, p[i] = Let(const, x, New(t))
  PROVE  \E w : OwnerKnown(w, t, const) /\ Declares(a, AnalyzeStmt(p, i, a), w)
<1> DEFINE s == Let(const, x, New(t))
           w == NewVar(a, s)
<1>1. s.op = "let" /\ s.init.k = "new"
  BY KindsDiffer, InitsDiffer
<1>2. w \in VarKnown /\ OwnerKnown(w, t, const)
  BY NewVarFacts
<1> HIDE DEF s, w
<1>3. Infer(p, i, a, s.init) = a
  BY <1>1 DEF Infer
<1>4. DeclareBorrows(p, i, a, s) = a
  <2>1. ~ConstView(a, s)
    BY <1>1 DEF ConstView
  <2> QED
    BY <1>1, <2>1 DEF DeclareBorrows
<1>5. AnalyzeStmt(p, i, a) = [a EXCEPT !.var = Append(@, w)]
  <2>1. AnalyzeStmt(p, i, a) = Declare(p, i, a, s)
    BY <1>1, Judges DEF s
  <2> QED
    BY <1>3, <1>4, <2>1, DeclareIs DEF w
<1>6. Declares(a, [a EXCEPT !.var = Append(@, w)], w)
  BY <1>2, LearnedSame, Added
<1> QED
  BY <1>2, <1>5, <1>6

LEMMA JudgeLetRef ==
  ASSUME NEW p, NEW i, NEW a, Knowing(a), a.scopes # <<>>, NEW const, Flag(const), NEW x,
         NEW y \in 1..Len(a.var), p[i] = Let(const, x, Ref(y))
  PROVE  LET n == AnalyzeStmt(p, i, a)
         IN  /\ \E w : RefKnown(w, a.var[y].t) /\ Declares(a, n, w)
             /\ n.ok => ~a.var[y].moved /\ Lends(p, n, Last(a.scopes), x, y)
<1> DEFINE s == Let(const, x, Ref(y))
           w == NewVar(a, s)
           b == Infer(p, i, a, s.init)
           bad == ~s.const /\ b.var[y].const
           r == Reject(b, bad)
           at == Last(a.scopes)
           end == LastUse(p, at, x)
           d == Borrow(p, i, r, y, ~s.const, at, end)
           n == [d EXCEPT !.var = Append(@, w)]
<1>1. s.op = "let" /\ s.init = Ref(y) /\ s.init.k = "ref" /\ s.init.y = y /\ s.const = const /\ s.x = x
  BY KindsDiffer, InitsDiffer
<1>2. w \in VarKnown /\ RefKnown(w, a.var[y].t)
  BY NewVarFacts
<1>3. p[i] = s
  OBVIOUS
<1> HIDE DEF s, w
<1>4. Learned(a, b) /\ (b.ok => ~a.var[y].moved)
  <2>1. b = Infer(p, i, a, Ref(y))
    BY <1>1
  <2> HIDE DEF b
  <2> QED
    BY <2>1, JudgeRead
<1>5. DeclareBorrows(p, i, b, s) = d
  <2>1. ~ConstView(b, s)
    BY <1>1 DEF ConstView
  <2>2. Last(b.scopes) = at
    BY <1>4 DEF Learned
  <2> HIDE DEF b, at
  <2> QED
    BY <1>1, <2>1, <2>2 DEF DeclareBorrows
<1>6. AnalyzeStmt(p, i, a) = n
  <2>1. AnalyzeStmt(p, i, a) = Declare(p, i, a, s)
    BY <1>1, <1>3, Judges
  <2> QED
    BY <1>5, <2>1, DeclareIs DEF w
<1> HIDE DEF b
<1>7. Learned(b, r) /\ (r.ok => b.ok)
  <2> HIDE DEF bad
  <2> QED
    BY <1>4, Rejected DEF Learned
<1> HIDE DEF r, end, at
<1>8. Learned(r, d) /\ (d.ok => Loan(y, ~s.const, end, at) \in d.borrows)
  <2> DEFINE mut == ~s.const
  <2> HIDE DEF mut
  <2>1. Knowing(r)
    BY <1>7 DEF Learned
  <2>2. Learned(r, Borrow(p, i, r, y, mut, at, end))
        /\ (Borrow(p, i, r, y, mut, at, end).ok => Loan(y, mut, end, at) \in Borrow(p, i, r, y, mut, at, end).borrows)
    BY <2>1, Borrowed
  <2> QED
    BY <2>2 DEF mut
<1> HIDE DEF d
<1>9. Learned(a, d)
  BY <1>4, <1>7, <1>8, LearnedTwice
<1>10. Declares(a, n, w) /\ n.borrows = d.borrows /\ n.ok = d.ok
  BY <1>2, <1>9, Added
<1> HIDE DEF n
<1>11. n.ok => ~a.var[y].moved
  BY <1>4, <1>7, <1>8, <1>10 DEF Learned
<1>12. n.ok => Lends(p, n, at, x, y)
  <2>1. (~s.const) \in BOOLEAN
    OBVIOUS
  <2> QED
    BY <1>8, <1>10, <2>1 DEF Lends, end
<1> QED
  BY <1>2, <1>6, <1>10, <1>11, <1>12 DEF at

LEMMA JudgeLetMove ==
  ASSUME NEW p, NEW i, NEW a, Knowing(a), a.scopes # <<>>, NEW const, Flag(const), NEW x,
         NEW y \in 1..Len(a.var), p[i] = Let(const, x, Move(y))
  PROVE  LET n == AnalyzeStmt(p, i, a)
         IN  /\ \E w : OwnerKnown(w, a.var[y].t, const) /\ Declares(a, n, w)
             /\ n.ok => ~a.var[y].moved /\ Taking(p, i, a, y, n)
<1> DEFINE s == Let(const, x, Move(y))
           w == NewVar(a, s)
           bad == a.var[y].moved
           d == MoveVar(p, i, Reject(a, bad), y)
           n == [d EXCEPT !.var = Append(@, w)]
<1>1. s.op = "let" /\ s.init = Move(y) /\ s.init.k = "move" /\ s.init.y = y /\ s.const = const /\ s.x = x
  BY KindsDiffer, InitsDiffer
<1>2. w \in VarKnown /\ OwnerKnown(w, a.var[y].t, const)
  BY NewVarFacts
<1>3. p[i] = s
  OBVIOUS
<1> HIDE DEF s, w
<1>4. Infer(p, i, a, s.init) = d
  BY <1>1 DEF Infer
<1>5. DeclareBorrows(p, i, d, s) = d
  <2>1. ~ConstView(d, s)
    BY <1>1 DEF ConstView
  <2> HIDE DEF d
  <2> QED
    BY <1>1, <2>1 DEF DeclareBorrows
<1>6. AnalyzeStmt(p, i, a) = n
  <2>1. AnalyzeStmt(p, i, a) = Declare(p, i, a, s)
    BY <1>1, <1>3, Judges
  <2> QED
    BY <1>4, <1>5, <2>1, DeclareIs DEF w
<1> HIDE DEF bad
<1>7. Learned(a, d) /\ (d.ok => ~bad /\ Taking(p, i, a, y, d))
  BY RejectMoved
<1> HIDE DEF d
<1>8. Declares(a, n, w) /\ n.ok = d.ok /\ Unchanged(a, d, n)
  BY <1>2, <1>7, Added
<1> HIDE DEF n
<1>9. n.ok => ~bad /\ Taking(p, i, a, y, n)
  BY <1>7, <1>8 DEF Taking, Unchanged
<1> QED
  BY <1>2, <1>6, <1>8, <1>9 DEF bad

LEMMA JudgeLetVar ==
  ASSUME NEW p, NEW i, NEW a, Knowing(a), a.scopes # <<>>, NEW const, Flag(const), NEW x,
         NEW y \in 1..Len(a.var), ~IsRef(a.var[y]), a.var[y].from = 0, p[i] = Let(const, x, Var(y))
  PROVE  LET n == AnalyzeStmt(p, i, a)
         IN  /\ \E w : /\ OwnerKnown(w, a.var[y].t, const) /\ Declares(a, n, w)
                       /\ const /\ MoveOnly(a.var[y]) => w.borrowed
             /\ n.ok => /\ ~a.var[y].moved
                        /\ const /\ MoveOnly(a.var[y]) => Lends(p, n, Last(a.scopes), x, y)
                        /\ ~const => Taking(p, i, a, y, n)
<1> DEFINE s == Let(const, x, Var(y))
           w == NewVar(a, s)
           b == Infer(p, i, a, s.init)
           at == Last(a.scopes)
           end == LastUse(p, at, x)
           d == DeclareBorrows(p, i, b, s)
           n == [d EXCEPT !.var = Append(@, w)]
<1>1. s.op = "let" /\ s.init = Var(y) /\ s.init.k = "var" /\ s.init.y = y /\ s.const = const /\ s.x = x
  BY KindsDiffer, InitsDiffer
<1>2. w \in VarKnown /\ OwnerKnown(w, a.var[y].t, const) /\ (const /\ MoveOnly(a.var[y]) => w.borrowed)
  BY NewVarFacts
<1>3. p[i] = s
  OBVIOUS
<1> HIDE DEF s, w
<1>4. Learned(a, b) /\ b.var = a.var /\ b.borrows = a.borrows /\ (b.ok => b = a /\ ~a.var[y].moved)
  <2>1. LET n0 == Infer(p, i, a, s.init)
        IN  Learned(a, n0) /\ n0.var = a.var /\ n0.borrows = a.borrows /\ (n0.ok => n0 = a /\ ~a.var[y].moved)
    BY <1>1, JudgeRead
  <2> QED
    BY <2>1
<1>6. AnalyzeStmt(p, i, a) = n
  <2>1. AnalyzeStmt(p, i, a) = Declare(p, i, a, s)
    BY <1>1, <1>3, Judges
  <2> QED
    BY <2>1, DeclareIs DEF w
<1> HIDE DEF b
<1>7. /\ Last(b.scopes) = at /\ ~IsRef(b.var[y]) /\ RefKind(b, s.const, s.init) = "no"
      /\ b.var[y].from = 0 /\ Knowing(b) /\ y \in 1..Len(b.var)
  BY <1>1, <1>4 DEF Learned, RefKind
<1> HIDE DEF at
<1>8. CASE ~MoveOnly(a.var[y])
  <2>1. d = b
    BY <1>1, <1>4, <1>7, <1>8 DEF DeclareBorrows, ConstView
  <2> HIDE DEF d
  <2>2. Declares(a, n, w) /\ n.ok = d.ok
    BY <1>2, <1>4, <2>1, Added
  <2> HIDE DEF n
  <2>3. n.ok => ~a.var[y].moved /\ Taking(p, i, a, y, n)
    BY <1>4, <1>8, <2>1, <2>2 DEF Taking
  <2> QED
    BY <1>2, <1>6, <1>8, <2>2, <2>3
<1>9. CASE MoveOnly(a.var[y]) /\ const
  <2>1. \E mut \in BOOLEAN : d = Borrow(p, i, b, y, mut, at, end)
    <3>1. ConstView(b, s)
      BY <1>1, <1>4, <1>7, <1>9 DEF ConstView
    <3>2. d = Borrow(p, i, b, s.init.y, FALSE, Last(b.scopes), LastUse(p, Last(b.scopes), s.x))
      <4>1. s.const /\ s.init.k = "var" /\ ~IsRef(b.var[s.init.y])
        BY <1>1, <1>7, <1>9
      <4> QED
        BY <3>1, <4>1 DEF DeclareBorrows
    <3>3. \E mut \in BOOLEAN : d = Borrow(p, i, b, s.init.y, mut, Last(b.scopes), LastUse(p, Last(b.scopes), s.x))
      BY <3>2
    <3> QED
      BY <1>1, <1>7, <3>3
  <2>2. Learned(b, d) /\ (d.ok => \E mut \in BOOLEAN : Loan(y, mut, end, at) \in d.borrows)
    <3> HIDE DEF d, end
    <3>2. PICK mut \in BOOLEAN : d = Borrow(p, i, b, y, mut, at, end)
      BY <2>1
    <3>3. Learned(b, d) /\ (d.ok => Loan(y, mut, end, at) \in d.borrows)
      BY <1>7, <3>2, Borrowed
    <3> QED
      BY <3>3
  <2> HIDE DEF d, end
  <2>3. Learned(a, d)
    BY <1>4, <2>2, LearnedTwice
  <2>4. Declares(a, n, w) /\ n.ok = d.ok /\ n.borrows = d.borrows
    BY <1>2, <2>3, Added
  <2> HIDE DEF n
  <2>5. n.ok => ~a.var[y].moved /\ Lends(p, n, at, x, y)
    BY <1>4, <2>2, <2>4 DEF Learned, Lends, end
  <2> QED
    BY <1>2, <1>6, <1>9, <2>4, <2>5 DEF at
<1>10. CASE MoveOnly(a.var[y]) /\ ~const
  <2>1. d = MoveVar(p, i, b, y)
    <3>1. ~ConstView(b, s)
      BY <1>1, <1>10 DEF ConstView
    <3> QED
      BY <1>1, <1>4, <1>7, <1>10, <3>1 DEF DeclareBorrows
  <2> HIDE DEF d
  <2>2. /\ Learned(b, d)
        /\ d.ok /\ MoveOnly(b.var[y]) => ~MayNotMove(p, i, b, y) /\ d.var[y].moved
    BY <1>7, <2>1, Moved
  <2>3. Learned(a, d)
    BY <1>4, <2>2, LearnedTwice
  <2>4. Declares(a, n, w) /\ n.ok = d.ok /\ Unchanged(a, d, n)
    BY <1>2, <2>3, Added
  <2> HIDE DEF n
  <2>5. n.ok => ~a.var[y].moved /\ Taking(p, i, a, y, n)
    BY <1>4, <2>2, <2>4 DEF Learned, Taking, Unchanged
  <2> QED
    BY <1>2, <1>6, <1>10, <2>4, <2>5
<1> QED
  BY <1>8, <1>9, <1>10

(* The blocks.                                                              *)
Ops       == Opens \cup {"let", "assign", "use", "pass", "return", "else", "end"}
Source1   == [k : {"new", "var", "ref", "move"}, t : {"", "str", "map", "const", "let", "move"},
              y : Nat, z : Nat]

(* Statements, and the blocks they are in.                                  *)
Statement == [op : Ops, const : BOOLEAN, x : Nat, init : Source1]
Scope     == [op : Ops, at : Nat, names : Seq(Xs), on : BOOLEAN]

Ats(bl)          == [k \in 1..Len(bl) |-> bl[k].at]
InBlock(bl, x, k) == x \in Range(bl[k].names)
OnTo(bl, k)      == \A j \in 1..k : bl[j].on
Shown(bl)        == {x \in Xs : \E k \in 1..Len(bl) : InBlock(bl, x, k)}
Live(bl)         == {x \in Xs : \E k \in 1..Len(bl) : OnTo(bl, k) /\ InBlock(bl, x, k)}
Exact(p)         == \A i \in 1..Len(p) : p[i].op # "pass"

IsMark(s) == s.op \in Opens \cup {"else", "end"}

(* S are the openings of the blocks that are open after p: none was closed. *)
Tree(p, S) ==
  /\ S \in Seq(Nat) /\ S # <<>>
  /\ \A k \in 1..Len(S) :
       /\ S[k] <= Len(p)
       /\ Nest(p, S[k], Len(p) + 1) = Len(S) - k
       /\ \A j \in S[k] + 1 .. Len(p) : p[j].op \in {"end", "else"} => Nest(p, S[k], j) # 0

LEMMA Appended ==
  ASSUME NEW T, NEW p \in Seq(T), NEW s \in T
  PROVE  LET q == Append(p, s)
         IN  /\ q \in Seq(T) /\ Len(p) \in Nat /\ Len(q) = Len(p) + 1 /\ q[Len(p) + 1] = s
             /\ \A i \in 1..Len(p) : q[i] = p[i]
OBVIOUS

LEMMA FrontFacts ==
  ASSUME NEW T, NEW p \in Seq(T), p # <<>>
  PROVE  /\ Front(p) \in Seq(T) /\ Len(p) \in Nat \ {0} /\ Len(Front(p)) = Len(p) - 1
         /\ \A i \in 1 .. Len(p) - 1 : Front(p)[i] = p[i]
         /\ Last(p) = p[Len(p)]
<1>1. Len(p) \in Nat \ {0}
  OBVIOUS
<1>2. Front(p) = SubSeq(p, 1, Len(p) - 1) /\ Last(p) = p[Len(p)]
  BY DEF Front, Last
<1>3. SubSeq(p, 1, Len(p) - 1) \in Seq(T) /\ Len(SubSeq(p, 1, Len(p) - 1)) = Len(p) - 1
      /\ \A i \in 1 .. Len(p) - 1 : SubSeq(p, 1, Len(p) - 1)[i] = p[i]
  <2> DEFINE k == Len(p) - 1
             r == SubSeq(p, 1, k)
  <2>1. k \in Nat /\ \A i \in 1..k : p[i] \in T
    BY <1>1
  <2> HIDE DEF k
  <2>2. r \in Seq(T) /\ Len(r) = (IF 1 <= k THEN k - 1 + 1 ELSE 0) /\ \A i \in 1 .. k - 1 + 1 : r[i] = p[1 + i - 1]
    <3>1. 1 \in Int /\ k \in Int /\ \A i \in 1..k : p[i] \in T
      BY <2>1
    <3> QED
      BY <3>1, SubSeqProperties
  <2> HIDE DEF r
  <2>3. Len(r) = k /\ 1 .. k - 1 + 1 = 1..k
    BY <2>1, <2>2
  <2>4. \A i \in 1..k : r[i] = p[i]
    BY <2>1, <2>2, <2>3
  <2> QED
    BY <2>2, <2>3, <2>4 DEF k, r
<1> QED
  BY <1>1, <1>2, <1>3

(* A statement seen from the open block S[k].                               *)
LEMMA TreeNext ==
  ASSUME NEW p, Len(p) \in Nat, NEW q, Len(q) = Len(p) + 1, \A i \in 1..Len(p) : q[i] = p[i],
         NEW S, Tree(p, S), NEW k \in 1..Len(S)
  PROVE  /\ S[k] \in Nat /\ S[k] <= Len(p) /\ Len(S) \in Nat
         /\ q[Len(q)].op \in Opens => Nest(q, S[k], Len(q) + 1) = Len(S) - k + 1
         /\ q[Len(q)].op = "end" => Nest(q, S[k], Len(q) + 1) = Len(S) - k - 1
         /\ q[Len(q)].op \notin Opens \cup {"end"} => Nest(q, S[k], Len(q) + 1) = Len(S) - k
         /\ \A j \in S[k] + 1 .. Len(q) : q[j].op \in {"end", "else"} =>
              Nest(q, S[k], j) # 0 \/ (j = Len(q) /\ k = Len(S))
<1>1. S[k] \in Nat /\ Len(S) \in Nat /\ S[k] <= Len(p)
      /\ Nest(p, S[k], Len(p) + 1) = Len(S) - k
  BY DEF Tree
<1>2. Nest(q, S[k], Len(q)) = Nest(p, S[k], Len(q))
  <2> DEFINE b == S[k]
             j == Len(q)
  <2>1. b \in Nat /\ j \in Nat /\ \A i \in 1 .. j - 1 : q[i] = p[i]
    BY <1>1
  <2> HIDE DEF b, j
  <2>2. Nest(q, b, j) = Nest(p, b, j)
    BY <2>1, NestSame
  <2> QED
    BY <2>2 DEF b, j
<1>3. Nest(q, S[k], Len(q)) = Len(S) - k /\ S[k] < Len(q) /\ Len(q) \in Nat
  BY <1>1, <1>2
<1>4. /\ q[Len(q)].op \in Opens => Nest(q, S[k], Len(q) + 1) = Len(S) - k + 1
      /\ q[Len(q)].op = "end" => Nest(q, S[k], Len(q) + 1) = Len(S) - k - 1
      /\ q[Len(q)].op \notin Opens \cup {"end"} => Nest(q, S[k], Len(q) + 1) = Len(S) - k
  <2>1. /\ q[Len(q)].op \in Opens => Nest(q, S[k], Len(q) + 1) = Nest(q, S[k], Len(q)) + 1
        /\ q[Len(q)].op = "end" => Nest(q, S[k], Len(q) + 1) = Nest(q, S[k], Len(q)) - 1
        /\ q[Len(q)].op \notin Opens \cup {"end"} => Nest(q, S[k], Len(q) + 1) = Nest(q, S[k], Len(q))
    BY <1>1, <1>3, NestNext
  <2> QED
    BY <1>3, <2>1
<1>5. ASSUME NEW j \in S[k] + 1 .. Len(q), q[j].op \in {"end", "else"}
      PROVE  Nest(q, S[k], j) # 0 \/ (j = Len(q) /\ k = Len(S))
  <2>1. CASE j = Len(q)
    <3>1. k \in 1..Len(S)
      OBVIOUS
    <3> QED
      BY <1>1, <1>3, <2>1, <3>1
  <2>2. CASE j # Len(q)
    <3>1. j \in S[k] + 1 .. Len(p) /\ j \in 1..Len(p)
      BY <1>1, <2>2
    <3>2. p[j].op \in {"end", "else"} /\ Nest(p, S[k], j) # 0
      BY <1>5, <3>1 DEF Tree
    <3>3. Nest(q, S[k], j) = Nest(p, S[k], j)
      <4>1. \A i \in 1 .. j - 1 : q[i] = p[i]
        BY <3>1
      <4>2. j \in Nat
        BY <3>1
      <4> QED
        BY <1>1, <4>1, <4>2, NestSame
    <3> QED
      BY <3>2, <3>3
  <2> QED
    BY <2>1, <2>2
<1> QED
  BY <1>1, <1>4, <1>5

(* A statement keeps the blocks, opens one, passes to the other branch, or  *)
(* closes one.                                                              *)
LEMMA TreeStep ==
  ASSUME NEW p \in Seq(Statement), NEW s \in Statement, NEW S, Tree(p, S)
  PROVE  LET q == Append(p, s)
         IN  /\ ~IsMark(s) => Tree(q, S)
             /\ s.op \in Opens => Tree(q, Append(S, Len(p) + 1))
             /\ s.op = "else" => Tree(q, Append(Front(S), Len(p) + 1))
             /\ s.op = "end" /\ Len(S) > 1 => Tree(q, Front(S))
<1> DEFINE q == Append(p, s)
           d == Len(p) + 1
<1>1. q \in Seq(Statement) /\ Len(p) \in Nat /\ Len(q) = d /\ q[d] = s /\ \A i \in 1..Len(p) : q[i] = p[i]
  BY Appended
<1> HIDE DEF q
<1>2. S \in Seq(Nat) /\ S # <<>> /\ Len(S) \in Nat /\ Len(S) # 0
  BY DEF Tree
<1>3. ASSUME NEW k \in 1..Len(S)
      PROVE  /\ S[k] \in Nat /\ S[k] <= Len(p)
             /\ s.op \in Opens => Nest(q, S[k], d + 1) = Len(S) - k + 1
             /\ s.op = "end" => Nest(q, S[k], d + 1) = Len(S) - k - 1
             /\ s.op \notin Opens \cup {"end"} => Nest(q, S[k], d + 1) = Len(S) - k
             /\ \A j \in S[k] + 1 .. d : q[j].op \in {"end", "else"} =>
                  Nest(q, S[k], j) # 0 \/ (j = d /\ k = Len(S))
  <2>1. q[Len(q)] = s /\ Len(q) = Len(p) + 1
    BY <1>1
  <2> HIDE DEF d
  <2>2. /\ S[k] \in Nat /\ S[k] <= Len(p)
        /\ q[Len(q)].op \in Opens => Nest(q, S[k], Len(q) + 1) = Len(S) - k + 1
        /\ q[Len(q)].op = "end" => Nest(q, S[k], Len(q) + 1) = Len(S) - k - 1
        /\ q[Len(q)].op \notin Opens \cup {"end"} => Nest(q, S[k], Len(q) + 1) = Len(S) - k
        /\ \A j \in S[k] + 1 .. Len(q) : q[j].op \in {"end", "else"} =>
              Nest(q, S[k], j) # 0 \/ (j = Len(q) /\ k = Len(S))
    BY <1>1, <2>1, TreeNext
  <2> QED
    BY <1>1, <2>2
<1>11. d \in Nat /\ Len(q) = Len(p) + 1
  BY <1>1
<1> HIDE DEF d
<1>4. Nest(q, d, d + 1) = 0
  BY <1>11, NestStart
<1>12. Nest(q, d, Len(q) + 1) = 0 /\ Len(q) = d /\ Len(q) \in Nat
  BY <1>1, <1>4, <1>11
<1>5. "else" \notin Opens /\ "end" \notin Opens
  BY DEF Opens
<1>6. ASSUME ~IsMark(s) PROVE Tree(q, S)
  <2>1. s.op \notin Opens /\ s.op # "end" /\ s.op # "else"
    BY <1>6 DEF IsMark
  <2>2. ASSUME NEW k \in 1..Len(S)
        PROVE  /\ S[k] <= Len(q) /\ Nest(q, S[k], Len(q) + 1) = Len(S) - k
               /\ \A j \in S[k] + 1 .. Len(q) : q[j].op \in {"end", "else"} => Nest(q, S[k], j) # 0
    <3>1. q[Len(q)] = s
      BY <1>1
    <3>2. S[k] <= Len(q)
      BY <1>1, <1>3, <1>11, <1>12
    <3>3. Nest(q, S[k], Len(q) + 1) = Len(S) - k
      BY <1>3, <1>12, <2>1, <3>1
    <3>4. ASSUME NEW j \in S[k] + 1 .. Len(q), q[j].op \in {"end", "else"} PROVE Nest(q, S[k], j) # 0
      <4>1. j # Len(q)
        BY <2>1, <3>1, <3>4
      <4> QED
        BY <1>3, <1>12, <3>4, <4>1
    <3> QED
      BY <3>2, <3>3, <3>4
  <2> QED
    BY <1>2, <2>2 DEF Tree
<1>7. ASSUME s.op \in Opens PROVE Tree(q, Append(S, d))
  <2> DEFINE R == Append(S, d)
  <2>1. R \in Seq(Nat) /\ R # <<>> /\ Len(R) = Len(S) + 1 /\ R[Len(S) + 1] = d
        /\ \A k \in 1..Len(S) : R[k] = S[k]
    BY <1>2, <1>11
  <2> HIDE DEF R
  <2>2. ASSUME NEW k \in 1..Len(R)
        PROVE  /\ R[k] <= Len(q) /\ Nest(q, R[k], Len(q) + 1) = Len(R) - k
               /\ \A j \in R[k] + 1 .. Len(q) : q[j].op \in {"end", "else"} => Nest(q, R[k], j) # 0
    <3>1. CASE k = Len(S) + 1
      BY <1>1, <1>2, <1>12, <2>1, <3>1
    <3>2. CASE k # Len(S) + 1
      <4>1. k \in 1..Len(S) /\ R[k] = S[k]
        BY <1>2, <2>1, <3>2
      <4>2. s.op # "end" /\ s.op # "else"
        BY <1>5, <1>7
      <4>3. S[k] <= Len(q) /\ Nest(q, S[k], Len(q) + 1) = Len(S) - k + 1
        BY <1>1, <1>3, <1>7, <1>11, <1>12, <4>1
      <4>4. \A j \in S[k] + 1 .. Len(q) : q[j].op \in {"end", "else"} => Nest(q, S[k], j) # 0
        BY <1>1, <1>3, <1>12, <4>1, <4>2
      <4>5. Len(S) - k + 1 = Len(R) - k
        BY <1>2, <2>1, <4>1
      <4> QED
        BY <4>1, <4>3, <4>4, <4>5
    <3> QED
      BY <3>1, <3>2
  <2>3. Tree(q, R)
    BY <2>1, <2>2 DEF Tree
  <2> QED
    BY <2>3 DEF R
<1>8. Front(S) \in Seq(Nat) /\ Len(Front(S)) = Len(S) - 1 /\ \A k \in 1 .. Len(S) - 1 : Front(S)[k] = S[k]
  BY <1>2, FrontFacts
<1>9. ASSUME s.op = "else" PROVE Tree(q, Append(Front(S), d))
  <2> DEFINE R == Append(Front(S), d)
  <2>1. R \in Seq(Nat) /\ R # <<>> /\ Len(R) = Len(S) /\ R[Len(S)] = d
        /\ \A k \in 1..Len(S) - 1 : R[k] = S[k]
    <3> DEFINE F == Front(S)
    <3>1. F \in Seq(Nat) /\ Len(F) \in Nat /\ Len(F) = Len(S) - 1 /\ \A k \in 1 .. Len(S) - 1 : F[k] = S[k]
      BY <1>2, <1>8
    <3> HIDE DEF F
    <3>2. Append(F, d) \in Seq(Nat) /\ Len(Append(F, d)) = Len(F) + 1 /\ Append(F, d)[Len(F) + 1] = d
          /\ \A k \in 1..Len(F) : Append(F, d)[k] = F[k]
      BY <1>11, <3>1
    <3>3. Append(F, d) # <<>>
      BY <3>1, <3>2
    <3>4. Len(F) + 1 = Len(S)
      BY <1>2, <3>1
    <3> QED
      BY <3>1, <3>2, <3>3, <3>4 DEF F
  <2> HIDE DEF R
  <2>2. ASSUME NEW k \in 1..Len(R)
        PROVE  /\ R[k] <= Len(q) /\ Nest(q, R[k], Len(q) + 1) = Len(R) - k
               /\ \A j \in R[k] + 1 .. Len(q) : q[j].op \in {"end", "else"} => Nest(q, R[k], j) # 0
    <3>1. CASE k = Len(S)
      BY <1>1, <1>2, <1>12, <2>1, <3>1
    <3>2. CASE k # Len(S)
      <4>1. k \in 1..Len(S) /\ R[k] = S[k]
        BY <1>2, <2>1, <3>2
      <4>2. s.op \notin Opens \cup {"end"}
        BY <1>5, <1>9
      <4>3. S[k] <= Len(q) /\ Nest(q, S[k], Len(q) + 1) = Len(S) - k
        BY <1>1, <1>3, <1>11, <1>12, <4>1, <4>2
      <4>4. \A j \in S[k] + 1 .. Len(q) : q[j].op \in {"end", "else"} => Nest(q, S[k], j) # 0
        BY <1>3, <1>12, <3>2, <4>1
      <4>5. Len(R) - k = Len(S) - k
        BY <2>1
      <4> QED
        BY <4>1, <4>3, <4>4, <4>5
    <3> QED
      BY <3>1, <3>2
  <2>3. Tree(q, R)
    BY <2>1, <2>2 DEF Tree
  <2> QED
    BY <2>3 DEF R
<1>10. ASSUME s.op = "end", Len(S) > 1 PROVE Tree(q, Front(S))
  <2> DEFINE R == Front(S)
  <2>1. R \in Seq(Nat) /\ Len(R) = Len(S) - 1 /\ \A k \in 1..Len(R) : R[k] = S[k] /\ k \in 1..Len(S) /\ k # Len(S)
    BY <1>2, <1>8
  <2>4. R # <<>>
    BY <1>2, <1>10, <2>1
  <2> HIDE DEF R
  <2>2. ASSUME NEW k \in 1..Len(R)
        PROVE  /\ R[k] <= Len(q) /\ Nest(q, R[k], Len(q) + 1) = Len(R) - k
               /\ \A j \in R[k] + 1 .. Len(q) : q[j].op \in {"end", "else"} => Nest(q, R[k], j) # 0
    <3>1. k \in 1..Len(S) /\ k # Len(S) /\ R[k] = S[k]
      BY <2>1
    <3>3. S[k] <= Len(q) /\ Nest(q, S[k], Len(q) + 1) = Len(S) - k - 1
      BY <1>1, <1>3, <1>10, <1>11, <1>12, <3>1
    <3>4. \A j \in S[k] + 1 .. Len(q) : q[j].op \in {"end", "else"} => Nest(q, S[k], j) # 0
      BY <1>1, <1>3, <1>12, <3>1
    <3>5. Len(S) - k - 1 = Len(R) - k
      BY <1>2, <2>1, <3>1
    <3> QED
      BY <3>1, <3>3, <3>4, <3>5
  <2>3. Tree(q, R)
    BY <2>1, <2>2, <2>4 DEF Tree
  <2> QED
    BY <2>3 DEF R
<1> QED
  BY <1>6, <1>7, <1>9, <1>10 DEF q, d

(***************************************************************************)
(* The invariant.  What the checker thinks of a program depends on what     *)
(* comes later: a borrow ends with the last use of the borrower.  So the    *)
(* invariant is not about the program written so far alone, but about every *)
(* program q that extends it and that the checker passes this far.          *)
(***************************************************************************)
Apart(p, bl) ==
  /\ \A k, l \in 1..Len(bl) : k # l => Range(bl[k].names) \cap Range(bl[l].names) = {}
  /\ \A k \in 1..Len(bl) : \A x \in Range(bl[k].names) : x < Fresh(p)

(* A program and its open blocks.                                           *)
Nested(p, bl) ==
  p \in Seq(Statement) /\ bl \in Seq(Scope) /\ bl # <<>> /\ Tree(p, Ats(bl)) /\ Apart(p, bl)

Extends(q, p)   == Len(q) \in Nat /\ Len(p) <= Len(q) /\ \A i \in 1..Len(p) : q[i] = p[i]
Prior(q, p)     == Analysis(q)[Len(p)]
After(q, p)     == AnalyzeStmt(q, Len(p) + 1, Prior(q, p))

(* The program goes on with s, and is passed up to there.                   *)
Passes(q, p, s) == Extends(q, Append(p, s)) /\ Prior(q, Append(p, s)).ok

(* What the checker knows of a variable is what the code generator knows,   *)
(* and a map that has gone is marked as moved.                              *)
VarAgrees(a, m, x) ==
  /\ a.var[x].t = m.vars[x].t
  /\ m.vars[x].to # 0 <=> IsRef(a.var[x])
  /\ m.vars[x].to = 0 => a.var[x].from = 0
  /\ m.vars[x].view => a.var[x].const /\ a.var[x].borrowed

(* A variable whose map has gone is marked.                                 *)
Emptied(a, m, x) == OwnsA(m, x, "map") /\ m.slot[x] = 0 => a.var[x].moved

(* The checker at this statement, and the machine.                          *)
Agrees(a, p, bl, m) ==
  /\ Knowing(a) /\ a.scopes = Ats(bl) /\ Len(a.var) = Fresh(p) - 1
  /\ \A x \in Shown(bl) : VarAgrees(a, m, x)
  /\ \A x \in Live(bl) : Emptied(a, m, x)

(* What owns nothing has its value from an owner that outlives it, and that *)
(* owner is lent: it keeps its value for as long as v may be asked for.     *)
Expired(q, n, b, v) == \E j \in b + 1 .. n : ~(StmtIndex(q, b, j) <= LastUse(q, b, v))

(* The owner y still has what v was given.                                  *)
StillHolds(m, v, y) == IF m.vars[v].view THEN m.slot[v] = m.slot[y] ELSE m.slot[y] # 0

(* y is lent to v, and keeps its value unless v is never used again.        *)
Secured(q, p, at, m, v, y) ==
  Lends(q, Prior(q, p), at, v, y) /\ (StillHolds(m, v, y) \/ Expired(q, Len(p), at, v))

(* y outlives v, which was declared in block k, and is lent to it.          *)
Backs(p, bl, m, k, v, y) ==
  /\ IsOwner(m, y) /\ \E l \in 1..k : InBlock(bl, y, l)
  /\ m.vars[v].to # 0 => m.vars[v].to = y
  /\ m.vars[v].view => m.slot[v] # 0
  /\ \A q : Extends(q, p) /\ Prior(q, p).ok => Secured(q, p, bl[k].at, m, v, y)
Backed(p, bl, m) ==
  \A k \in 1..Len(bl) : OnTo(bl, k) =>
    \A v \in Range(bl[k].names) : ~IsOwner(m, v) => \E y \in Xs : Backs(p, bl, m, k, v, y)

(* In every program that goes on from p.                                    *)
Informed(p, bl, m) == \A q : Extends(q, p) /\ Prior(q, p).ok => Agrees(Prior(q, p), p, bl, m)

(* The invariant of a program p with open blocks bl and a machine m.        *)
Sound(p, bl, m) ==
  /\ Nested(p, bl)
  /\ Fit(m, Shown(bl), Live(bl), 0, 0, Exact(p))
  /\ \A x \in Xs : x >= Fresh(p) => m.slot[x] = 0
  /\ Informed(p, bl, m)
  /\ Backed(p, bl, m)

(* The blocks and what is in scope.                                         *)
LEMMA BlockFacts ==
  ASSUME NEW p, NEW bl, Nested(p, bl), NEW k \in 1..Len(bl)
  PROVE  /\ Len(bl) \in Nat \ {0} /\ bl[k].names \in Seq(Xs) /\ Range(bl[k].names) \subseteq Shown(bl)
         /\ bl[k].at \in 0..Len(p) /\ bl[k].at \in Range(Ats(bl)) /\ Len(p) \in Nat
         /\ OnTo(bl, k) => Range(bl[k].names) \subseteq Live(bl)
<1>1. bl \in Seq(Scope) /\ bl[k] \in Scope /\ p \in Seq(Statement) /\ Len(bl) \in Nat \ {0} /\ Len(p) \in Nat
  BY DEF Nested
<1>2. bl[k].names \in Seq(Xs)
  BY <1>1 DEF Scope
<1>3. Range(bl[k].names) \subseteq Xs
  BY <1>2 DEF Range
<1>4. Ats(bl)[k] = bl[k].at /\ k \in DOMAIN Ats(bl) /\ Len(Ats(bl)) = Len(bl)
  BY <1>1 DEF Ats
<1>5. bl[k].at \in 0..Len(p)
  <2>1. Ats(bl) \in Seq(Nat) /\ Ats(bl)[k] <= Len(p) /\ Ats(bl)[k] \in Nat
    BY <1>4 DEF Nested, Tree
  <2> QED
    BY <1>1, <1>4, <2>1
<1>6. bl[k].at \in Range(Ats(bl))
  BY <1>4 DEF Range
<1> QED
  BY <1>1, <1>2, <1>3, <1>5, <1>6 DEF Shown, Live, InBlock

(* A program that is passed further on was passed up to here.               *)
LEMMA Passing ==
  ASSUME NEW p \in Seq(Statement), NEW s \in Statement, NEW q, Passes(q, p, s)
  PROVE  /\ Extends(q, p) /\ Prior(q, p).ok /\ After(q, p).ok /\ q[Len(p) + 1] = s
         /\ Prior(q, Append(p, s)) = After(q, p)
<1> DEFINE r == Append(p, s)
<1>1. Len(p) \in Nat /\ Len(r) = Len(p) + 1 /\ r[Len(p) + 1] = s /\ \A i \in 1..Len(p) : r[i] = p[i]
  BY Appended
<1>2. Len(q) \in Nat /\ Len(r) <= Len(q) /\ (\A i \in 1..Len(r) : q[i] = r[i]) /\ Analysis(q)[Len(p) + 1].ok
  BY <1>1 DEF Passes, Extends, Prior
<1>3. Analysis(q)[Len(p) + 1] = NextKnown(q, Len(p) + 1, Prior(q, p))
  <2>1. Len(p) + 1 \in 1..Len(q) /\ (Len(p) + 1) - 1 = Len(p)
    BY <1>1, <1>2
  <2> QED
    BY <1>2, <2>1, AnalysisIs DEF Prior
<1>4. Prior(q, p).ok /\ Analysis(q)[Len(p) + 1] = After(q, p)
  BY <1>2, <1>3 DEF NextKnown, After
<1>5. Extends(q, p) /\ q[Len(p) + 1] = s
  BY <1>1, <1>2 DEF Extends
<1> QED
  BY <1>1, <1>2, <1>4, <1>5 DEF Prior

(* An accepted program is passed up to each of its statements.              *)
LEMMA AcceptedPasses ==
  ASSUME NEW p \in Seq(Statement), NEW s \in Statement, Accepted(Append(p, s))
  PROVE  Passes(Append(p, s), p, s)
<1>1. Append(p, s) \in Seq(Statement)
  OBVIOUS
<1> QED
  BY <1>1 DEF Accepted, Passes, Extends, Prior

(* A value whose borrower is not asked for again may go.                    *)
LEMMA Lapsed ==
  ASSUME NEW q, NEW n \in Nat, NEW a, NEW at \in 0..n, at \in Range(a.scopes),
         NEW v, NEW y, Lends(q, a, at, v, y), Unlent(q, n + 1, a, y)
  PROVE  Expired(q, n + 1, at, v)
<1> DEFINE end == LastUse(q, at, v)
<1>1. PICK mut \in BOOLEAN : Loan(y, mut, end, at) \in a.borrows
  BY DEF Lends
<1> DEFINE w == Loan(y, mut, end, at)
<1>2. w.owner = y /\ w.at = at /\ w.end = end
  BY DEF Loan
<1> HIDE DEF w
<1>3. ~(StmtIndex(q, w.at, n + 1) <= w.end)
  BY <1>1, <1>2 DEF Unlent, Active, w
<1>4. n + 1 \in at + 1 .. n + 1
  OBVIOUS
<1> QED
  BY <1>2, <1>3, <1>4 DEF Expired

(* A borrowed value stays while its borrower may be asked for.              *)
Spares(p, s, m, n, y) ==
  n.slot[y] = m.slot[y] \/ \A q : Passes(q, p, s) => Unlent(q, Len(p) + 1, Prior(q, p), y)

(* The statement forgets no borrow; the block k is still there.             *)
Recalls(p, s) == \A q : Passes(q, p, s) => Prior(q, p).borrows \subseteq After(q, p).borrows
Grown(bl, bl2, k) ==
  /\ k \in 1..Len(bl2) /\ bl2[k].at = bl[k].at
  /\ \A l \in 1..k : Range(bl[l].names) \subseteq Range(bl2[l].names)

(* What backs a variable still backs it after a statement.                  *)
LEMMA Carried ==
  ASSUME NEW p, NEW bl, NEW m, Nested(p, bl), Informed(p, bl, m), NEW k \in 1..Len(bl), NEW v, NEW y,
         Backs(p, bl, m, k, v, y),
         NEW s \in Statement, NEW n, NEW bl2, Grown(bl, bl2, k),
         n.vars[v] = m.vars[v], n.vars[y] = m.vars[y], n.slot[v] = m.slot[v],
         Recalls(p, s), Spares(p, s, m, n, y)
  PROVE  Backs(Append(p, s), bl2, n, k, v, y)
<1> DEFINE r == Append(p, s)
           at == bl[k].at
<1>1. p \in Seq(Statement) /\ Len(p) \in Nat /\ Len(r) = Len(p) + 1 /\ at \in 0..Len(p) /\ at \in Range(Ats(bl))
  <2>1. p \in Seq(Statement)
    BY DEF Nested
  <2> QED
    BY <2>1, BlockFacts, Appended
<1>2. ASSUME NEW q, Extends(q, r), Prior(q, r).ok
      PROVE  Secured(q, r, at, n, v, y)
  <2>1. Passes(q, p, s)
    BY <1>2 DEF Passes
  <2>2. Extends(q, p) /\ Prior(q, p).ok /\ Prior(q, r) = After(q, p)
    BY <1>1, <2>1, Passing
  <2>3. Lends(q, Prior(q, p), at, v, y) /\ (StillHolds(m, v, y) \/ Expired(q, Len(p), at, v))
    BY <2>2 DEF Backs, Secured
  <2>4. Lends(q, Prior(q, r), at, v, y)
    BY <2>1, <2>2, <2>3 DEF Lends, Recalls
  <2>5. CASE Expired(q, Len(p), at, v)
    <3>1. \A j \in at + 1 .. Len(p) : j \in at + 1 .. Len(r)
      BY <1>1
    <3>2. Expired(q, Len(r), at, v)
      BY <2>5, <3>1 DEF Expired
    <3> QED
      BY <2>4, <3>2 DEF Secured
  <2>6. CASE StillHolds(m, v, y) /\ n.slot[y] = m.slot[y]
    <3>1. StillHolds(n, v, y)
      BY <2>6 DEF StillHolds
    <3> QED
      BY <2>4, <3>1 DEF Secured
  <2>7. CASE Unlent(q, Len(p) + 1, Prior(q, p), y)
    <3>1. at \in Range(Prior(q, p).scopes)
      BY <1>1, <2>2 DEF Informed, Agrees
    <3>2. Expired(q, Len(p) + 1, at, v)
      BY <1>1, <2>3, <2>7, <3>1, Lapsed
    <3> QED
      BY <1>1, <2>4, <3>2 DEF Secured
  <2> QED
    BY <2>1, <2>3, <2>5, <2>6, <2>7 DEF Spares
<1>3. \E l \in 1..k : InBlock(bl2, y, l)
  BY DEF Backs, Grown, InBlock
<1> QED
  BY <1>2, <1>3 DEF Backs, IsOwner, Grown

(* What a statement names, it finds.                                        *)
LEMMA StillUsed ==
  ASSUME NEW p, NEW bl, NEW m, Sound(p, bl, m), NEW s \in Statement, ~IsMark(s), Accepted(Append(p, s)),
         NEW k \in 1..Len(bl), OnTo(bl, k), NEW v \in Range(bl[k].names), v \in Names(s), ~IsOwner(m, v)
  PROVE  \E y \in Live(bl) : /\ IsOwner(m, y) /\ Safe(m, y)
                             /\ m.vars[v].to # 0 => m.vars[v].to = y
                             /\ m.vars[v].view => m.slot[v] = m.slot[y]
<1> DEFINE q == Append(p, s)
           at == bl[k].at
<1>1. p \in Seq(Statement) /\ Nested(p, bl) /\ Tree(p, Ats(bl)) /\ bl \in Seq(Scope)
  BY DEF Sound, Nested
<1>2. Len(p) \in Nat /\ Len(q) = Len(p) + 1 /\ at \in 0..Len(p) /\ q[Len(q)] = s /\ Len(bl) \in Nat
  BY <1>1, BlockFacts, Appended
<1>3. PICK y \in Xs : Backs(p, bl, m, k, v, y)
  BY DEF Sound, Backed
<1>4. y \in Live(bl)
  <2>1. PICK l \in 1..k : InBlock(bl, y, l)
    BY <1>3 DEF Backs
  <2>2. l \in 1..Len(bl) /\ OnTo(bl, l)
    BY <1>2, <2>1 DEF OnTo
  <2> QED
    BY <2>1, <2>2 DEF Live
<1>5. Extends(q, p) /\ Prior(q, p).ok
  BY <1>1, AcceptedPasses, Passing
<1>6. Secured(q, p, at, m, v, y)
  BY <1>3, <1>5 DEF Backs
<1>7. ~Expired(q, Len(p), at, v)
  <2>1. Tree(q, Ats(bl))
    BY <1>1, TreeStep
  <2>2. Ats(bl)[k] = at /\ k \in 1..Len(Ats(bl))
    BY <1>1 DEF Ats
  <2>3. \A j \in at + 1 .. Len(q) : q[j].op \in {"end", "else"} => Nest(q, at, j) # 0
    BY <2>1, <2>2 DEF Tree
  <2>4. \A j \in at + 1 .. Len(q) : StmtIndex(q, at, j) <= LastUse(q, at, v)
    <3> HIDE DEF q, at
    <3>1. at \in Nat /\ at < Len(q) /\ Len(q) \in Nat /\ v \in Names(q[Len(q)])
      BY <1>2
    <3> QED
      BY <2>3, <3>1, InUse
  <2>5. \A j \in at + 1 .. Len(p) : j \in at + 1 .. Len(q)
    BY <1>2
  <2> HIDE DEF q, at
  <2> QED
    BY <2>4, <2>5 DEF Expired
<1>8. StillHolds(m, v, y)
  BY <1>6, <1>7 DEF Secured
<1>9. m.slot[y] # 0
  BY <1>3, <1>8 DEF StillHolds, Backs
<1>10. Safe(m, y)
  <2>1. Fit(m, Shown(bl), Live(bl), 0, 0, Exact(p))
    BY DEF Sound
  <2>2. y \in Shown(bl)
    BY <1>4 DEF Live, Shown
  <2> QED
    BY <1>3, <1>9, <2>1, <2>2, CellsAlive DEF Backs, Safe
<1> QED
  BY <1>3, <1>4, <1>8, <1>10 DEF Backs, StillHolds

LEMMA StaysKnown ==
  ASSUME NEW a, NEW b, NEW m, NEW n, NEW x, Later(a.var[x], b.var[x]), n.vars[x] = m.vars[x]
  PROVE  /\ VarAgrees(a, m, x) => VarAgrees(b, n, x)
         /\ n.slot[x] = m.slot[x] /\ Emptied(a, m, x) => Emptied(b, n, x)
<1>1. IsRef(a.var[x]) <=> IsRef(b.var[x])
  BY DEF Later, IsRef
<1>2. VarAgrees(a, m, x) => VarAgrees(b, n, x)
  BY <1>1 DEF VarAgrees, Later
<1>3. n.slot[x] = m.slot[x] /\ Emptied(a, m, x) => Emptied(b, n, x)
  BY DEF Emptied, Later, OwnsA, IsOwner
<1> QED
  BY <1>2, <1>3

LEMMA ShownFacts ==
  ASSUME NEW p, NEW bl, Nested(p, bl), NEW x \in Shown(bl)
  PROVE  x \in Xs /\ x \in 1 .. Fresh(p) - 1
<1>1. PICK k \in 1..Len(bl) : InBlock(bl, x, k)
  BY DEF Shown
<1>2. x \in Xs /\ x < Fresh(p)
  BY <1>1 DEF Nested, Apart, InBlock, Shown
<1>3. p \in Seq(Statement)
  BY DEF Nested
<1>4. Fresh(p) \in Nat
  <2> DEFINE q == Append(p, p[1])
  <2>1. Len(q) = Len(p) + 1 /\ (\A i \in 1..Len(p) : q[i] = p[i]) /\ Len(p) \in Nat
    BY <1>3
  <2> HIDE DEF q
  <2> QED
    BY <2>1, FreshNext
<1>5. x \in Nat /\ x >= 1
  BY <1>2 DEF Xs
<1> QED
  BY <1>2, <1>4, <1>5

(* A statement that declares nothing and marks no block.                    *)
Follows(p, bl, s, m, n) ==
  \A q : Passes(q, p, s) =>
    /\ Learned(Prior(q, p), After(q, p))
    /\ \A x \in Live(bl) : n.slot[x] = m.slot[x]
                           \/ (Unlent(q, Len(p) + 1, Prior(q, p), x) /\ Emptied(After(q, p), n, x))

(* A statement changes only variables that own, in blocks that run.         *)
Within(bl, m, n) ==
  n.vars = m.vars /\ \A x \in Xs : n.slot[x] = m.slot[x] \/ (x \in Live(bl) /\ IsOwner(m, x))

(* A statement that is neither a mark nor a declaration keeps the           *)
(* invariant.                                                               *)
LEMMA Executed ==
  ASSUME NEW p, NEW bl, NEW m, Sound(p, bl, m), NEW s \in Statement, ~IsMark(s), s.op # "let",
         NEW n, Fit(n, Shown(bl), Live(bl), 0, 0, Exact(Append(p, s))),
         Within(bl, m, n), Follows(p, bl, s, m, n)
  PROVE  Sound(Append(p, s), bl, n)
<1> DEFINE r == Append(p, s)
<1>1. p \in Seq(Statement) /\ Nested(p, bl) /\ bl \in Seq(Scope) /\ bl # <<>> /\ Tree(p, Ats(bl)) /\ Apart(p, bl)
  BY DEF Sound, Nested
<1>2. r \in Seq(Statement) /\ Len(r) = Len(p) + 1 /\ Len(p) \in Nat /\ r[Len(r)] = s /\ \A i \in 1..Len(p) : r[i] = p[i]
  BY <1>1, Appended
<1>3. Fresh(r) = Fresh(p)
  <2> HIDE DEF r
  <2> QED
    BY <1>2, FreshNext
<1>4. Nested(r, bl)
  <2>1. Tree(r, Ats(bl))
    BY <1>1, TreeStep
  <2>2. Apart(r, bl)
    BY <1>1, <1>3 DEF Apart
  <2> QED
    BY <1>1, <1>2, <2>1, <2>2 DEF Nested
<1>5. \A x \in Xs : x >= Fresh(r) => n.slot[x] = 0
  <2> SUFFICES ASSUME NEW x \in Xs, x >= Fresh(p) PROVE n.slot[x] = 0
    BY <1>3
  <2>1. m.slot[x] = 0
    BY DEF Sound
  <2>2. x \notin Live(bl)
    <3> SUFFICES ASSUME x \in Live(bl) PROVE FALSE
      OBVIOUS
    <3>1. x \in Shown(bl)
      BY DEF Live, Shown
    <3>2. x \in 1 .. Fresh(p) - 1
      BY <1>1, <3>1, ShownFacts
    <3>3. Fresh(p) \in Nat
      BY <1>1, <1>2, FreshNext
    <3> QED
      BY <3>2, <3>3
  <2> QED
    BY <2>1, <2>2 DEF Within
<1>6. Informed(r, bl, n)
  <2> SUFFICES ASSUME NEW q, Extends(q, r), Prior(q, r).ok PROVE Agrees(Prior(q, r), r, bl, n)
    BY DEF Informed
  <2> DEFINE a == Prior(q, p)
             b == Prior(q, r)
  <2>1. Passes(q, p, s)
    BY DEF Passes
  <2>2. Extends(q, p) /\ a.ok /\ b = After(q, p)
    BY <1>1, <2>1, Passing
  <2>3. Agrees(a, p, bl, m) /\ Learned(a, b)
    BY <2>1, <2>2 DEF Sound, Informed, Follows
  <2>4. \A x \in Live(bl) : n.slot[x] = m.slot[x] \/ Emptied(b, n, x)
    BY <2>1, <2>2 DEF Follows
  <2> HIDE DEF a, b, r
  <2>5. Knowing(b) /\ b.scopes = Ats(bl) /\ Len(b.var) = Fresh(r) - 1
    BY <1>3, <2>3 DEF Agrees, Learned
  <2>6. ASSUME NEW x \in Shown(bl) PROVE Later(a.var[x], b.var[x]) /\ n.vars[x] = m.vars[x]
    <3>1. x \in 1..Len(a.var)
      BY <1>1, <2>3, ShownFacts DEF Agrees
    <3> QED
      BY <2>3, <3>1 DEF Learned, Within
  <2>7. \A x \in Shown(bl) : VarAgrees(b, n, x)
    BY <2>3, <2>6, StaysKnown DEF Agrees
  <2>8. Live(bl) \subseteq Shown(bl)
    BY DEF Live, Shown
  <2>9. \A x \in Live(bl) : Emptied(b, n, x)
    BY <2>3, <2>4, <2>6, <2>8, StaysKnown DEF Agrees
  <2> QED
    BY <2>5, <2>7, <2>9 DEF Agrees, b
<1>7. Backed(r, bl, n)
  <2> SUFFICES ASSUME NEW k \in 1..Len(bl), OnTo(bl, k), NEW v \in Range(bl[k].names), ~IsOwner(n, v)
               PROVE  \E y \in Xs : Backs(r, bl, n, k, v, y)
    BY DEF Backed
  <2>1. ~IsOwner(m, v) /\ n.vars = m.vars
    BY DEF Within, IsOwner
  <2>2. PICK y \in Xs : Backs(p, bl, m, k, v, y)
    BY <2>1 DEF Sound, Backed
  <2>3. v \in Xs
    BY <1>1, BlockFacts DEF Shown
  <2>4. n.slot[v] = m.slot[v]
    BY <2>1, <2>3 DEF Within
  <2>5. Recalls(p, s)
    BY DEF Recalls, Follows, Learned
  <2>6. Spares(p, s, m, n, y)
    BY <2>2 DEF Spares, Follows, Within
  <2>7. Grown(bl, bl, k)
    BY DEF Grown
  <2>8. Informed(p, bl, m)
    BY DEF Sound
  <2> QED
    BY <1>1, <2>1, <2>2, <2>4, <2>5, <2>6, <2>7, <2>8, Carried
<1> QED
  BY <1>4, <1>5, <1>6, <1>7 DEF Sound

LEMMA ExactNext ==
  ASSUME NEW p \in Seq(Statement), NEW s \in Statement
  PROVE  /\ s.op # "pass" => Exact(Append(p, s)) = Exact(p)
         /\ s.op = "pass" => Slack(Exact(Append(p, s)))
<1> DEFINE r == Append(p, s)
<1>1. Len(r) = Len(p) + 1 /\ Len(p) \in Nat /\ r[Len(p) + 1] = s /\ \A i \in 1..Len(p) : r[i] = p[i]
  BY Appended
<1> HIDE DEF r
<1>2. s.op = "pass" => ~Exact(r)
  <2>1. Len(p) + 1 \in 1..Len(r)
    BY <1>1
  <2> QED
    BY <1>1, <2>1 DEF Exact
<1>3. s.op # "pass" => (Exact(r) <=> Exact(p))
  <2>1. \A i \in 1..Len(r) : i \in 1..Len(p) \/ i = Len(p) + 1
    BY <1>1
  <2>2. \A i \in 1..Len(p) : i \in 1..Len(r)
    BY <1>1
  <2> QED
    BY <1>1, <2>1, <2>2 DEF Exact
<1>4. s.op # "pass" => Exact(r) = Exact(p)
  BY <1>3 DEF Exact
<1> QED
  BY <1>2, <1>4 DEF Slack, r

(* What the checker knows when it comes to the next statement.              *)
LEMMA Seen ==
  ASSUME NEW p, NEW bl, NEW m, Sound(p, bl, m), NEW s \in Statement, NEW q, Passes(q, p, s)
  PROVE  LET a == Prior(q, p)
         IN  /\ Knowing(a) /\ After(q, p).ok /\ q[Len(p) + 1] = s
             /\ a.scopes # <<>> /\ Last(a.scopes) = bl[Len(bl)].at /\ Len(a.var) = Fresh(p) - 1
             /\ \A x \in Shown(bl) : x \in 1..Len(a.var) /\ VarAgrees(a, m, x)
             /\ \A x \in Live(bl) : Emptied(a, m, x)
<1> DEFINE a == Prior(q, p)
<1>1. p \in Seq(Statement) /\ Nested(p, bl) /\ bl \in Seq(Scope) /\ bl # <<>>
  BY DEF Sound, Nested
<1>2. Extends(q, p) /\ a.ok /\ After(q, p).ok /\ q[Len(p) + 1] = s
  BY <1>1, Passing
<1>3. Agrees(a, p, bl, m)
  BY <1>2 DEF Sound, Informed
<1>4. Ats(bl) # <<>> /\ Last(Ats(bl)) = bl[Len(bl)].at
  BY <1>1 DEF Ats, Last
<1>5. \A x \in Shown(bl) : x \in 1..Len(a.var)
  BY <1>1, <1>3, ShownFacts DEF Agrees
<1> QED
  BY <1>2, <1>3, <1>4, <1>5 DEF Agrees

(* A statement that changes nothing, or does not run.                       *)
Learns(p, s) == \A q : Passes(q, p, s) => Learned(Prior(q, p), After(q, p))
LEMMA Skipped ==
  ASSUME NEW p, NEW bl, NEW m, Sound(p, bl, m), NEW s \in Statement, ~IsMark(s), s.op # "let",
         Learns(p, s)
  PROVE  Sound(Append(p, s), bl, m)
<1>1. Fit(m, Shown(bl), Live(bl), 0, 0, Exact(p)) /\ p \in Seq(Statement)
  BY DEF Sound, Nested
<1>2. Fit(m, Shown(bl), Live(bl), 0, 0, Exact(Append(p, s)))
  BY <1>1, ExactNext, Loosened
<1>3. Within(bl, m, m) /\ Follows(p, bl, s, m, m)
  BY DEF Within, Follows, Learns
<1> QED
  BY <1>2, <1>3, Executed

LEMMA Readable ==
  ASSUME NEW p, NEW bl, NEW m, Sound(p, bl, m), NEW s \in Statement, NEW q, Passes(q, p, s),
         NEW x \in Live(bl), IsOwner(m, x), ~Prior(q, p).var[x].moved
  PROVE  Safe(m, x)
<1>1. x \in Shown(bl) /\ Fit(m, Shown(bl), Live(bl), 0, 0, Exact(p))
  BY DEF Live, Shown, Sound
<1>2. VarFits(m, Live(bl), x)
  BY <1>1, FitFacts
<1>3. m.slot[x] # 0
  <2>1. CASE m.vars[x].t = "str"
    BY <1>2, <2>1 DEF VarFits
  <2>2. CASE m.vars[x].t = "map"
    BY <2>2, Seen DEF Emptied, OwnsA
  <2> QED
    BY <1>2, <2>1, <2>2 DEF VarFits
<1> QED
  BY <1>1, <1>3, CellsAlive DEF Safe

LEMMA UseLearns ==
  ASSUME NEW p, NEW bl, NEW m, Sound(p, bl, m), NEW x, Use(x) \in Statement
  PROVE  /\ ~IsMark(Use(x)) /\ Use(x).op # "let" /\ Use(x).op # "pass"
         /\ \A q : Passes(q, p, Use(x)) =>
              Learned(Prior(q, p), After(q, p)) /\ ~Prior(q, p).var[x].moved
<1>1. ASSUME NEW q, Passes(q, p, Use(x))
      PROVE  Learned(Prior(q, p), After(q, p)) /\ ~Prior(q, p).var[x].moved
  BY <1>1, Seen, JudgeUse DEF After
<1>2. ~IsMark(Use(x)) /\ Use(x).op # "let" /\ Use(x).op # "pass"
  BY DEF Use, Stmt, IsMark, Opens
<1> QED
  BY <1>1, <1>2

(* Which holds for each such statement.                                     *)
LEMMA UseStep ==
  ASSUME NEW p, NEW m, Sound(p, blocks, m), NEW x \in Live(blocks), Use(x) \in Statement,
         Accepted(Append(p, Use(x)))
  PROVE  Sound(Append(p, Use(x)), blocks, ExecUse(m, x))
<1> DEFINE s == Use(x)
<1>1. x \in Xs /\ x \in Shown(blocks) /\ Fit(m, Shown(blocks), Live(blocks), 0, 0, Exact(p))
      /\ p \in Seq(Statement) /\ blocks \in Seq(Scope)
  BY DEF Live, Shown, Sound, Nested
<1>2. VarFits(m, Live(blocks), x)
  BY <1>1, FitFacts
<1>3. Passes(Append(p, s), p, s)
  BY <1>1, AcceptedPasses
<1>4. ~IsMark(s) /\ s.op # "let" /\ Learns(p, s) /\ ~Prior(Append(p, s), p).var[x].moved
  BY <1>3, UseLearns DEF Learns
<1>5. ExecUse(m, x) = m
  <2>1. CASE IsOwner(m, x)
    <3>1. Safe(m, x)
      BY <1>3, <1>4, <2>1, Readable
    <3> QED
      BY <1>1, <2>1, <3>1, UseIs DEF IsOwner
  <2>2. CASE ~IsOwner(m, x)
    <3>1. PICK k \in 1..Len(blocks) : OnTo(blocks, k) /\ x \in Range(blocks[k].names)
      BY DEF Live, InBlock
    <3>2. x \in Names(s)
      <4>1. s.x = x /\ s.op \notin Opens \cup {"else", "end"} /\ x # 0
        <5>1. s.op = "use" /\ s.x = x
          BY KindsDiffer
        <5>2. x # 0
          BY <1>1 DEF Xs
        <5> HIDE DEF s
        <5> QED
          BY <5>1, <5>2 DEF Opens
      <4> HIDE DEF s
      <4> QED
        BY <4>1 DEF Names
    <3>3. PICK y \in Live(blocks) : /\ IsOwner(m, y) /\ Safe(m, y)
                                    /\ m.vars[x].to # 0 => m.vars[x].to = y
                                    /\ m.vars[x].view => m.slot[x] = m.slot[y]
      BY <1>4, <2>2, <3>1, <3>2, StillUsed
    <3>4. Open(y) /\ y \in Xs
      BY <1>1 DEF Live, Open, InBlock, Range
    <3>5. CASE m.vars[x].to # 0
      BY <1>1, <3>3, <3>4, <3>5, UseIs
    <3>6. CASE m.vars[x].to = 0
      <4>1. m.vars[x].view
        BY <2>2, <3>6 DEF IsOwner
      <4>2. Safe(m, x)
        BY <3>3, <4>1 DEF Safe
      <4> QED
        BY <1>1, <3>6, <4>2, UseIs
    <3> QED
      BY <3>5, <3>6
  <2> QED
    BY <2>1, <2>2
<1> QED
  BY <1>4, <1>5, Skipped

(* A map that moves has no borrower left.                                   *)
LEMMA Leaves ==
  ASSUME NEW p, NEW i, NEW a, NEW n, NEW m, NEW y, Taking(p, i, a, y, n), VarAgrees(a, m, y),
         m.vars[y].to = 0, m.vars[y].t = "map"
  PROVE  OwnsA(m, y, "map") /\ Unlent(p, i, a, y) /\ n.var[y].moved
<1>1. MoveOnly(a.var[y])
  BY DEF VarAgrees, MoveOnly
<1>2. ~MayNotMove(p, i, a, y) /\ n.var[y].moved
  BY <1>1 DEF Taking
<1>3. Unlent(p, i, a, y) /\ ~a.var[y].const
  BY <1>2 DEF MayNotMove, BorrowHasAny, Unlent
<1>4. ~m.vars[y].view
  BY <1>3 DEF VarAgrees
<1> QED
  BY <1>2, <1>3, <1>4 DEF OwnsA, IsOwner

LEMMA AssignNewStep ==
  ASSUME NEW p, NEW bl, NEW m, Sound(p, bl, m), NEW x \in Shown(bl), m.vars[x].to = 0,
         NEW s \in Statement, s = Assign(x, New(m.vars[x].t)), Accepted(Append(p, s))
  PROVE  /\ Sound(Append(p, s), bl, m)
         /\ x \in Live(bl) => Sound(Append(p, s), bl, ExecAssign(m, s))
<1> DEFINE t == m.vars[x].t
           n == ExecAssign(m, s)
<1>1. p \in Seq(Statement) /\ Fit(m, Shown(bl), Live(bl), 0, 0, Exact(p)) /\ x \in Xs
  BY DEF Sound, Nested, Shown
<1>2. ASSUME NEW q, Passes(q, p, s)
      PROVE  /\ Learned(Prior(q, p), After(q, p)) /\ Unlent(q, Len(p) + 1, Prior(q, p), x)
             /\ ~Prior(q, p).var[x].const /\ VarAgrees(Prior(q, p), m, x)
  BY <1>2, Seen, JudgeAssignNew DEF After
<1>3. s.op = "assign"
  BY KindsDiffer
<1>4. ~IsMark(s) /\ s.op # "let" /\ s.op # "pass"
  BY <1>3 DEF IsMark, Opens
<1>5. Sound(Append(p, s), bl, m)
  BY <1>2, <1>4, Skipped DEF Learns
<1>6. OwnsA(m, x, t)
  <2>1. Passes(Append(p, s), p, s)
    BY <1>1, AcceptedPasses
  <2> QED
    BY <1>2, <2>1 DEF OwnsA, IsOwner, VarAgrees
<1>7. t \in {"str", "map"}
  BY <1>1, FitFacts DEF VarFits
<1>8. ASSUME x \in Live(bl) PROVE Sound(Append(p, s), bl, n)
  <2>1. Fit(n, Shown(bl), Live(bl), 0, 0, Exact(p)) /\ Writes(m, n, {x}) /\ n.slot[x] # 0
    <3> HIDE DEF n, t
    <3>1. LET e == ExecAssign(m, Assign(x, New(t)))
          IN  Fit(e, Shown(bl), Live(bl), 0, 0, Exact(p)) /\ Writes(m, e, {x}) /\ e.slot[x] # 0
      BY <1>1, <1>6, <1>7, <1>8, AssignNewFits
    <3> QED
      BY <3>1 DEF n, t
  <2> HIDE DEF n
  <2>2. Fit(n, Shown(bl), Live(bl), 0, 0, Exact(Append(p, s)))
    BY <1>1, <1>4, <2>1, ExactNext
  <2>3. Within(bl, m, n)
    BY <1>6, <1>8, <2>1 DEF Within, Writes, OwnsA
  <2>4. Live(bl) \subseteq Xs
    BY DEF Live
  <2>5. Follows(p, bl, s, m, n)
    BY <1>2, <2>1, <2>4 DEF Follows, Writes, Emptied
  <2> QED
    BY <1>4, <2>2, <2>3, <2>5, Executed
<1> QED
  BY <1>5, <1>8

LEMMA AssignVarStep ==
  ASSUME NEW p, NEW bl, NEW m, Sound(p, bl, m), NEW x \in Shown(bl), m.vars[x].to = 0,
         NEW y \in Shown(bl), m.vars[y].to = 0, m.vars[y].t = m.vars[x].t,
         NEW s \in Statement, s = Assign(x, Var(y)), Accepted(Append(p, s))
  PROVE  /\ Sound(Append(p, s), bl, m)
         /\ x \in Live(bl) /\ y \in Live(bl) => Sound(Append(p, s), bl, ExecAssign(m, s))
<1> DEFINE t == m.vars[x].t
           n == ExecAssign(m, s)
<1>1. p \in Seq(Statement) /\ Fit(m, Shown(bl), Live(bl), 0, 0, Exact(p)) /\ x \in Xs /\ y \in Xs
  BY DEF Sound, Nested, Shown
<1>2. ASSUME NEW q, Passes(q, p, s)
      PROVE  /\ Learned(Prior(q, p), After(q, p)) /\ Unlent(q, Len(p) + 1, Prior(q, p), x)
             /\ ~Prior(q, p).var[x].const /\ ~Prior(q, p).var[y].moved
             /\ Taking(q, Len(p) + 1, Prior(q, p), y, After(q, p))
             /\ VarAgrees(Prior(q, p), m, x) /\ VarAgrees(Prior(q, p), m, y)
  <2>1. VarAgrees(Prior(q, p), m, x) /\ VarAgrees(Prior(q, p), m, y) /\ y \in 1..Len(Prior(q, p).var)
    BY <1>2, Seen
  <2>2. Prior(q, p).var[y].from = 0
    BY <2>1 DEF VarAgrees
  <2> QED
    BY <1>2, <2>1, <2>2, Seen, JudgeAssignVar DEF After
<1>3. s.op = "assign"
  BY KindsDiffer
<1>4. ~IsMark(s) /\ s.op # "let" /\ s.op # "pass"
  BY <1>3 DEF IsMark, Opens
<1>5. Sound(Append(p, s), bl, m)
  BY <1>2, <1>4, Skipped DEF Learns
<1>6. Passes(Append(p, s), p, s)
  BY <1>1, AcceptedPasses
<1>7. VarFits(m, Live(bl), x) /\ VarFits(m, Live(bl), y)
  BY <1>1, FitFacts
<1>8. t \in {"str", "map"} /\ OwnsA(m, x, t) /\ OwnsA(m, y, t)
  <2>1. t \in {"str", "map"} /\ OwnsA(m, x, t)
    BY <1>2, <1>6, <1>7 DEF OwnsA, IsOwner, VarAgrees, VarFits
  <2>2. CASE t = "str"
    BY <1>7, <2>1, <2>2 DEF OwnsA, IsOwner, VarFits
  <2>3. CASE t = "map"
    <3>1. m.vars[y].t = "map"
      BY <2>3
    <3> QED
      BY <1>2, <1>6, <2>1, <2>3, <3>1, Leaves
  <2> QED
    BY <2>1, <2>2, <2>3
<1>9. ASSUME x \in Live(bl), y \in Live(bl) PROVE Sound(Append(p, s), bl, n)
  <2>1. CASE x = y
    <3>1. n = m
      <4> HIDE DEF t
      <4>1. ExecAssign(m, Assign(x, Var(y))) = m
        BY <1>1, <1>8, <2>1, AssignVarIs DEF Fit
      <4> QED
        BY <4>1
    <3> QED
      BY <1>5, <3>1
  <2>2. CASE x # y /\ t = "str"
    <3>1. Fit(n, Shown(bl), Live(bl), 0, 0, Exact(p)) /\ Writes(m, n, {x}) /\ n.slot[x] # 0
      <4>1. OwnsA(m, x, "str") /\ OwnsA(m, y, "str")
        BY <1>8, <2>2
      <4> HIDE DEF n, t
      <4>2. LET e == ExecAssign(m, Assign(x, Var(y)))
            IN  Fit(e, Shown(bl), Live(bl), 0, 0, Exact(p)) /\ Writes(m, e, {x}) /\ e.slot[x] # 0
        BY <1>1, <1>9, <2>2, <4>1, AssignStrFits
      <4> QED
        BY <4>2 DEF n
    <3> HIDE DEF n
    <3>2. Fit(n, Shown(bl), Live(bl), 0, 0, Exact(Append(p, s)))
      BY <1>1, <1>4, <3>1, ExactNext
    <3>3. Within(bl, m, n)
      BY <1>8, <1>9, <3>1 DEF Within, Writes, OwnsA
    <3>4. Live(bl) \subseteq Xs
      BY DEF Live
    <3>5. Follows(p, bl, s, m, n)
      BY <1>2, <3>1, <3>4 DEF Follows, Writes, Emptied
    <3> QED
      BY <1>4, <3>2, <3>3, <3>5, Executed
  <2>3. CASE x # y /\ t = "map"
    <3>0. OwnsA(m, x, "map") /\ OwnsA(m, y, "map") /\ m.vars[y].t = "map" /\ IsOwner(m, y)
      BY <1>8, <2>3 DEF OwnsA
    <3>1. Fit(n, Shown(bl), Live(bl), 0, 0, Exact(p)) /\ Writes(m, n, {x, y}) /\ n.slot[x] = m.slot[y]
      <4> HIDE DEF n, t
      <4>2. LET e == ExecAssign(m, Assign(x, Var(y)))
            IN  Fit(e, Shown(bl), Live(bl), 0, 0, Exact(p)) /\ Writes(m, e, {x, y}) /\ e.slot[x] = m.slot[y]
        BY <1>1, <1>9, <2>3, <3>0, AssignMapFits
      <4> QED
        BY <4>2 DEF n
    <3> HIDE DEF n
    <3>2. Fit(n, Shown(bl), Live(bl), 0, 0, Exact(Append(p, s)))
      BY <1>1, <1>4, <3>1, ExactNext
    <3>3. Within(bl, m, n)
      BY <3>0, <1>9, <3>1 DEF Within, Writes, OwnsA
    <3>4. Live(bl) \subseteq Xs
      BY DEF Live
    <3>5. m.slot[y] # 0
      BY <1>2, <1>6, <1>9, <3>0, Readable DEF Safe
    <3>6. Follows(p, bl, s, m, n)
      <4> SUFFICES ASSUME NEW q, Passes(q, p, s), NEW z \in Live(bl)
                   PROVE  \/ n.slot[z] = m.slot[z]
                          \/ Unlent(q, Len(p) + 1, Prior(q, p), z) /\ Emptied(After(q, p), n, z)
        BY <1>2 DEF Follows
      <4>1. CASE z = x
        BY <1>2, <3>1, <3>5, <4>1 DEF Emptied
      <4>2. CASE z = y
        <5>1. Unlent(q, Len(p) + 1, Prior(q, p), y) /\ After(q, p).var[y].moved
          BY <1>2, <3>0, Leaves
        <5> QED
          BY <4>2, <5>1 DEF Emptied
      <4>3. CASE z # x /\ z # y
        BY <3>1, <3>4, <4>3 DEF Writes
      <4> QED
        BY <4>1, <4>2, <4>3
    <3> QED
      BY <1>4, <3>2, <3>3, <3>6, Executed
  <2> QED
    BY <1>8, <2>1, <2>2, <2>3
<1> QED
  BY <1>5, <1>9

LEMMA PassLearns ==
  ASSUME NEW p, NEW bl, NEW m, Sound(p, bl, m), NEW x \in Shown(bl), NEW mode \in {"const", "let", "move"},
         NEW s \in Statement, s = Pass(mode, x)
  PROVE  /\ ~IsMark(s) /\ s.op # "let" /\ s.op = "pass" /\ x \in Names(s)
         /\ Sound(Append(p, s), bl, m)
         /\ \A q : Passes(q, p, s) =>
              /\ ~Prior(q, p).var[x].moved /\ VarAgrees(Prior(q, p), m, x)
              /\ mode = "move" => Taking(q, Len(p) + 1, Prior(q, p), x, After(q, p))
<1>1. ASSUME NEW q, Passes(q, p, s)
      PROVE  /\ Learned(Prior(q, p), After(q, p))
             /\ ~Prior(q, p).var[x].moved /\ VarAgrees(Prior(q, p), m, x)
             /\ mode = "move" => Taking(q, Len(p) + 1, Prior(q, p), x, After(q, p))
  BY <1>1, Seen, JudgePass DEF After
<1>2. s.op = "pass" /\ s.x = x
  BY KindsDiffer
<1>3. ~IsMark(s) /\ s.op # "let" /\ s.op \notin Opens \cup {"else", "end"}
  BY <1>2 DEF IsMark, Opens
<1>4. x # 0
  BY DEF Shown, Xs
<1>5. x \in Names(s)
  BY <1>2, <1>3, <1>4 DEF Names
<1>6. Sound(Append(p, s), bl, m)
  BY <1>1, <1>3, Skipped DEF Learns
<1> QED
  BY <1>1, <1>2, <1>3, <1>5, <1>6

LEMMA PassStep ==
  ASSUME NEW p, NEW bl, NEW m, Sound(p, bl, m), NEW x \in Live(bl), m.vars[x].to = 0,
         NEW mode \in {"const", "let", "move"},
         NEW s \in Statement, s = Pass(mode, x), Accepted(Append(p, s))
  PROVE  Sound(Append(p, s), bl, ExecPass(m, s))
<1> DEFINE r == Append(p, s)
           n == ExecPass(m, s)
<1>1. p \in Seq(Statement) /\ Fit(m, Shown(bl), Live(bl), 0, 0, Exact(p)) /\ x \in Xs /\ x \in Shown(bl)
      /\ Live(bl) \subseteq Xs
  BY DEF Sound, Nested, Shown, Live
<1>2. ~IsMark(s) /\ s.op # "let" /\ s.op = "pass" /\ x \in Names(s) /\ Sound(r, bl, m)
  BY <1>1, PassLearns
<1>3. ASSUME NEW q, Passes(q, p, s)
      PROVE  /\ ~Prior(q, p).var[x].moved /\ VarAgrees(Prior(q, p), m, x)
             /\ mode = "move" => Taking(q, Len(p) + 1, Prior(q, p), x, After(q, p))
  BY <1>1, <1>3, PassLearns
<1>4. Passes(r, p, s)
  BY <1>1, AcceptedPasses
<1>5. VarFits(m, Live(bl), x)
  BY <1>1, FitFacts
<1>6. Fit(m, Shown(bl), Live(bl), 0, 0, Exact(r)) /\ Slack(Exact(r))
  BY <1>1, <1>2, ExactNext, Loosened
<1>7. Learns(p, s)
  BY <1>1, Seen, JudgePass DEF After, Learns
<1>8. CASE m.vars[x].t = "str"
  <2>1. OwnsA(m, x, "str")
    BY <1>5, <1>8 DEF VarFits, OwnsA, IsOwner
  <2>2. Fit(n, Shown(bl), Live(bl), 0, 0, Exact(r)) /\ Writes(m, n, {})
    <3> HIDE DEF n, r
    <3>1. LET e == ExecPass(m, Pass(mode, x))
          IN  Fit(e, Shown(bl), Live(bl), 0, 0, Exact(r)) /\ Writes(m, e, {})
      BY <1>6, <2>1, PassStrFits
    <3> QED
      BY <3>1 DEF n
  <2> HIDE DEF n
  <2>3. Within(bl, m, n) /\ Follows(p, bl, s, m, n)
    BY <1>1, <1>7, <2>2 DEF Within, Follows, Writes, Learns
  <2> QED
    BY <1>2, <2>2, <2>3, Executed DEF n
<1>9. CASE m.vars[x].t = "map" /\ IsOwner(m, x)
  <2>1. OwnsA(m, x, "map") /\ Safe(m, x)
    BY <1>3, <1>4, <1>9, Readable DEF OwnsA
  <2>2. /\ Fit(n, Shown(bl), Live(bl), 0, 0, Exact(r))
        /\ mode # "move" => n = m
        /\ mode = "move" => Writes(m, n, {x})
    <3> HIDE DEF n, r
    <3>1. LET e == ExecPass(m, Pass(mode, x))
          IN  /\ Fit(e, Shown(bl), Live(bl), 0, 0, Exact(r))
              /\ mode # "move" => e = m
              /\ mode = "move" => Writes(m, e, {x})
      BY <1>1, <1>6, <2>1, PassMapFits
    <3> QED
      BY <3>1 DEF n
  <2> HIDE DEF n
  <2>3. CASE mode = "move"
    <3>1. Within(bl, m, n)
      BY <1>9, <2>2, <2>3 DEF Within, Writes
    <3>2. Follows(p, bl, s, m, n)
      <4> SUFFICES ASSUME NEW q, Passes(q, p, s), NEW z \in Live(bl), z = x
                   PROVE  Unlent(q, Len(p) + 1, Prior(q, p), z) /\ Emptied(After(q, p), n, z)
        BY <1>1, <1>7, <2>2, <2>3 DEF Follows, Writes, Learns
      <4>1. Unlent(q, Len(p) + 1, Prior(q, p), x) /\ After(q, p).var[x].moved
        BY <1>3, <1>9, <2>3, Leaves
      <4> QED
        BY <4>1 DEF Emptied
    <3> QED
      BY <1>2, <2>2, <3>1, <3>2, Executed DEF n
  <2> QED
    BY <1>2, <2>2, <2>3 DEF n
<1>10. CASE m.vars[x].t = "map" /\ ~IsOwner(m, x)
  <2>1. m.vars[x].view
    BY <1>10 DEF IsOwner
  <2>2. mode # "move"
    <3> SUFFICES ASSUME mode = "move" PROVE FALSE
      OBVIOUS
    <3>1. OwnsA(m, x, "map")
      BY <1>3, <1>4, <1>10, Leaves
    <3> QED
      BY <1>10, <3>1 DEF OwnsA
  <2>3. PICK k \in 1..Len(bl) : OnTo(bl, k) /\ x \in Range(bl[k].names)
    BY DEF Live, InBlock
  <2>4. PICK y \in Live(bl) : IsOwner(m, y) /\ Safe(m, y) /\ m.slot[x] = m.slot[y]
    BY <1>2, <1>10, <2>1, <2>3, StillUsed
  <2>5. Look(m, m.slot[x]) = m
    <3>1. y \in Shown(bl) /\ m.slot[y] \in 1..Len(m.heap) /\ m \in Machines
      <4>1. y \in Shown(bl)
        BY DEF Live, Shown
      <4>2. m.slot[y] \in 0..Len(m.heap) /\ m \in Machines /\ Len(m.heap) \in Nat
        BY <1>1, <4>1, FitFacts
      <4> QED
        BY <2>4, <4>1, <4>2 DEF Safe
    <3>2. m.heap[m.slot[y]].rc \in Nat
      BY <3>1, Cells
    <3> QED
      BY <2>4, <3>2, Looked DEF Safe
  <2>6. n = m
    <3> HIDE DEF n, r
    <3>1. ExecPass(m, Pass(mode, x)) = m
      BY <1>1, <1>10, <2>2, <2>5, PassIs DEF Fit
    <3> QED
      BY <3>1 DEF n
  <2> QED
    BY <1>2, <2>6 DEF n
<1> QED
  BY <1>5, <1>8, <1>9, <1>10 DEF VarFits

(* A declaration: the innermost block has one more name.                    *)
WithName(bl, x) == [bl EXCEPT ![Len(bl)].names = Append(@, x)]

(* The name of a new variable in the innermost block.                       *)
LEMMA WithNameFacts ==
  ASSUME NEW bl \in Seq(Scope), bl # <<>>, NEW x \in Xs
  PROVE  LET bl2 == WithName(bl, x)
         IN  /\ bl2 \in Seq(Scope) /\ bl2 # <<>> /\ Len(bl2) = Len(bl) /\ Len(bl) \in 1..Len(bl)
             /\ \A k \in 1..Len(bl) : bl2[k].at = bl[k].at /\ bl2[k].on = bl[k].on
             /\ \A k \in 1..Len(bl) : k # Len(bl) => bl2[k] = bl[k]
             /\ Range(bl2[Len(bl)].names) = Range(bl[Len(bl)].names) \cup {x}
<1> DEFINE bl2 == WithName(bl, x)
           L == Len(bl)
           b == bl[L]
           c == [b EXCEPT !.names = Append(@, x)]
<1>1. L \in Nat /\ L \in 1..L
  OBVIOUS
<1>2. b \in Scope /\ b.names \in Seq(Xs)
  <2>1. b \in Scope
    BY <1>1
  <2> HIDE DEF b
  <2> QED
    BY <2>1 DEF Scope
<1>3. Append(b.names, x) \in Seq(Xs) /\ Range(Append(b.names, x)) = Range(b.names) \cup {x}
  <2> DEFINE d == b.names
             e == Append(d, x)
  <2>1. d \in Seq(Xs)
    BY <1>2
  <2> HIDE DEF d
  <2>2. Len(d) \in Nat /\ Len(e) = Len(d) + 1 /\ e[Len(d) + 1] = x /\ (\A i \in 1..Len(d) : e[i] = d[i]) /\ e \in Seq(Xs)
    BY <2>1
  <2> HIDE DEF e
  <2>3. ASSUME NEW z \in Range(e) PROVE z \in Range(d) \cup {x}
    <3>1. PICK i \in 1..Len(e) : e[i] = z
      BY <2>2 DEF Range
    <3>2. i \in 1..Len(d) \/ i = Len(d) + 1
      BY <2>2
    <3> QED
      BY <2>1, <2>2, <3>1, <3>2 DEF Range
  <2>4. ASSUME NEW z \in Range(d) \cup {x} PROVE z \in Range(e)
    <3>1. CASE z = x
      <4>1. Len(d) + 1 \in 1..Len(e) /\ 1..Len(e) = DOMAIN e
        BY <2>2
      <4> QED
        BY <2>2, <3>1, <4>1 DEF Range
    <3>2. CASE z \in Range(d)
      <4>1. PICK i \in 1..Len(d) : d[i] = z
        BY <2>1, <3>2 DEF Range
      <4>2. i \in 1..Len(e) /\ 1..Len(e) = DOMAIN e
        BY <2>2
      <4> QED
        BY <2>2, <4>1, <4>2 DEF Range
    <3> QED
      BY <2>4, <3>1, <3>2
  <2> QED
    BY <2>2, <2>3, <2>4 DEF e, d
<1>4. c \in Scope /\ c.at = b.at /\ c.on = b.on /\ c.names = Append(b.names, x)
  BY <1>2, <1>3 DEF Scope
<1>5. bl2 = [bl EXCEPT ![L] = c]
  BY <1>1 DEF WithName
<1> HIDE DEF c, bl2
<1>6. bl2 \in Seq(Scope) /\ Len(bl2) = L /\ bl2[L] = c /\ (\A k \in 1..L : k # L => bl2[k] = bl[k])
  BY <1>1, <1>4, <1>5
<1>7. bl2 # <<>>
  BY <1>1, <1>6
<1> QED
  BY <1>1, <1>3, <1>4, <1>6, <1>7 DEF bl2

LEMMA WithNameShown ==
  ASSUME NEW bl \in Seq(Scope), bl # <<>>, NEW x \in Xs
  PROVE  LET bl2 == WithName(bl, x)
         IN  /\ Ats(bl2) = Ats(bl) /\ \A k \in 1..Len(bl) : OnTo(bl2, k) <=> OnTo(bl, k)
             /\ Shown(bl2) = Shown(bl) \cup {x}
             /\ OnTo(bl, Len(bl)) => Live(bl2) = Live(bl) \cup {x}
             /\ ~OnTo(bl, Len(bl)) => Live(bl2) = Live(bl)
             /\ \A k \in 1..Len(bl) : Grown(bl, bl2, k)
<1> DEFINE bl2 == WithName(bl, x)
           L == Len(bl)
<1>1. /\ bl2 \in Seq(Scope) /\ Len(bl2) = L /\ L \in 1..L /\ L \in Nat
      /\ \A k \in 1..L : bl2[k].at = bl[k].at /\ bl2[k].on = bl[k].on
      /\ \A k \in 1..L : k # L => bl2[k] = bl[k]
      /\ Range(bl2[L].names) = Range(bl[L].names) \cup {x}
  <2>1. L \in Nat
    OBVIOUS
  <2> QED
    BY <2>1, WithNameFacts
<1> HIDE DEF bl2
<1>2. Ats(bl2) = Ats(bl)
  BY <1>1 DEF Ats
<1>3. \A k \in 1..L : OnTo(bl2, k) <=> OnTo(bl, k)
  <2> SUFFICES ASSUME NEW k \in 1..L PROVE OnTo(bl2, k) <=> OnTo(bl, k)
    OBVIOUS
  <2>1. \A j \in 1..k : j \in 1..L
    BY <1>1
  <2> QED
    BY <1>1, <2>1 DEF OnTo
<1>4. \A z \in Xs : \A k \in 1..L : InBlock(bl2, z, k) <=> (InBlock(bl, z, k) \/ (k = L /\ z = x))
  BY <1>1 DEF InBlock
<1>5. Shown(bl2) = Shown(bl) \cup {x}
  BY <1>1, <1>4 DEF Shown
<1>6. OnTo(bl, L) => Live(bl2) = Live(bl) \cup {x}
  BY <1>1, <1>3, <1>4 DEF Live
<1>7. ~OnTo(bl, L) => Live(bl2) = Live(bl)
  BY <1>1, <1>3, <1>4 DEF Live
<1>8. \A k \in 1..L : Grown(bl, bl2, k)
  <2> SUFFICES ASSUME NEW k \in 1..L PROVE Grown(bl, bl2, k)
    OBVIOUS
  <2>1. \A j \in 1..k : j \in 1..L
    BY <1>1
  <2> QED
    BY <1>1, <2>1 DEF Grown
<1> QED
  BY <1>2, <1>3, <1>5, <1>6, <1>7, <1>8 DEF bl2

(* What a declaration must see to: the checker learns of the variable what  *)
(* the code generator does, no other variable changes but one that moved    *)
(* away unlent, and a variable that owns nothing is lent what it shows.     *)
KnownAs(w, v) ==
  /\ w.t = v.t /\ (v.to # 0 <=> IsRef(w)) /\ (v.to = 0 => w.from = 0)
  /\ v.view => w.const /\ w.borrowed

(* What the checker learns of the variable s declares.                      *)
Introduces(p, bl, s, m, n) ==
  \A q : Passes(q, p, s) =>
    /\ \E w : Declares(Prior(q, p), After(q, p), w) /\ KnownAs(w, n.vars[s.x])
    /\ \A z \in Live(bl) : n.slot[z] = m.slot[z]
                           \/ (Unlent(q, Len(p) + 1, Prior(q, p), z) /\ Emptied(After(q, p), n, z))

(* The machine changes no other, but what moves away.                       *)
Beside(bl, m, n, x) ==
  \A z \in Xs \ {x} : /\ n.vars[z] = m.vars[z]
                      /\ n.slot[z] = m.slot[z] \/ (z \in Live(bl) /\ IsOwner(m, z))

(* y is lent to it from here on.                                            *)
LentBy(p, bl, s, m, n, y) ==
  /\ IsOwner(m, y) /\ (n.vars[s.x].to # 0 => n.vars[s.x].to = y)
  /\ (n.vars[s.x].view => n.slot[s.x] # 0) /\ StillHolds(n, s.x, y)
  /\ \A q : Passes(q, p, s) => Lends(q, After(q, p), bl[Len(bl)].at, s.x, y)

(* It has a value, of its own or of an owner.                               *)
Founded(p, bl, s, m, n) ==
  OnTo(bl, Len(bl)) => IF IsOwner(n, s.x) THEN n.slot[s.x] # 0
                       ELSE \E y \in Shown(bl) : LentBy(p, bl, s, m, n, y)

(* A declaration that sees to that keeps the invariant.                     *)
LEMMA Introduced ==
  ASSUME NEW p, NEW bl, NEW m, Sound(p, bl, m), NEW s \in Statement, s.op = "let",
         NEW x \in Xs, s.x = x, x = Fresh(p), NEW n,
         Fit(n, Shown(WithName(bl, x)), Live(WithName(bl, x)), 0, 0, Exact(p)),
         Beside(bl, m, n, x), Introduces(p, bl, s, m, n), Founded(p, bl, s, m, n)
  PROVE  Sound(Append(p, s), WithName(bl, x), n)
<1> DEFINE r == Append(p, s)
           bl2 == WithName(bl, x)
           L == Len(bl)
<1>1. p \in Seq(Statement) /\ Nested(p, bl) /\ bl \in Seq(Scope) /\ bl # <<>> /\ Tree(p, Ats(bl)) /\ Apart(p, bl)
      /\ Informed(p, bl, m) /\ Backed(p, bl, m) /\ L \in Nat
  BY DEF Sound, Nested
<1>2. r \in Seq(Statement) /\ Len(r) = Len(p) + 1 /\ Len(p) \in Nat /\ r[Len(r)] = s /\ \A i \in 1..Len(p) : r[i] = p[i]
  BY <1>1, Appended
<1>3. Fresh(r) = x + 1
  <2> HIDE DEF r
  <2> QED
    BY <1>2, FreshNext
<1>4. ~IsMark(s) /\ s.op # "pass"
  BY DEF IsMark, Opens
<1>5. /\ bl2 \in Seq(Scope) /\ bl2 # <<>> /\ Len(bl2) = L /\ L \in 1..L
      /\ \A k \in 1..L : bl2[k].at = bl[k].at /\ bl2[k].on = bl[k].on
      /\ \A k \in 1..L : k # L => bl2[k] = bl[k]
      /\ Range(bl2[L].names) = Range(bl[L].names) \cup {x}
  BY <1>1, WithNameFacts
<1>6. /\ Ats(bl2) = Ats(bl) /\ \A k \in 1..L : OnTo(bl2, k) <=> OnTo(bl, k)
      /\ Shown(bl2) = Shown(bl) \cup {x}
      /\ OnTo(bl, L) => Live(bl2) = Live(bl) \cup {x}
      /\ ~OnTo(bl, L) => Live(bl2) = Live(bl)
      /\ \A k \in 1..L : Grown(bl, bl2, k)
  BY <1>1, WithNameShown
<1>7. \A z \in Shown(bl) : z \in Xs \ {x} /\ z < x /\ z \in 1 .. x - 1
  BY <1>1, ShownFacts DEF Xs
<1>8. Live(bl) \subseteq Shown(bl)
  BY DEF Live, Shown
<1> HIDE DEF bl2
<1>9. Nested(r, bl2)
  <2>1. Tree(r, Ats(bl2))
    BY <1>1, <1>4, <1>6, TreeStep
  <2>2. \A k \in 1..L : \A z \in Range(bl[k].names) : z < x /\ z # x /\ z \in Xs
    <3>1. \A k \in 1..L : Range(bl[k].names) \subseteq Shown(bl)
      BY <1>1, BlockFacts
    <3> QED
      BY <1>7, <3>1
  <2>3. \A k \in 1..L : Range(bl2[k].names) \subseteq Range(bl[k].names) \cup {x}
    BY <1>5
  <2>4. \A k \in 1..L : \A z \in Range(bl2[k].names) : z < Fresh(r)
    <3>1. \A z \in Xs : z < x => z < Fresh(r)
      BY <1>3 DEF Xs
    <3>2. x < Fresh(r)
      BY <1>3 DEF Xs
    <3> QED
      BY <2>2, <2>3, <3>1, <3>2
  <2>5. \A k, l \in 1..L : k # l => Range(bl2[k].names) \cap Range(bl2[l].names) = {}
    BY <1>1, <1>5, <2>2 DEF Apart
  <2>6. Apart(r, bl2)
    BY <1>5, <2>4, <2>5 DEF Apart
  <2> QED
    BY <1>2, <1>5, <2>1, <2>6 DEF Nested
<1>10. \A z \in Xs : z >= Fresh(r) => n.slot[z] = 0
  <2> SUFFICES ASSUME NEW z \in Xs, z >= Fresh(r) PROVE n.slot[z] = 0
    OBVIOUS
  <2>1. z >= x /\ z # x /\ ~(z < x)
    BY <1>3 DEF Xs
  <2>2. m.slot[z] = 0
    BY <2>1 DEF Sound
  <2>3. z \notin Live(bl)
    BY <1>7, <1>8, <2>1
  <2> QED
    BY <2>1, <2>2, <2>3 DEF Beside
<1>11. Informed(r, bl2, n)
  <2> SUFFICES ASSUME NEW q, Extends(q, r), Prior(q, r).ok PROVE Agrees(Prior(q, r), r, bl2, n)
    BY DEF Informed
  <2> DEFINE a == Prior(q, p)
             b == Prior(q, r)
  <2>1. Passes(q, p, s)
    BY DEF Passes
  <2>2. Extends(q, p) /\ a.ok /\ b = After(q, p)
    BY <1>1, <2>1, Passing
  <2>3. Agrees(a, p, bl, m)
    BY <1>1, <2>2 DEF Informed
  <2>4. PICK w : Declares(a, b, w) /\ KnownAs(w, n.vars[x])
    BY <2>1, <2>2 DEF Introduces
  <2>5. \A z \in Live(bl) : n.slot[z] = m.slot[z] \/ Emptied(b, n, z)
    BY <2>1, <2>2 DEF Introduces
  <2> HIDE DEF a, b, r
  <2>6. Knowing(b) /\ b.scopes = Ats(bl2) /\ Len(a.var) = x - 1 /\ Len(b.var) = Len(a.var) + 1
    BY <1>6, <2>3, <2>4 DEF Agrees, Declares
  <2>7. Len(b.var) = Fresh(r) - 1 /\ b.var[x] = w
    <3>1. x \in Nat
      BY DEF Xs
    <3>2. (x - 1) + 1 = x /\ (x + 1) - 1 = x
      BY <3>1
    <3> QED
      BY <1>3, <2>4, <2>6, <3>2 DEF Declares
  <2>8. ASSUME NEW z \in Shown(bl) PROVE Later(a.var[z], b.var[z]) /\ n.vars[z] = m.vars[z]
    <3>1. z \in 1..Len(a.var)
      BY <1>7, <2>6
    <3> QED
      BY <1>7, <2>4, <3>1 DEF Declares, Beside
  <2>9. \A z \in Shown(bl2) : VarAgrees(b, n, z)
    <3>1. \A z \in Shown(bl) : VarAgrees(b, n, z)
      BY <2>3, <2>8, StaysKnown DEF Agrees
    <3>2. VarAgrees(b, n, x)
      BY <2>4, <2>7 DEF KnownAs, VarAgrees
    <3> QED
      BY <1>6, <3>1, <3>2
  <2>10. \A z \in Live(bl2) : Emptied(b, n, z)
    <3>1. \A z \in Live(bl) : Emptied(b, n, z)
      BY <1>8, <2>3, <2>5, <2>8, StaysKnown DEF Agrees
    <3>2. OnTo(bl, L) => Emptied(b, n, x)
      BY DEF Founded, Emptied, OwnsA
    <3> QED
      BY <1>6, <3>1, <3>2
  <2> QED
    BY <2>6, <2>7, <2>9, <2>10 DEF Agrees, b
<1>12. Backed(r, bl2, n)
  <2> SUFFICES ASSUME NEW k \in 1..L, OnTo(bl, k), NEW v \in Range(bl2[k].names), ~IsOwner(n, v)
               PROVE  \E y \in Xs : Backs(r, bl2, n, k, v, y)
    BY <1>5, <1>6 DEF Backed
  <2>0. Recalls(p, s)
    BY DEF Recalls, Introduces, Declares
  <2>1. CASE v \in Range(bl[k].names)
    <3>1. v \in Shown(bl)
      BY <1>1, <2>1, BlockFacts
    <3>2. v \in Xs \ {x} /\ n.vars[v] = m.vars[v]
      BY <1>7, <3>1 DEF Beside
    <3>3. ~IsOwner(m, v) /\ n.slot[v] = m.slot[v]
      BY <3>2 DEF Beside, IsOwner
    <3>4. PICK y \in Xs : Backs(p, bl, m, k, v, y)
      BY <1>1, <2>1, <3>3 DEF Backed
    <3>5. y \in Shown(bl)
      <4>1. PICK l \in 1..k : InBlock(bl, y, l)
        BY <3>4 DEF Backs
      <4>2. l \in 1..L
        BY <1>1
      <4> QED
        BY <4>1, <4>2 DEF Shown
    <3>6. n.vars[y] = m.vars[y]
      BY <1>7, <3>5 DEF Beside
    <3>7. Spares(p, s, m, n, y)
      BY <1>7, <3>5 DEF Spares, Introduces, Beside
    <3> QED
      BY <1>1, <1>6, <2>0, <3>2, <3>3, <3>4, <3>6, <3>7, Carried
  <2>2. CASE v \notin Range(bl[k].names)
    <3>1. k = L /\ v = x
      BY <1>5, <2>2
    <3>2. PICK y \in Shown(bl) : LentBy(p, bl, s, m, n, y)
      BY <3>1 DEF Founded
    <3>3. y \in Xs /\ IsOwner(n, y)
      BY <1>7, <3>2 DEF LentBy, IsOwner, Beside
    <3>4. \E l \in 1..L : InBlock(bl2, y, l)
      BY <1>5, <1>6, <3>2 DEF Shown
    <3>5. \A q : Extends(q, r) /\ Prior(q, r).ok => Secured(q, r, bl2[L].at, n, x, y)
      <4> SUFFICES ASSUME NEW q, Extends(q, r), Prior(q, r).ok PROVE Secured(q, r, bl2[L].at, n, x, y)
        OBVIOUS
      <4>1. Passes(q, p, s)
        BY DEF Passes
      <4>2. Prior(q, r) = After(q, p)
        BY <1>1, <4>1, Passing
      <4> QED
        BY <1>5, <3>2, <4>1, <4>2 DEF LentBy, Secured
    <3> QED
      BY <3>1, <3>2, <3>3, <3>4, <3>5 DEF Backs, LentBy
  <2> QED
    BY <2>1, <2>2
<1>13. Fit(n, Shown(bl2), Live(bl2), 0, 0, Exact(r))
  BY <1>1, <1>4, ExactNext DEF bl2
<1> QED
  BY <1>9, <1>10, <1>11, <1>12, <1>13 DEF Sound, bl2

LEMMA KnownFacts ==
  ASSUME NEW w
  PROVE  /\ \A t, const : OwnerKnown(w, t, const) => KnownAs(w, OwnerVar(t))
         /\ \A const : OwnerKnown(w, "map", const) /\ const /\ w.borrowed => KnownAs(w, ViewVar)
         /\ \A t : \A y \in Xs : RefKnown(w, t) => KnownAs(w, RefVar(t, y))
<1>1. \A t, const : OwnerKnown(w, t, const) => KnownAs(w, OwnerVar(t))
  BY KindFacts DEF OwnerKnown, KnownAs
<1>2. \A const : OwnerKnown(w, "map", const) /\ const /\ w.borrowed => KnownAs(w, ViewVar)
  BY KindFacts DEF OwnerKnown, KnownAs
<1>3. \A t : \A y \in Xs : RefKnown(w, t) => KnownAs(w, RefVar(t, y))
  BY KindFacts DEF RefKnown, KnownAs, Xs
<1> QED
  BY <1>1, <1>2, <1>3

LEMMA NewName ==
  ASSUME NEW p, NEW bl, NEW m, Sound(p, bl, m), NEW x \in Xs, x = Fresh(p)
  PROVE  /\ x \in Xs \ Shown(bl) /\ m.slot[x] = 0
         /\ Fit(m, Shown(bl), Live(bl), 0, 0, Exact(p))
         /\ Shown(WithName(bl, x)) = Shown(bl) \cup {x}
         /\ OnTo(bl, Len(bl)) => Live(WithName(bl, x)) = Live(bl) \cup {x} /\ Live(bl) = Shown(bl)
         /\ ~OnTo(bl, Len(bl)) => Live(WithName(bl, x)) = Live(bl)
         /\ Live(bl) \subseteq Xs \ {x} /\ Shown(bl) \subseteq Xs \ {x} /\ Live(bl) \subseteq Shown(bl)
<1>1. bl \in Seq(Scope) /\ bl # <<>> /\ Nested(p, bl) /\ Len(bl) \in Nat
  BY DEF Sound, Nested
<1>2. \A z \in Shown(bl) : z \in Xs \ {x}
  BY <1>1, ShownFacts DEF Xs
<1>3. Live(bl) \subseteq Shown(bl)
  BY DEF Live, Shown
<1>4. m.slot[x] = 0
  BY DEF Sound, Xs
<1>5. OnTo(bl, Len(bl)) => Live(bl) = Shown(bl)
  <2>1. OnTo(bl, Len(bl)) => \A k \in 1..Len(bl) : OnTo(bl, k)
    <3> SUFFICES ASSUME OnTo(bl, Len(bl)), NEW k \in 1..Len(bl) PROVE OnTo(bl, k)
      OBVIOUS
    <3>1. \A j \in 1..k : j \in 1..Len(bl)
      BY <1>1
    <3> QED
      BY <3>1 DEF OnTo
  <2> QED
    BY <2>1 DEF Live, Shown
<1> QED
  BY <1>1, <1>2, <1>3, <1>4, <1>5, WithNameShown DEF Sound

LEMMA DeclaredBeside ==
  ASSUME NEW p, NEW bl, NEW m, Sound(p, bl, m), NEW x \in Xs, x = Fresh(p),
         NEW n, Elsewhere(m, n, {x})
  PROVE  /\ Beside(bl, m, n, x)
         /\ \A s : (\A q : Passes(q, p, s) =>
                      \E w : Declares(Prior(q, p), After(q, p), w) /\ KnownAs(w, n.vars[x])) /\ s.x = x
                   => Introduces(p, bl, s, m, n)
<1>1. Live(bl) \subseteq Xs \ {x}
  BY NewName
<1> QED
  BY <1>1 DEF Elsewhere, Beside, Introduces

(* A declaration that does not run.                                         *)
Unrun(m, x, c) == [m EXCEPT !.vars[x] = c]

(* One in a branch that does not run is known and has no value.             *)
LEMMA NotRun ==
  ASSUME NEW p, NEW bl, NEW m, Sound(p, bl, m), NEW s \in Statement, s.op = "let",
         NEW x \in Xs, s.x = x, x = Fresh(p), ~OnTo(bl, Len(bl)),
         NEW c \in CodeVar, c.t \in {"str", "map"}, ~c.view,
         \A q : Passes(q, p, s) => \E w : Declares(Prior(q, p), After(q, p), w) /\ KnownAs(w, c)
  PROVE  Sound(Append(p, s), WithName(bl, x), Unrun(m, x, c))
<1> DEFINE n == Unrun(m, x, c)
<1>1. /\ x \in Xs \ Shown(bl) /\ m.slot[x] = 0
      /\ Fit(m, Shown(bl), Live(bl), 0, 0, Exact(p))
      /\ Shown(WithName(bl, x)) = Shown(bl) \cup {x} /\ Live(WithName(bl, x)) = Live(bl)
      /\ Live(bl) \subseteq Xs \ {x} /\ Shown(bl) \subseteq Xs \ {x} /\ Live(bl) \subseteq Shown(bl)
  BY NewName
<1>2. m \in Machines /\ Len(m.heap) \in Nat
  BY <1>1, FitFacts
<1>3. n \in Machines /\ n.heap = m.heap /\ n.slot = m.slot /\ n.vars[x] = c
      /\ \A z \in Xs \ {x} : n.vars[z] = m.vars[z] /\ n.slot[z] = m.slot[z]
  BY <1>2 DEF Machines, Unrun
<1> HIDE DEF n
<1>4. Fit(n, Shown(bl) \cup {x}, Live(bl), 0, 0, Exact(p))
  <2>1. Live(bl) \ {x} = Live(bl) \ {x} /\ Live(bl) \subseteq Shown(bl) \cup {x} /\ x \notin Live(bl)
    BY <1>1
  <2>2. CASE IsOwner(n, x)
    BY <1>1, <1>3, <2>1, <2>2, Put
  <2>3. CASE ~IsOwner(n, x)
    <3>1. n.slot[x] \in 0..Len(m.heap)
      BY <1>1, <1>2, <1>3
    <3> QED
      BY <1>1, <1>3, <2>1, <2>3, <3>1, Bound
  <2> QED
    BY <2>2, <2>3
<1>5. Elsewhere(m, n, {x})
  BY <1>3 DEF Elsewhere
<1>6. Beside(bl, m, n, x) /\ Introduces(p, bl, s, m, n)
  BY <1>3, <1>5, DeclaredBeside
<1>7. Founded(p, bl, s, m, n)
  BY DEF Founded
<1> QED
  BY <1>1, <1>4, <1>6, <1>7, Introduced DEF n

(* Each declaration does: of a new value,                                   *)
LEMMA LetNewStep ==
  ASSUME NEW p, NEW bl, NEW m, Sound(p, bl, m), NEW x \in Xs, x = Fresh(p), NEW const, Flag(const),
         NEW t \in {"str", "map"}, NEW s \in Statement, s = Let(const, x, New(t))
  PROVE  /\ OnTo(bl, Len(bl)) => Sound(Append(p, s), WithName(bl, x), RunLet(m, s))
         /\ ~OnTo(bl, Len(bl)) => Sound(Append(p, s), WithName(bl, x), Unrun(m, x, OwnerVar(t)))
<1> DEFINE n == RunLet(m, s)
<1>1. s.op = "let" /\ s.x = x
  BY KindsDiffer
<1>2. \A q : Passes(q, p, s) => \E w : Declares(Prior(q, p), After(q, p), w) /\ KnownAs(w, OwnerVar(t))
  <2> SUFFICES ASSUME NEW q, Passes(q, p, s)
               PROVE  \E w : Declares(Prior(q, p), After(q, p), w) /\ KnownAs(w, OwnerVar(t))
    OBVIOUS
  <2>1. \E w : OwnerKnown(w, t, const) /\ Declares(Prior(q, p), After(q, p), w)
    BY Seen, JudgeLetNew DEF After
  <2> QED
    BY <2>1, KnownFacts
<1>3. OwnerVar(t) \in CodeVar /\ OwnerVar(t).t = t /\ ~OwnerVar(t).view /\ OwnerVar(t).to = 0
  BY KindFacts
<1>4. ~OnTo(bl, Len(bl)) => Sound(Append(p, s), WithName(bl, x), Unrun(m, x, OwnerVar(t)))
  BY <1>1, <1>2, <1>3, NotRun
<1>5. ASSUME OnTo(bl, Len(bl)) PROVE Sound(Append(p, s), WithName(bl, x), n)
  <2>1. /\ x \in Xs \ Shown(bl) /\ Fit(m, Shown(bl), Live(bl), 0, 0, Exact(p))
        /\ Shown(WithName(bl, x)) = Shown(bl) \cup {x} /\ Live(WithName(bl, x)) = Live(bl) \cup {x}
    BY <1>5, NewName
  <2>2. /\ Fit(n, Shown(bl) \cup {x}, Live(bl) \cup {x}, 0, 0, Exact(p))
        /\ Elsewhere(m, n, {x}) /\ n.vars[x] = OwnerVar(t) /\ n.slot[x] # 0
    <3> HIDE DEF n
    <3>1. LET e == RunLet(m, Let(const, x, New(t)))
          IN  Adds(m, e, Shown(bl), Live(bl), x, OwnerVar(t), Exact(p)) /\ Filled(e, x)
      BY <2>1, LetNewFits
    <3> QED
      BY <3>1 DEF n, Adds, Filled
  <2> HIDE DEF n
  <2>3. Beside(bl, m, n, x) /\ Introduces(p, bl, s, m, n)
    BY <1>1, <1>2, <2>2, DeclaredBeside
  <2>4. Founded(p, bl, s, m, n)
    BY <1>1, <1>3, <2>2 DEF Founded, IsOwner
  <2> QED
    BY <1>1, <2>1, <2>2, <2>3, <2>4, Introduced
<1> QED
  BY <1>4, <1>5

(* of a reference,                                                          *)
LEMMA LetRefStep ==
  ASSUME NEW p, NEW bl, NEW m, Sound(p, bl, m), NEW x \in Xs, x = Fresh(p), NEW const, Flag(const),
         NEW y \in Shown(bl), IsOwner(m, y), NEW s \in Statement, s = Let(const, x, Ref(y)),
         Accepted(Append(p, s))
  PROVE  /\ OnTo(bl, Len(bl)) => Sound(Append(p, s), WithName(bl, x), RunLet(m, s))
         /\ ~OnTo(bl, Len(bl))
              => Sound(Append(p, s), WithName(bl, x), Unrun(m, x, RefVar(m.vars[y].t, y)))
<1> DEFINE n == RunLet(m, s)
           t == m.vars[y].t
           c == RefVar(t, y)
<1>0. /\ x \in Xs \ Shown(bl) /\ Fit(m, Shown(bl), Live(bl), 0, 0, Exact(p)) /\ y \in Xs \ {x}
      /\ p \in Seq(Statement)
  BY NewName DEF Sound, Nested
<1>1. s.op = "let" /\ s.x = x
  BY KindsDiffer
<1>2. \A q : Passes(q, p, s) =>
        /\ \E w : Declares(Prior(q, p), After(q, p), w) /\ KnownAs(w, c)
        /\ ~Prior(q, p).var[y].moved /\ Lends(q, After(q, p), bl[Len(bl)].at, x, y)
  <2> SUFFICES ASSUME NEW q, Passes(q, p, s)
               PROVE  /\ \E w : Declares(Prior(q, p), After(q, p), w) /\ KnownAs(w, c)
                      /\ ~Prior(q, p).var[y].moved /\ Lends(q, After(q, p), bl[Len(bl)].at, x, y)
    OBVIOUS
  <2>1. /\ Knowing(Prior(q, p)) /\ After(q, p).ok /\ q[Len(p) + 1] = s
        /\ Prior(q, p).scopes # <<>> /\ Last(Prior(q, p).scopes) = bl[Len(bl)].at
        /\ y \in 1..Len(Prior(q, p).var) /\ Prior(q, p).var[y].t = t
    BY Seen DEF VarAgrees
  <2>2. /\ \E w : RefKnown(w, t) /\ Declares(Prior(q, p), After(q, p), w)
        /\ ~Prior(q, p).var[y].moved /\ Lends(q, After(q, p), bl[Len(bl)].at, x, y)
    BY <2>1, JudgeLetRef DEF After
  <2> QED
    BY <1>0, <2>2, KnownFacts
<1>3. t \in {"str", "map"}
  BY <1>0, FitFacts DEF VarFits
<1>4. c \in CodeVar /\ c.t = t /\ ~c.view /\ c.to = y /\ y # 0
  BY <1>0, <1>3, KindFacts DEF Xs
<1>5. ~OnTo(bl, Len(bl)) => Sound(Append(p, s), WithName(bl, x), Unrun(m, x, c))
  <2> HIDE DEF c
  <2> QED
    BY <1>1, <1>2, <1>3, <1>4, NotRun
<1>6. ASSUME OnTo(bl, Len(bl)) PROVE Sound(Append(p, s), WithName(bl, x), n)
  <2>1. /\ Shown(WithName(bl, x)) = Shown(bl) \cup {x} /\ Live(WithName(bl, x)) = Live(bl) \cup {x}
        /\ Live(bl) = Shown(bl)
    BY <1>6, NewName
  <2>2. /\ Fit(n, Shown(bl) \cup {x}, Live(bl) \cup {x}, 0, 0, Exact(p))
        /\ Elsewhere(m, n, {x}) /\ n.vars[x] = c
    <3> HIDE DEF n
    <3>1. LET e == RunLet(m, Let(const, x, Ref(y)))
          IN  Adds(m, e, Shown(bl), Live(bl), x, c, Exact(p))
      BY <1>0, LetRefFits
    <3> QED
      BY <3>1 DEF n, Adds
  <2> HIDE DEF n, c
  <2>3. Beside(bl, m, n, x) /\ Introduces(p, bl, s, m, n)
    BY <1>1, <1>2, <2>2, DeclaredBeside
  <2>4. m.slot[y] # 0
    <3>1. Passes(Append(p, s), p, s)
      BY <1>0, AcceptedPasses
    <3> QED
      BY <1>2, <2>1, <3>1, Readable DEF Safe
  <2>5. n.slot[y] # 0
    BY <1>0, <2>2, <2>4 DEF Elsewhere
  <2>6. LentBy(p, bl, s, m, n, y)
    BY <1>1, <1>2, <1>4, <2>2, <2>5 DEF LentBy, StillHolds
  <2>7. Founded(p, bl, s, m, n)
    BY <1>1, <1>4, <2>2, <2>6 DEF Founded, IsOwner
  <2> QED
    BY <1>1, <2>1, <2>2, <2>3, <2>7, Introduced
<1> QED
  BY <1>5, <1>6

(* A declaration that takes the map of y, in every program that goes on.    *)
Gives(p, s, y) ==
  \A q : Passes(q, p, s) =>
    /\ \E w : Declares(Prior(q, p), After(q, p), w) /\ KnownAs(w, OwnerVar("map"))
    /\ ~Prior(q, p).var[y].moved /\ Taking(q, Len(p) + 1, Prior(q, p), y, After(q, p))

LEMMA Given ==
  ASSUME NEW p, NEW bl, NEW m, Sound(p, bl, m), NEW s \in Statement,
         NEW y \in Shown(bl), m.vars[y].to = 0, m.vars[y].t = "map", Gives(p, s, y)
  PROVE  /\ Accepted(Append(p, s)) => OwnsA(m, y, "map") /\ IsOwner(m, y)
         /\ Accepted(Append(p, s)) /\ y \in Live(bl) => m.slot[y] # 0
         /\ \A q : Passes(q, p, s) =>
              Unlent(q, Len(p) + 1, Prior(q, p), y) /\ After(q, p).var[y].moved
<1>1. ASSUME NEW q, Passes(q, p, s)
      PROVE  OwnsA(m, y, "map") /\ Unlent(q, Len(p) + 1, Prior(q, p), y) /\ After(q, p).var[y].moved
             /\ ~Prior(q, p).var[y].moved
  <2>1. Taking(q, Len(p) + 1, Prior(q, p), y, After(q, p)) /\ ~Prior(q, p).var[y].moved
    BY <1>1 DEF Gives
  <2>2. VarAgrees(Prior(q, p), m, y)
    BY <1>1, Seen
  <2> QED
    BY <2>1, <2>2, Leaves
<1>2. Accepted(Append(p, s)) => Passes(Append(p, s), p, s)
  <2>1. p \in Seq(Statement)
    BY DEF Sound, Nested
  <2> QED
    BY <2>1, AcceptedPasses
<1>3. Accepted(Append(p, s)) => OwnsA(m, y, "map") /\ IsOwner(m, y)
  BY <1>1, <1>2 DEF OwnsA
<1>4. Accepted(Append(p, s)) /\ y \in Live(bl) => m.slot[y] # 0
  BY <1>1, <1>2, <1>3, Readable DEF Safe
<1> QED
  BY <1>1, <1>3, <1>4

LEMMA MovedInto ==
  ASSUME NEW p, NEW bl, NEW m, Sound(p, bl, m), NEW s \in Statement, s.op = "let",
         NEW x \in Xs, s.x = x, x = Fresh(p), OnTo(bl, Len(bl)), Accepted(Append(p, s)),
         NEW y \in Shown(bl), m.vars[y].to = 0, m.vars[y].t = "map", Gives(p, s, y),
         NEW n, MovesTo(m, n, Shown(bl), Live(bl), x, y, Exact(p))
  PROVE  Sound(Append(p, s), WithName(bl, x), n)
<1>1. /\ Shown(WithName(bl, x)) = Shown(bl) \cup {x} /\ Live(WithName(bl, x)) = Live(bl) \cup {x}
      /\ Live(bl) = Shown(bl) /\ Live(bl) \subseteq Xs \ {x}
  BY NewName
<1>2. /\ IsOwner(m, y) /\ m.slot[y] # 0
      /\ \A q : Passes(q, p, s) => Unlent(q, Len(p) + 1, Prior(q, p), y) /\ After(q, p).var[y].moved
  BY <1>1, Given
<1>3. /\ Fit(n, Shown(bl) \cup {x}, Live(bl) \cup {x}, 0, 0, Exact(p))
      /\ Elsewhere(m, n, {x, y}) /\ n.vars[y] = m.vars[y] /\ n.vars[x] = OwnerVar("map")
      /\ n.slot[x] = m.slot[y]
  BY DEF MovesTo, Moves
<1>4. Beside(bl, m, n, x)
  BY <1>1, <1>2, <1>3 DEF Beside, Elsewhere
<1>5. Introduces(p, bl, s, m, n)
  <2> SUFFICES ASSUME NEW q, Passes(q, p, s), NEW z \in Live(bl)
               PROVE  \/ n.slot[z] = m.slot[z]
                      \/ Unlent(q, Len(p) + 1, Prior(q, p), z) /\ Emptied(After(q, p), n, z)
    BY <1>3 DEF Introduces, Gives
  <2>1. CASE z = y
    BY <1>2, <2>1 DEF Emptied
  <2>2. CASE z # y
    BY <1>1, <1>3, <2>2 DEF Elsewhere
  <2> QED
    BY <2>1, <2>2
<1>6. Founded(p, bl, s, m, n)
  BY <1>2, <1>3, KindFacts DEF Founded, IsOwner
<1> QED
  BY <1>1, <1>3, <1>4, <1>5, <1>6, Introduced

(* of what `move` takes,                                                    *)
LEMMA LetMoveStep ==
  ASSUME NEW p, NEW bl, NEW m, Sound(p, bl, m), NEW x \in Xs, x = Fresh(p), NEW const, Flag(const),
         NEW y \in Shown(bl), m.vars[y].to = 0, m.vars[y].t = "map",
         NEW s \in Statement, s = Let(const, x, Move(y)), Accepted(Append(p, s))
  PROVE  /\ OnTo(bl, Len(bl)) => Sound(Append(p, s), WithName(bl, x), RunLet(m, s))
         /\ ~OnTo(bl, Len(bl)) => Sound(Append(p, s), WithName(bl, x), Unrun(m, x, OwnerVar("map")))
<1> DEFINE n == RunLet(m, s)
<1>1. s.op = "let" /\ s.x = x
  BY KindsDiffer
<1>2. Gives(p, s, y)
  <2> SUFFICES ASSUME NEW q, Passes(q, p, s)
               PROVE  /\ \E w : Declares(Prior(q, p), After(q, p), w) /\ KnownAs(w, OwnerVar("map"))
                      /\ ~Prior(q, p).var[y].moved /\ Taking(q, Len(p) + 1, Prior(q, p), y, After(q, p))
    BY DEF Gives
  <2>1. /\ Knowing(Prior(q, p)) /\ After(q, p).ok /\ q[Len(p) + 1] = s /\ Prior(q, p).scopes # <<>>
        /\ y \in 1..Len(Prior(q, p).var) /\ Prior(q, p).var[y].t = "map"
    BY Seen DEF VarAgrees
  <2>2. /\ \E w : OwnerKnown(w, "map", const) /\ Declares(Prior(q, p), After(q, p), w)
        /\ ~Prior(q, p).var[y].moved /\ Taking(q, Len(p) + 1, Prior(q, p), y, After(q, p))
    BY <2>1, JudgeLetMove DEF After
  <2> QED
    BY <2>2, KnownFacts
<1>3. OwnerVar("map") \in CodeVar /\ OwnerVar("map").t \in {"str", "map"} /\ ~OwnerVar("map").view
  BY KindFacts
<1>4. ~OnTo(bl, Len(bl)) => Sound(Append(p, s), WithName(bl, x), Unrun(m, x, OwnerVar("map")))
  BY <1>1, <1>2, <1>3, NotRun DEF Gives
<1>5. ASSUME OnTo(bl, Len(bl)) PROVE Sound(Append(p, s), WithName(bl, x), n)
  <2>1. /\ x \in Xs \ Shown(bl) /\ Fit(m, Shown(bl), Live(bl), 0, 0, Exact(p))
        /\ y \in Live(bl) /\ OwnsA(m, y, "map")
    BY <1>2, <1>5, NewName, Given
  <2> HIDE DEF n
  <2>2. MovesTo(m, n, Shown(bl), Live(bl), x, y, Exact(p))
    <3>1. LET e == RunLet(m, Let(const, x, Move(y)))
          IN  MovesTo(m, e, Shown(bl), Live(bl), x, y, Exact(p))
      BY <2>1, LetMoveFits
    <3> QED
      BY <3>1 DEF n
  <2> QED
    BY <1>1, <1>2, <1>5, <2>2, MovedInto
<1> QED
  BY <1>4, <1>5

(* and of a copy, a view or a move of a variable.                           *)
LEMMA LetVarStep ==
  ASSUME NEW p, NEW bl, NEW m, Sound(p, bl, m), NEW x \in Xs, x = Fresh(p), NEW const, Flag(const),
         NEW y \in Shown(bl), m.vars[y].to = 0, const => IsOwner(m, y),
         NEW s \in Statement, s = Let(const, x, Var(y)), Accepted(Append(p, s))
  PROVE  /\ OnTo(bl, Len(bl)) => Sound(Append(p, s), WithName(bl, x), RunLet(m, s))
         /\ ~OnTo(bl, Len(bl))
              => Sound(Append(p, s), WithName(bl, x), Unrun(m, x, OwnerVar(m.vars[y].t)))
<1> DEFINE n == RunLet(m, s)
           t == m.vars[y].t
<1>0. /\ x \in Xs \ Shown(bl) /\ Fit(m, Shown(bl), Live(bl), 0, 0, Exact(p)) /\ y \in Xs \ {x}
      /\ p \in Seq(Statement) /\ VarFits(m, Live(bl), y)
  <2>1. x \in Xs \ Shown(bl) /\ Fit(m, Shown(bl), Live(bl), 0, 0, Exact(p)) /\ y \in Xs \ {x}
    BY NewName
  <2> QED
    BY <2>1, FitFacts DEF Sound, Nested
<1>1. s.op = "let" /\ s.x = x
  BY KindsDiffer
<1>2. ASSUME NEW q, Passes(q, p, s)
      PROVE  /\ \E w : /\ OwnerKnown(w, t, const) /\ Declares(Prior(q, p), After(q, p), w)
                       /\ const /\ t = "map" => w.borrowed
             /\ ~Prior(q, p).var[y].moved
             /\ const /\ t = "map" => Lends(q, After(q, p), bl[Len(bl)].at, x, y)
             /\ ~const => Taking(q, Len(p) + 1, Prior(q, p), y, After(q, p))
  <2> DEFINE a == Prior(q, p)
  <2>1. /\ Knowing(a) /\ After(q, p).ok /\ q[Len(p) + 1] = s /\ a.scopes # <<>>
        /\ Last(a.scopes) = bl[Len(bl)].at
        /\ y \in 1..Len(a.var) /\ a.var[y].t = t /\ ~IsRef(a.var[y]) /\ a.var[y].from = 0
    BY <1>2, Seen DEF VarAgrees
  <2>2. t = "map" => MoveOnly(a.var[y])
    BY <2>1 DEF MoveOnly
  <2> HIDE DEF a
  <2>3. /\ \E w : /\ OwnerKnown(w, t, const) /\ Declares(a, AnalyzeStmt(q, Len(p) + 1, a), w)
                  /\ const /\ MoveOnly(a.var[y]) => w.borrowed
        /\ AnalyzeStmt(q, Len(p) + 1, a).ok =>
             /\ ~a.var[y].moved
             /\ const /\ MoveOnly(a.var[y]) => Lends(q, AnalyzeStmt(q, Len(p) + 1, a), bl[Len(bl)].at, x, y)
             /\ ~const => Taking(q, Len(p) + 1, a, y, AnalyzeStmt(q, Len(p) + 1, a))
    BY <2>1, JudgeLetVar
  <2> QED
    BY <2>1, <2>2, <2>3 DEF After, a
<1>3. \A q : Passes(q, p, s) => \E w : Declares(Prior(q, p), After(q, p), w) /\ KnownAs(w, OwnerVar(t))
  BY <1>2, KnownFacts
<1>4. t \in {"str", "map"}
  BY <1>0 DEF VarFits
<1>5. OwnerVar(t) \in CodeVar /\ OwnerVar(t).t = t /\ ~OwnerVar(t).view /\ OwnerVar(t).to = 0
  BY <1>4, KindFacts
<1>6. ~OnTo(bl, Len(bl)) => Sound(Append(p, s), WithName(bl, x), Unrun(m, x, OwnerVar(t)))
  BY <1>1, <1>3, <1>4, <1>5, NotRun
<1>7. Passes(Append(p, s), p, s)
  BY <1>0, AcceptedPasses
<1>8. ASSUME OnTo(bl, Len(bl)) PROVE Sound(Append(p, s), WithName(bl, x), n)
  <2>0. /\ Shown(WithName(bl, x)) = Shown(bl) \cup {x} /\ Live(WithName(bl, x)) = Live(bl) \cup {x}
        /\ Live(bl) = Shown(bl)
    BY <1>8, NewName
  <2>1. CASE t = "str"
    <3>1. OwnsA(m, y, "str") /\ y \in Live(bl)
      BY <1>0, <2>0, <2>1 DEF OwnsA, IsOwner, VarFits
    <3> HIDE DEF n
    <3>2. Adds(m, n, Shown(bl), Live(bl), x, OwnerVar("str"), Exact(p)) /\ Filled(n, x)
      <4>1. LET e == RunLet(m, Let(const, x, Var(y)))
            IN  Adds(m, e, Shown(bl), Live(bl), x, OwnerVar("str"), Exact(p)) /\ Filled(e, x)
        BY <1>0, <3>1, LetStrFits
      <4> QED
        BY <4>1 DEF n
    <3>3. /\ Fit(n, Shown(bl) \cup {x}, Live(bl) \cup {x}, 0, 0, Exact(p))
          /\ Elsewhere(m, n, {x}) /\ n.vars[x] = OwnerVar(t) /\ n.slot[x] # 0
      BY <2>1, <3>2 DEF Adds, Filled
    <3>4. Beside(bl, m, n, x) /\ Introduces(p, bl, s, m, n)
      BY <1>1, <1>3, <3>3, DeclaredBeside
    <3>5. Founded(p, bl, s, m, n)
      BY <1>1, <1>5, <3>3 DEF Founded, IsOwner
    <3> QED
      BY <1>1, <2>0, <3>3, <3>4, <3>5, Introduced
  <2>2. CASE t = "map" /\ ~const
    <3>1. Gives(p, s, y)
      BY <1>2, <1>3, <2>2 DEF Gives
    <3>2. OwnsA(m, y, "map") /\ y \in Live(bl)
      BY <2>0, <2>2, <3>1, Given
    <3>3. const = FALSE
      BY <2>2 DEF Flag
    <3> HIDE DEF n
    <3>4. MovesTo(m, n, Shown(bl), Live(bl), x, y, Exact(p))
      <4>1. LET e == RunLet(m, Let(FALSE, x, Var(y)))
            IN  MovesTo(m, e, Shown(bl), Live(bl), x, y, Exact(p))
        BY <1>0, <3>2, LetMapFits
      <4> QED
        BY <3>3, <4>1 DEF n
    <3> QED
      BY <1>1, <1>8, <2>2, <3>1, <3>4, MovedInto
  <2>3. CASE t = "map" /\ const
    <3>1. OwnsA(m, y, "map") /\ y \in Live(bl) /\ IsOwner(m, y)
      BY <2>0, <2>3 DEF OwnsA
    <3>2. const = TRUE
      BY <2>3 DEF Flag
    <3> HIDE DEF n
    <3>3. Adds(m, n, Shown(bl), Live(bl), x, ViewVar, Exact(p)) /\ Shares(m, n, x, y)
      <4>1. LET e == RunLet(m, Let(TRUE, x, Var(y)))
            IN  Adds(m, e, Shown(bl), Live(bl), x, ViewVar, Exact(p)) /\ Shares(m, e, x, y)
        BY <1>0, <3>1, LetViewFits
      <4> QED
        BY <3>2, <4>1 DEF n
    <3>4. /\ Fit(n, Shown(bl) \cup {x}, Live(bl) \cup {x}, 0, 0, Exact(p))
          /\ Elsewhere(m, n, {x}) /\ n.vars[x] = ViewVar /\ n.slot[x] = m.slot[y]
      BY <3>3 DEF Adds, Shares
    <3>5. ViewVar.to = 0 /\ ViewVar.view
      BY KindFacts
    <3>6. \A q : Passes(q, p, s) => \E w : Declares(Prior(q, p), After(q, p), w) /\ KnownAs(w, ViewVar)
      BY <1>2, <2>3, KnownFacts
    <3>7. Beside(bl, m, n, x) /\ Introduces(p, bl, s, m, n)
      BY <1>1, <3>4, <3>6, DeclaredBeside
    <3>8. m.slot[y] # 0
      BY <1>2, <1>7, <3>1, Readable DEF Safe
    <3>9. n.slot[y] = m.slot[y]
      BY <1>0, <3>4 DEF Elsewhere
    <3>10. LentBy(p, bl, s, m, n, y)
      BY <1>1, <1>2, <2>3, <3>1, <3>4, <3>5, <3>8, <3>9 DEF LentBy, StillHolds
    <3>11. Founded(p, bl, s, m, n)
      BY <1>1, <3>4, <3>5, <3>10 DEF Founded, IsOwner
    <3> QED
      BY <1>1, <2>0, <3>4, <3>7, <3>11, Introduced
  <2> QED
    BY <1>4, <2>1, <2>2, <2>3
<1> QED
  BY <1>6, <1>8

(* The marks: of the open blocks the first c stay, the others are fresh.    *)
Cut(bl, bl2, c) ==
  /\ bl2 \in Seq(Scope) /\ bl2 # <<>> /\ c \in 0..Len(bl) /\ c <= Len(bl2)
  /\ \A k \in 1..c : bl2[k] = bl[k]
  /\ \A k \in 1..Len(bl2) : k > c => bl2[k].names = <<>>

(* Blocks that are closed.                                                  *)
LEMMA CutFacts ==
  ASSUME NEW p, NEW bl, Nested(p, bl), NEW bl2, NEW c, Cut(bl, bl2, c)
  PROVE  /\ \A k \in 1..c : k \in 1..Len(bl) /\ k \in 1..Len(bl2) /\ (OnTo(bl, k) <=> OnTo(bl2, k))
         /\ \A k \in 1..Len(bl2) : k \in 1..c \/ Range(bl2[k].names) = {}
         /\ \A z \in Xs : z \in Shown(bl2) <=> \E k \in 1..c : InBlock(bl, z, k)
         /\ Shown(bl2) \subseteq Shown(bl) /\ Live(bl2) \subseteq Shown(bl2)
         /\ \A z \in Shown(bl2) : z \in Live(bl2) <=> z \in Live(bl)
         /\ c = Len(bl) - 1 =>
              /\ \A z \in Shown(bl2) : z \notin Range(bl[Len(bl)].names)
              /\ \A z \in Shown(bl) \ Shown(bl2) : z \in Range(bl[Len(bl)].names)
<1> DEFINE L == Len(bl)
<1>1. bl \in Seq(Scope) /\ L \in Nat \ {0} /\ Len(bl2) \in Nat /\ c \in Nat /\ c <= L /\ c <= Len(bl2)
  BY DEF Nested, Cut
<1>2. ASSUME NEW k \in 1..c
      PROVE  k \in 1..L /\ k \in 1..Len(bl2) /\ (OnTo(bl, k) <=> OnTo(bl2, k))
  <2>1. \A j \in 1..k : j \in 1..c
    BY <1>1
  <2>2. OnTo(bl, k) <=> OnTo(bl2, k)
    BY <2>1 DEF OnTo, Cut
  <2> QED
    BY <1>1, <2>2
<1>3. ASSUME NEW k \in 1..Len(bl2) PROVE k \in 1..c \/ Range(bl2[k].names) = {}
  <2>1. CASE k > c
    <3>1. bl2[k].names = <<>>
      BY <2>1 DEF Cut
    <3> QED
      BY <3>1 DEF Range
  <2>2. CASE ~(k > c)
    BY <1>1, <2>2
  <2> QED
    BY <2>1, <2>2
<1>4. ASSUME NEW z \in Xs PROVE z \in Shown(bl2) <=> \E k \in 1..c : InBlock(bl, z, k)
  BY <1>2, <1>3 DEF Shown, InBlock, Cut
<1>5. Shown(bl2) \subseteq Xs /\ Shown(bl2) \subseteq Shown(bl) /\ Live(bl2) \subseteq Shown(bl2)
  BY <1>2, <1>4 DEF Shown, Live
<1>6. \A k, l \in 1..L : k # l => Range(bl[k].names) \cap Range(bl[l].names) = {}
  BY DEF Nested, Apart
<1>7. ASSUME NEW z \in Shown(bl2) PROVE z \in Live(bl2) <=> z \in Live(bl)
  <2>1. PICK k \in 1..c : InBlock(bl, z, k)
    BY <1>4, <1>5
  <2>2. k \in 1..L /\ k \in 1..Len(bl2) /\ (OnTo(bl, k) <=> OnTo(bl2, k)) /\ InBlock(bl2, z, k)
    BY <1>2, <2>1 DEF InBlock, Cut
  <2>3. z \in Live(bl) => OnTo(bl, k)
    <3>1. \A l \in 1..L : InBlock(bl, z, l) => l = k
      BY <1>6, <2>1, <2>2 DEF InBlock
    <3> QED
      BY <3>1 DEF Live
  <2>4. OnTo(bl, k) => z \in Live(bl2)
    BY <1>5, <2>2 DEF Live
  <2>5. z \in Live(bl2) => z \in Live(bl)
    <3> SUFFICES ASSUME z \in Live(bl2) PROVE z \in Live(bl)
      OBVIOUS
    <3>1. PICK l \in 1..Len(bl2) : OnTo(bl2, l) /\ InBlock(bl2, z, l)
      BY DEF Live
    <3>2. l \in 1..c
      BY <1>3, <3>1 DEF InBlock
    <3>3. OnTo(bl, l) /\ InBlock(bl, z, l) /\ l \in 1..L
      BY <1>2, <3>1, <3>2 DEF InBlock, Cut
    <3> QED
      BY <1>5, <3>3 DEF Live
  <2> QED
    BY <2>3, <2>4, <2>5
<1>8. ASSUME c = L - 1, NEW z \in Shown(bl2) PROVE z \notin Range(bl[L].names)
  <2>1. PICK k \in 1..c : InBlock(bl, z, k)
    BY <1>4, <1>5
  <2>2. k # L /\ L \in 1..L /\ k \in 1..L
    BY <1>1, <1>8
  <2> QED
    BY <1>6, <2>1, <2>2 DEF InBlock
<1>9. ASSUME c = L - 1, NEW z \in Shown(bl) \ Shown(bl2) PROVE z \in Range(bl[L].names)
  <2>1. PICK k \in 1..L : InBlock(bl, z, k)
    BY DEF Shown
  <2>2. z \in Xs
    BY DEF Shown
  <2>3. k \notin 1..c
    BY <1>4, <2>1, <2>2
  <2>4. k = L
    BY <1>1, <1>9, <2>3
  <2> QED
    BY <2>1, <2>4 DEF InBlock
<1> QED
  BY <1>2, <1>3, <1>4, <1>5, <1>7, <1>8, <1>9

(* What a mark does to the openings.                                        *)
Leads(op, p, bl, bl2) ==
  /\ op \in Opens => Ats(bl2) = Append(Ats(bl), Len(p) + 1)
  /\ op = "else" => Ats(bl2) = Append(Front(Ats(bl)), Len(p) + 1)
  /\ op = "end" => Ats(bl2) = Front(Ats(bl)) /\ Len(bl) > 1

(* The checker learns nothing from a mark but the blocks.                   *)
LEMMA MarkLearns ==
  ASSUME NEW p, NEW bl, NEW m, Sound(p, bl, m), NEW op \in Opens \cup {"else", "end"},
         NEW s \in Statement, s = Mark(op), NEW bl2, Leads(op, p, bl, bl2), NEW q, Passes(q, p, s)
  PROVE  /\ Knowing(After(q, p)) /\ After(q, p).scopes = Ats(bl2)
         /\ After(q, p).var = Prior(q, p).var /\ After(q, p).borrows = Prior(q, p).borrows
<1>1. p \in Seq(Statement) /\ Len(p) \in Nat /\ Informed(p, bl, m)
  BY DEF Sound, Nested
<1>2. Extends(q, p) /\ Prior(q, p).ok /\ q[Len(p) + 1] = s
  BY <1>1, Passing
<1>3. Knowing(Prior(q, p)) /\ Prior(q, p).scopes = Ats(bl) /\ Prior(q, p).scopes # <<>>
  BY <1>1, <1>2, Seen DEF Informed, Agrees
<1> DEFINE a == Prior(q, p)
           b == AnalyzeStmt(q, Len(p) + 1, a)
<1>4. /\ Knowing(b) /\ b.var = a.var /\ b.borrows = a.borrows
      /\ op \in Opens => b.scopes = Append(a.scopes, Len(p) + 1)
      /\ op = "else" => b.scopes = Append(Front(a.scopes), Len(p) + 1)
      /\ op = "end" => b.scopes = Front(a.scopes)
  <2> HIDE DEF a
  <2>1. Len(p) + 1 \in Nat
    BY <1>1
  <2> QED
    BY <1>2, <1>3, <2>1, JudgeMark DEF a
<1> HIDE DEF a, b
<1>5. b.scopes = Ats(bl2)
  BY <1>3, <1>4 DEF Leads, a
<1> QED
  BY <1>4, <1>5 DEF After, a, b

(* A mark that leaves the machine as it was, for variables in scope.        *)
LEMMA Remarked ==
  ASSUME NEW p, NEW bl, NEW m, Sound(p, bl, m), NEW op \in Opens \cup {"else", "end"},
         NEW s \in Statement, s = Mark(op), NEW bl2, Leads(op, p, bl, bl2), NEW c, Cut(bl, bl2, c),
         NEW n, n.vars = m.vars, Fit(n, Shown(bl2), Live(bl2), 0, 0, Exact(p)),
         \A z \in Shown(bl2) : n.slot[z] = m.slot[z],
         \A z \in Xs : z >= Fresh(p) => n.slot[z] = 0
  PROVE  Sound(Append(p, s), bl2, n)
<1> DEFINE r == Append(p, s)
<1>1. p \in Seq(Statement) /\ Nested(p, bl) /\ bl \in Seq(Scope) /\ bl # <<>> /\ Tree(p, Ats(bl)) /\ Apart(p, bl)
      /\ Informed(p, bl, m) /\ Backed(p, bl, m)
  BY DEF Sound, Nested
<1>2. r \in Seq(Statement) /\ Len(r) = Len(p) + 1 /\ Len(p) \in Nat /\ r[Len(r)] = s /\ \A i \in 1..Len(p) : r[i] = p[i]
  BY <1>1, Appended
<1>3. s.op = op /\ s.op # "let" /\ s.op # "pass"
  <2>1. s.op = op
    BY KindsDiffer
  <2> QED
    BY <2>1 DEF Opens
<1>4. Fresh(r) = Fresh(p)
  <2> HIDE DEF r
  <2> QED
    BY <1>2, <1>3, FreshNext
<1>5. /\ \A k \in 1..c : k \in 1..Len(bl) /\ k \in 1..Len(bl2) /\ (OnTo(bl, k) <=> OnTo(bl2, k))
      /\ \A k \in 1..Len(bl2) : k \in 1..c \/ Range(bl2[k].names) = {}
      /\ \A z \in Xs : z \in Shown(bl2) <=> \E k \in 1..c : InBlock(bl, z, k)
      /\ Shown(bl2) \subseteq Shown(bl) /\ Live(bl2) \subseteq Shown(bl2)
      /\ \A z \in Shown(bl2) : z \in Live(bl2) <=> z \in Live(bl)
  <2>1. \A k \in 1..c : k \in 1..Len(bl) /\ k \in 1..Len(bl2) /\ (OnTo(bl, k) <=> OnTo(bl2, k))
    BY <1>1, CutFacts
  <2>2. \A k \in 1..Len(bl2) : k \in 1..c \/ Range(bl2[k].names) = {}
    BY <1>1, CutFacts
  <2>3. \A z \in Xs : z \in Shown(bl2) <=> \E k \in 1..c : InBlock(bl, z, k)
    BY <1>1, CutFacts
  <2>4. /\ Shown(bl2) \subseteq Shown(bl) /\ Live(bl2) \subseteq Shown(bl2)
        /\ \A z \in Shown(bl2) : z \in Live(bl2) <=> z \in Live(bl)
    BY <1>1, CutFacts
  <2> QED
    BY <2>1, <2>2, <2>3, <2>4
<1>6. \A k \in 1..c : bl2[k] = bl[k]
  BY DEF Cut
<1>7. Nested(r, bl2)
  <2>1. Tree(r, Ats(bl2))
    <3>1. op = "end" => Len(Ats(bl)) > 1
      BY <1>1 DEF Leads, Ats
    <3> QED
      BY <1>1, <1>3, <3>1, TreeStep DEF Leads
  <2>2. Apart(r, bl2)
    <3>1. \A k, l \in 1..Len(bl2) : k # l => Range(bl2[k].names) \cap Range(bl2[l].names) = {}
      BY <1>1, <1>5, <1>6 DEF Apart
    <3>2. \A k \in 1..Len(bl2) : \A x \in Range(bl2[k].names) : x < Fresh(r)
      BY <1>1, <1>4, <1>5, <1>6 DEF Apart
    <3> QED
      BY <3>1, <3>2 DEF Apart
  <2> QED
    BY <1>2, <2>1, <2>2 DEF Nested, Cut
<1>8. \A q : Passes(q, p, s) => /\ Knowing(After(q, p)) /\ After(q, p).scopes = Ats(bl2)
                                /\ After(q, p).var = Prior(q, p).var
                                /\ After(q, p).borrows = Prior(q, p).borrows
  BY MarkLearns
<1>9. Informed(r, bl2, n)
  <2> SUFFICES ASSUME NEW q, Extends(q, r), Prior(q, r).ok PROVE Agrees(Prior(q, r), r, bl2, n)
    BY DEF Informed
  <2> DEFINE a == Prior(q, p)
             b == Prior(q, r)
  <2>1. Passes(q, p, s)
    BY DEF Passes
  <2>2. Extends(q, p) /\ a.ok /\ b = After(q, p)
    BY <1>1, <2>1, Passing
  <2>3. Agrees(a, p, bl, m)
    BY <1>1, <2>2 DEF Informed
  <2>4. Knowing(b) /\ b.scopes = Ats(bl2) /\ b.var = a.var
    BY <1>8, <2>1, <2>2
  <2> HIDE DEF a, b, r
  <2>5. Len(b.var) = Fresh(r) - 1
    BY <1>4, <2>3, <2>4 DEF Agrees
  <2>6. \A x \in Shown(bl2) : VarAgrees(b, n, x)
    BY <1>5, <2>3, <2>4 DEF Agrees, VarAgrees
  <2>7. \A x \in Live(bl2) : Emptied(b, n, x)
    <3> SUFFICES ASSUME NEW x \in Live(bl2) PROVE Emptied(b, n, x)
      OBVIOUS
    <3>1. x \in Live(bl) /\ n.slot[x] = m.slot[x]
      BY <1>5
    <3>2. Emptied(a, m, x)
      BY <2>3, <3>1 DEF Agrees
    <3> QED
      BY <2>4, <3>1, <3>2 DEF Emptied, OwnsA, IsOwner
  <2> QED
    BY <2>4, <2>5, <2>6, <2>7 DEF Agrees, b
<1>10. Backed(r, bl2, n)
  <2> SUFFICES ASSUME NEW k \in 1..Len(bl2), OnTo(bl2, k), NEW v \in Range(bl2[k].names), ~IsOwner(n, v)
               PROVE  \E y \in Xs : Backs(r, bl2, n, k, v, y)
    BY DEF Backed
  <2>1. k \in 1..c /\ k \in 1..Len(bl) /\ OnTo(bl, k) /\ v \in Range(bl[k].names) /\ ~IsOwner(m, v)
    BY <1>5, <1>6 DEF IsOwner
  <2>2. PICK y \in Xs : Backs(p, bl, m, k, v, y)
    BY <1>1, <2>1 DEF Backed
  <2>3. c \in Nat /\ \A l \in 1..k : l \in 1..c
    BY <1>1, <2>1 DEF Cut
  <2>4. y \in Shown(bl2)
    BY <1>5, <2>2, <2>3 DEF Backs
  <2>5. v \in Shown(bl2)
    <3>1. v \in Xs
      BY <1>1, <2>1, BlockFacts DEF Shown
    <3> QED
      BY <1>5, <2>1, <3>1 DEF InBlock
  <2>6. Grown(bl, bl2, k)
    BY <1>5, <1>6, <2>1, <2>3 DEF Grown
  <2>7. Recalls(p, s)
    BY <1>8 DEF Recalls
  <2>8. Spares(p, s, m, n, y)
    BY <2>4 DEF Spares
  <2> QED
    BY <1>1, <2>1, <2>2, <2>4, <2>5, <2>6, <2>7, <2>8, Carried
<1>11. Fit(n, Shown(bl2), Live(bl2), 0, 0, Exact(r))
  BY <1>1, <1>3, ExactNext
<1>12. \A z \in Xs : z >= Fresh(r) => n.slot[z] = 0
  BY <1>4
<1> QED
  BY <1>7, <1>9, <1>10, <1>11, <1>12 DEF Sound

(* A block is opened.                                                       *)
Block(op, at, on) == [op |-> op, at |-> at, names |-> <<>>, on |-> on]

LEMMA BlockIs ==
  ASSUME NEW op \in Ops, NEW at \in Nat, NEW on, Flag(on)
  PROVE  Block(op, at, on) \in Scope /\ Block(op, at, on).at = at /\ Block(op, at, on).names = <<>>
<1>1. on \in BOOLEAN
  BY DEF Flag
<1>2. <<>> \in Seq(Xs)
  OBVIOUS
<1> QED
  BY <1>1, <1>2 DEF Block, Scope

(* An opening keeps the invariant,                                          *)
LEMMA OpenStep ==
  ASSUME NEW p, NEW bl, NEW m, Sound(p, bl, m), NEW op \in Opens, NEW s \in Statement, s = Mark(op),
         NEW on, Flag(on)
  PROVE  Sound(Append(p, s), Append(bl, Block(op, Len(p) + 1, on)), m)
<1> DEFINE b   == Block(op, Len(p) + 1, on)
           bl2 == Append(bl, b)
           L   == Len(bl)
<1>1. p \in Seq(Statement) /\ Nested(p, bl) /\ bl \in Seq(Scope) /\ Len(p) \in Nat /\ L \in Nat
      /\ Fit(m, Shown(bl), Live(bl), 0, 0, Exact(p)) /\ \A z \in Xs : z >= Fresh(p) => m.slot[z] = 0
  BY DEF Sound, Nested
<1>2. b \in Scope /\ b.at = Len(p) + 1 /\ b.names = <<>>
  <2>1. op \in Ops
    BY DEF Ops
  <2>2. Len(p) + 1 \in Nat
    BY <1>1
  <2> QED
    BY <2>1, <2>2, BlockIs
<1> HIDE DEF b
<1>3. bl2 \in Seq(Scope) /\ Len(bl2) = L + 1 /\ bl2[L + 1] = b /\ \A k \in 1..L : bl2[k] = bl[k]
  BY <1>1, <1>2, Appended
<1> HIDE DEF bl2
<1>4. Cut(bl, bl2, L)
  <2>1. bl2 # <<>>
    BY <1>1, <1>3
  <2>2. \A k \in 1..Len(bl2) : k > L => k = L + 1
    BY <1>1, <1>3
  <2> QED
    BY <1>1, <1>2, <1>3, <2>1, <2>2 DEF Cut
<1>5. Leads(op, p, bl, bl2)
  <2>1. Ats(bl) \in Seq(Nat) /\ Len(Ats(bl)) = L
    BY <1>1 DEF Ats, Nested, Tree
  <2>2. Ats(bl2) \in Seq(Nat) /\ Len(Ats(bl2)) = L + 1
    <3>1. \A k \in 1 .. L + 1 : bl2[k].at \in Nat
      <4>1. \A k \in 1 .. L + 1 : bl2[k] \in Scope
        BY <1>1, <1>3
      <4> QED
        BY <4>1 DEF Scope
    <3> QED
      BY <1>1, <1>3, <3>1 DEF Ats
  <2>3. \A k \in 1..L : Ats(bl2)[k] = Ats(bl)[k]
    BY <1>1, <1>3 DEF Ats
  <2>4. Ats(bl2)[L + 1] = Len(p) + 1
    BY <1>1, <1>2, <1>3 DEF Ats
  <2>5. Ats(bl2) = Append(Ats(bl), Len(p) + 1)
    <3> DEFINE A == Ats(bl)
               B == Ats(bl2)
               e == Len(p) + 1
    <3>1. A \in Seq(Nat) /\ B \in Seq(Nat) /\ Len(A) = L /\ Len(B) = L + 1 /\ (\A k \in 1..L : B[k] = A[k])
          /\ B[L + 1] = e /\ e \in Nat /\ L \in Nat
      BY <1>1, <2>1, <2>2, <2>3, <2>4
    <3> HIDE DEF A, B, e, L
    <3> QED
      BY <3>1 DEF A, B, e
  <2> QED
    BY <2>5 DEF Leads, Opens
<1>6. Shown(bl2) = Shown(bl) /\ Live(bl2) = Live(bl)
  <2>1. /\ \A z \in Xs : z \in Shown(bl2) <=> \E k \in 1..L : InBlock(bl, z, k)
        /\ Shown(bl2) \subseteq Shown(bl) /\ Live(bl2) \subseteq Shown(bl2)
        /\ \A z \in Shown(bl2) : z \in Live(bl2) <=> z \in Live(bl)
    BY <1>1, <1>4, CutFacts
  <2>2. Shown(bl2) = Shown(bl)
    BY <2>1 DEF Shown
  <2>3. Live(bl) \subseteq Shown(bl)
    BY DEF Live, Shown
  <2> QED
    BY <2>1, <2>2, <2>3
<1> QED
  BY <1>1, <1>4, <1>5, <1>6, Remarked DEF bl2, b

(* The innermost block is left.                                             *)
Exits(bl, m, n) ==
  /\ OnTo(bl, Len(bl)) => n = DropBlock(m, bl[Len(bl)])
  /\ ~OnTo(bl, Len(bl)) => n = m

(* When a block is left its variables are dropped, and borrows of them end. *)
LEMMA Exited ==
  ASSUME NEW p, NEW bl, NEW m, Sound(p, bl, m), NEW bl2, NEW c, c = Len(bl) - 1, Cut(bl, bl2, c),
         NEW n, Exits(bl, m, n)
  PROVE  /\ n.vars = m.vars /\ Fit(n, Shown(bl2), Live(bl2), 0, 0, Exact(p))
         /\ \A z \in Shown(bl2) : n.slot[z] = m.slot[z]
         /\ \A z \in Xs : z >= Fresh(p) => n.slot[z] = 0
<1> DEFINE L == Len(bl)
           S == Range(bl[L].names)
           V == Shown(bl)
           K == Live(bl)
           W == Shown(bl2)
<1>1. Nested(p, bl) /\ L \in Nat \ {0} /\ L \in 1..L /\ Fit(m, V, K, 0, 0, Exact(p))
      /\ \A z \in Xs : z >= Fresh(p) => m.slot[z] = 0
  BY DEF Sound, Nested
<1>2. /\ W \subseteq V /\ Live(bl2) \subseteq W /\ \A z \in W : z \in Live(bl2) <=> z \in K
      /\ \A z \in W : z \notin S
      /\ \A z \in V \ W : z \in S
  <2>1. W \subseteq V /\ Live(bl2) \subseteq W /\ \A z \in W : z \in Live(bl2) <=> z \in K
    BY <1>1, CutFacts
  <2>2. (\A z \in W : z \notin S) /\ (\A z \in V \ W : z \in S)
    BY <1>1, CutFacts
  <2> QED
    BY <2>1, <2>2
<1>3. bl[L].names \in Seq(Xs) /\ S \subseteq V /\ V \subseteq Xs
  BY <1>1, BlockFacts DEF Shown
<1>4. \A z \in V : z \in 1 .. Fresh(p) - 1
  BY <1>1, ShownFacts
<1>5. CASE OnTo(bl, L)
  <2>1. bl[L].names \in Seq(V)
    <3> DEFINE d == bl[L].names
    <3>1. d \in Seq(Xs) /\ Range(d) \subseteq V
      BY <1>3
    <3> HIDE DEF d, V
    <3>2. Len(d) \in Nat /\ DOMAIN d = 1..Len(d) /\ d = [i \in 1..Len(d) |-> d[i]]
      BY <3>1
    <3>3. \A i \in 1..Len(d) : d[i] \in V
      BY <3>1, <3>2 DEF Range
    <3> QED
      BY <3>2, <3>3 DEF d
  <2> HIDE DEF S, V, K, W
  <2>2. n = DropBlock(m, bl[L])
    BY <1>5 DEF Exits
  <2>3. Fit(n, V, K \ S, 0, 0, Exact(p)) /\ Cleared(m, n, S)
    <3>1. LET d == DropBlock(m, bl[L])
          IN  Fit(d, V, K \ Range(bl[L].names), 0, 0, Exact(p)) /\ Cleared(m, d, Range(bl[L].names))
      BY <1>1, <2>1, BlockDropped
    <3> QED
      BY <2>2, <3>1 DEF S
  <2>4. \A z \in V \ W : IsOwner(n, z) /\ n.vars[z].t = "str" => n.slot[z] = 0
    <3>1. \A z \in V : VarFits(n, K \ S, z)
      BY <2>3, FitFacts
    <3> QED
      BY <1>2, <3>1 DEF VarFits
  <2>5. Fit(n, W, Live(bl2), 0, 0, Exact(p))
    <3>1. \A z \in W : z \in Live(bl2) <=> z \in K \ S
      BY <1>2
    <3> QED
      BY <1>2, <2>3, <2>4, <3>1, Forgotten
  <2>6. \A z \in W : n.slot[z] = m.slot[z]
    BY <1>2, <1>3, <2>3 DEF Cleared
  <2>7. ASSUME NEW z \in Xs, z >= Fresh(p) PROVE n.slot[z] = 0
    <3>1. Fresh(p) \in Nat /\ z \in Nat
      <4>1. p \in Seq(Statement) /\ Len(p) \in Nat
        BY <1>1 DEF Nested
      <4> DEFINE q == Append(p, p[1])
      <4>2. Len(q) = Len(p) + 1 /\ \A i \in 1..Len(p) : q[i] = p[i]
        BY <4>1
      <4> HIDE DEF q
      <4> QED
        BY <4>1, <4>2, FreshNext DEF Xs
    <3>2. z \notin S
      BY <1>3, <1>4, <2>7, <3>1
    <3> QED
      BY <1>1, <2>3, <2>7, <3>2 DEF Cleared
  <2> QED
    BY <2>3, <2>5, <2>6, <2>7 DEF Cleared, W
<1>6. CASE ~OnTo(bl, L)
  <2>1. n = m
    BY <1>6 DEF Exits
  <2>2. \A z \in S : z \notin K
    <3>1. \A z \in S : \A k \in 1..L : InBlock(bl, z, k) => k = L
      BY <1>1 DEF Nested, Apart, InBlock
    <3> QED
      BY <1>6, <3>1 DEF Live
  <2> HIDE DEF S, V, K, W
  <2>3. \A z \in V \ W : IsOwner(m, z) /\ m.vars[z].t = "str" => m.slot[z] = 0
    <3>1. \A z \in V : VarFits(m, K, z)
      BY <1>1, FitFacts
    <3> QED
      BY <1>2, <2>2, <3>1 DEF VarFits
  <2>4. Fit(m, W, Live(bl2), 0, 0, Exact(p))
    BY <1>1, <1>2, <2>3, Forgotten
  <2> QED
    BY <1>1, <2>1, <2>4 DEF W
<1> QED
  BY <1>5, <1>6

(* the end of a block does,                                                 *)
LEMMA CloseStep ==
  ASSUME NEW p, NEW bl, NEW m, Sound(p, bl, m), Len(bl) > 1,
         NEW s \in Statement, s = Mark("end"), NEW n, Exits(bl, m, n)
  PROVE  Sound(Append(p, s), Front(bl), n)
<1> DEFINE L == Len(bl)
           bl2 == Front(bl)
<1>1. bl \in Seq(Scope) /\ bl # <<>> /\ L \in Nat /\ Ats(bl) \in Seq(Nat) /\ Ats(bl) # <<>>
  BY DEF Sound, Nested, Tree
<1>2. bl2 \in Seq(Scope) /\ Len(bl2) = L - 1 /\ \A k \in 1 .. L - 1 : bl2[k] = bl[k]
  BY <1>1, FrontFacts
<1> HIDE DEF bl2
<1>3. Cut(bl, bl2, L - 1)
  <2>1. bl2 # <<>>
    BY <1>1, <1>2
  <2>2. L - 1 \in 0..L /\ \A k \in 1..Len(bl2) : ~(k > L - 1)
    BY <1>1, <1>2
  <2> QED
    BY <1>2, <2>1, <2>2 DEF Cut
<1>4. Ats(bl2) = Front(Ats(bl))
  <2> DEFINE A == Ats(bl)
  <2>1. Len(A) = L /\ \A k \in 1..L : A[k] = bl[k].at
    BY <1>1 DEF Ats
  <2>2. Front(A) \in Seq(Nat) /\ Len(Front(A)) = L - 1 /\ \A k \in 1 .. L - 1 : Front(A)[k] = A[k]
    <3> HIDE DEF A
    <3>1. A \in Seq(Nat) /\ A # <<>>
      BY <1>1 DEF A
    <3> QED
      BY <2>1, <3>1, FrontFacts
  <2>3. Ats(bl2) = [k \in 1 .. L - 1 |-> bl[k].at]
    BY <1>2 DEF Ats
  <2>4. Front(A) = [k \in 1 .. L - 1 |-> bl[k].at]
    <3>1. \A k \in 1 .. L - 1 : k \in 1..L /\ Front(A)[k] = bl[k].at
      BY <1>1, <2>1, <2>2
    <3> HIDE DEF A
    <3> DEFINE F == Front(A)
    <3>2. F \in Seq(Nat) /\ Len(F) = L - 1
      BY <2>2
    <3>3. \A k \in 1 .. L - 1 : F[k] = bl[k].at
      BY <3>1
    <3> HIDE DEF F
    <3>4. F = [k \in 1 .. L - 1 |-> F[k]]
      BY <3>2
    <3>5. F = [k \in 1 .. L - 1 |-> bl[k].at]
      BY <3>3, <3>4
    <3> QED
      BY <3>5 DEF F
  <2> QED
    BY <2>3, <2>4
<1>5. Leads("end", p, bl, bl2)
  BY <1>4 DEF Leads, Opens
<1>6. /\ n.vars = m.vars /\ Fit(n, Shown(bl2), Live(bl2), 0, 0, Exact(p))
      /\ \A z \in Shown(bl2) : n.slot[z] = m.slot[z]
      /\ \A z \in Xs : z >= Fresh(p) => n.slot[z] = 0
  BY <1>3, Exited
<1> QED
  BY <1>3, <1>5, <1>6, Remarked DEF bl2

(* and going to the other branch.                                           *)
LEMMA ElseStep ==
  ASSUME NEW p, NEW bl, NEW m, Sound(p, bl, m), NEW on, Flag(on),
         NEW s \in Statement, s = Mark("else"), NEW n, Exits(bl, m, n)
  PROVE  Sound(Append(p, s), Append(Front(bl), Block("else", Len(p) + 1, on)), n)
<1> DEFINE L == Len(bl)
           f == Front(bl)
           e == Len(p) + 1
           b == Block("else", e, on)
           bl2 == Append(f, b)
<1>1. bl \in Seq(Scope) /\ bl # <<>> /\ L \in Nat \ {0} /\ Ats(bl) \in Seq(Nat) /\ Ats(bl) # <<>> /\ e \in Nat
  BY DEF Sound, Nested, Tree
<1>2. f \in Seq(Scope) /\ Len(f) = L - 1 /\ \A k \in 1 .. L - 1 : f[k] = bl[k]
  BY <1>1, FrontFacts
<1>3. b \in Scope /\ b.at = e /\ b.names = <<>>
  BY <1>1, BlockIs DEF Ops
<1> HIDE DEF f, b, e
<1>4. bl2 \in Seq(Scope) /\ Len(bl2) = L /\ bl2[L] = b /\ \A k \in 1 .. L - 1 : bl2[k] = bl[k]
  <2>1. Len(bl2) = (L - 1) + 1 /\ bl2[(L - 1) + 1] = b /\ bl2 \in Seq(Scope) /\ \A k \in 1 .. L - 1 : bl2[k] = f[k]
    BY <1>2, <1>3, Appended
  <2>2. (L - 1) + 1 = L
    BY <1>1
  <2> QED
    BY <1>2, <2>1, <2>2
<1> HIDE DEF bl2
<1>5. Cut(bl, bl2, L - 1)
  <2>1. bl2 # <<>>
    BY <1>1, <1>4
  <2>2. L - 1 \in 0..L /\ \A k \in 1..L : k > L - 1 => k = L
    BY <1>1
  <2> QED
    BY <1>1, <1>3, <1>4, <2>1, <2>2 DEF Cut
<1>6. Ats(bl2) = Append(Front(Ats(bl)), e)
  <2> DEFINE A == Ats(bl)
             F == Front(A)
  <2>1. Len(A) = L /\ \A k \in 1..L : A[k] = bl[k].at
    BY <1>1 DEF Ats
  <2>2. F \in Seq(Nat) /\ Len(F) = L - 1 /\ \A k \in 1 .. L - 1 : F[k] = A[k]
    <3> HIDE DEF A
    <3>1. A \in Seq(Nat) /\ A # <<>>
      BY <1>1 DEF A
    <3> QED
      BY <2>1, <3>1, FrontFacts
  <2> HIDE DEF A, F
  <2>3. Append(F, e) \in Seq(Nat) /\ Len(Append(F, e)) = L /\ Append(F, e)[L] = e
        /\ \A k \in 1 .. L - 1 : Append(F, e)[k] = bl[k].at
    <3>1. Len(Append(F, e)) = (L - 1) + 1 /\ Append(F, e)[(L - 1) + 1] = e /\ Append(F, e) \in Seq(Nat)
          /\ \A k \in 1 .. L - 1 : Append(F, e)[k] = F[k]
      BY <1>1, <2>2, Appended
    <3>2. (L - 1) + 1 = L /\ \A k \in 1 .. L - 1 : k \in 1..L
      BY <1>1
    <3> QED
      BY <2>1, <2>2, <3>1, <3>2
  <2>4. Ats(bl2) = [k \in 1..L |-> bl2[k].at]
    BY <1>4 DEF Ats
  <2>5. Append(F, e) = [k \in 1..L |-> bl2[k].at]
    <3> DEFINE G == Append(F, e)
    <3>1. \A k \in 1..L : k \in 1 .. L - 1 \/ k = L
      BY <1>1
    <3>2. \A k \in 1..L : G[k] = bl2[k].at
      BY <1>3, <1>4, <2>3, <3>1
    <3>3. G \in Seq(Nat) /\ Len(G) = L
      BY <2>3
    <3> HIDE DEF G
    <3>4. G = [k \in 1..L |-> bl2[k].at]
      BY <3>2, <3>3
    <3> QED
      BY <3>4 DEF G
  <2> QED
    BY <2>4, <2>5 DEF F, A
<1>7. Leads("else", p, bl, bl2)
  BY <1>6 DEF Leads, Opens, e
<1>8. /\ n.vars = m.vars /\ Fit(n, Shown(bl2), Live(bl2), 0, 0, Exact(p))
      /\ \A z \in Shown(bl2) : n.slot[z] = m.slot[z]
      /\ \A z \in Xs : z >= Fresh(p) => n.slot[z] = 0
  BY <1>5, Exited
<1> QED
  BY <1>5, <1>7, <1>8, Remarked DEF bl2, f, b, e

(* A return: every scope is dropped, one value is handed out.               *)
LEMMA AllDropped ==
  ASSUME NEW p, NEW m, Sound(p, blocks, m), NEW n, NEW e,
         Fit(n, Shown(blocks), Live(blocks), e, 0, Exact(p)),
         NEW s \in Statement, s.op # "pass"
  PROVE  Fit(DropScopes(n), Shown(blocks), {}, e, 0, Exact(Append(p, s)))
<1>1. p \in Seq(Statement) /\ Nested(p, blocks) /\ Len(blocks) \in Nat
  BY DEF Sound, Nested
<1>2. \A k \in 1..Len(blocks) : blocks[k].names \in Seq(Shown(blocks))
  <2> SUFFICES ASSUME NEW k \in 1..Len(blocks) PROVE blocks[k].names \in Seq(Shown(blocks))
    OBVIOUS
  <2> DEFINE d == blocks[k].names
             V == Shown(blocks)
  <2>1. d \in Seq(Xs) /\ Range(d) \subseteq V
    BY <1>1, BlockFacts
  <2> HIDE DEF d, V
  <2>2. Len(d) \in Nat /\ DOMAIN d = 1..Len(d) /\ d = [i \in 1..Len(d) |-> d[i]]
    BY <2>1
  <2>3. \A i \in 1..Len(d) : d[i] \in V
    BY <2>1, <2>2 DEF Range
  <2>4. d \in Seq(V)
    BY <2>2, <2>3
  <2> QED
    BY <2>4 DEF d, V
<1>3. \A x \in Live(blocks) : \E k \in 1..Len(blocks) : x \in Range(blocks[k].names)
  BY DEF Live, InBlock
<1>4. Fit(DropScopes(n), Shown(blocks), {}, e, 0, Exact(p))
  BY <1>1, <1>2, <1>3, ScopesDropped
<1> QED
  BY <1>1, <1>4, ExactNext

(* A return fits the machine for ever.                                      *)
LEMMA ReturnNewStep ==
  ASSUME NEW p, NEW m, Sound(p, blocks, m), NEW s \in Statement, NEW init, s = Return(init)
  PROVE  Fit(DropScopes(m), Shown(blocks), {}, 0, 0, Exact(Append(p, s)))
<1>1. s.op = "return"
  BY KindsDiffer
<1>2. s.op # "pass"
  BY <1>1
<1>3. Fit(m, Shown(blocks), Live(blocks), 0, 0, Exact(p))
  BY DEF Sound
<1> QED
  BY <1>2, <1>3, AllDropped

LEMMA ReturnVarStep ==
  ASSUME NEW p, NEW m, Sound(p, blocks, m), NEW y \in Live(blocks), m.vars[y].to = 0,
         NEW s \in Statement, s = Return(Var(y)), Accepted(Append(p, s))
  PROVE  /\ m.vars[y].t \in {"str", "map"}
         /\ m.vars[y].t = "str" =>
              Fit(DropScopes(StrRetain(m, m.slot[y])), Shown(blocks), {}, m.slot[y], 0, Exact(Append(p, s)))
         /\ m.vars[y].t = "map" =>
              Fit(DropScopes(Store(m, y, 0)), Shown(blocks), {}, m.slot[y], 0, Exact(Append(p, s)))
<1> DEFINE q == Append(p, s)
           a == Prior(q, p)
           e == m.slot[y]
<1>1. s.op = "return"
  BY KindsDiffer
<1>2. s.op # "pass"
  BY <1>1
<1>3. p \in Seq(Statement) /\ y \in Shown(blocks) /\ Fit(m, Shown(blocks), Live(blocks), 0, 0, Exact(p))
  BY DEF Sound, Nested, Live, Shown
<1>4. VarFits(m, Live(blocks), y)
  BY <1>3, FitFacts
<1>5. Passes(q, p, s)
  BY <1>3, AcceptedPasses
<1>6. Knowing(a) /\ After(q, p).ok /\ q[Len(p) + 1] = s /\ VarAgrees(a, m, y)
  BY <1>3, <1>5, Seen
<1>7. ~(~IsRef(a.var[y]) /\ MoveOnly(a.var[y]) /\ a.var[y].borrowed)
  <2> HIDE DEF q, a
  <2> QED
    BY <1>6, JudgeReturn DEF After, a
<1>8. IsOwner(m, y)
  <2>1. m.vars[y].view => a.var[y].borrowed /\ a.var[y].t = "map" /\ ~IsRef(a.var[y])
    BY <1>4, <1>6 DEF VarAgrees, VarFits
  <2>2. m.vars[y].view => MoveOnly(a.var[y])
    BY <2>1 DEF MoveOnly
  <2> QED
    BY <1>7, <2>1, <2>2 DEF IsOwner
<1>9. /\ m.vars[y].t = "str" => Fit(StrRetain(m, e), Shown(blocks), Live(blocks), e, 0, Exact(p))
      /\ m.vars[y].t = "map" => Fit(Store(m, y, 0), Shown(blocks), Live(blocks), e, 0, Exact(p))
  BY <1>3, <1>8, ReturnFits
<1> HIDE DEF e, q
<1>10. m.vars[y].t = "str" => Fit(DropScopes(StrRetain(m, e)), Shown(blocks), {}, e, 0, Exact(Append(p, s)))
  BY <1>2, <1>9, AllDropped
<1>11. m.vars[y].t = "map" => Fit(DropScopes(Store(m, y, 0)), Shown(blocks), {}, e, 0, Exact(Append(p, s)))
  BY <1>2, <1>9, AllDropped
<1> QED
  BY <1>4, <1>10, <1>11 DEF VarFits, e

(* The programs of plain families.                                          *)
PlainForms == {"ref", "move", "if", "block", "while", "pass", "return"}

(* Programs without lambdas, whose loop bodies run at most once.            *)
PlainFamily ==
  /\ family.forms \subseteq PlainForms /\ family.types \subseteq {"str", "map"}
  /\ family.rounds = 1

(* Before a return the machine is sound for the program and its open blocks; *)
(* after it no variable holds a string any more.                            *)
Steady ==
  PlainFamily =>
    IF returned THEN /\ prog \in Seq(Statement) /\ blocks \in Seq(Scope)
                     /\ Fit(Machine, Shown(blocks), {}, ret, 0, Exact(prog))
    ELSE Sound(prog, blocks, Machine) /\ ret = 0

(* The state of Ownership is a program, its blocks and a machine.           *)
LEMMA MachineFacts ==
  /\ Machine.vars = vars /\ Machine.slot = slot /\ Machine.heap = heap /\ Machine.faults = faults
  /\ \A n \in Machines : Become(n) => Machine' = n
  /\ UNCHANGED <<vars, slot, heap, faults>> => Machine' = Machine
<1>1. Machine.vars = vars /\ Machine.slot = slot /\ Machine.heap = heap /\ Machine.faults = faults
  BY DEF Machine
<1>2. \A n \in Machines : Become(n) => Machine' = n
  <2> SUFFICES ASSUME NEW n \in Machines, Become(n) PROVE Machine' = n
    OBVIOUS
  <2>1. n = [vars |-> n.vars, slot |-> n.slot, heap |-> n.heap, faults |-> n.faults]
    BY DEF Machines
  <2>2. Machine' = [vars |-> n.vars, slot |-> n.slot, heap |-> n.heap, faults |-> n.faults]
    BY DEF Machine, Become
  <2> QED
    BY <2>1, <2>2
<1>3. UNCHANGED <<vars, slot, heap, faults>> => Machine' = Machine
  BY DEF Machine
<1> QED
  BY <1>1, <1>2, <1>3

LEMMA VisibleIs ==
  ASSUME blocks \in Seq(Scope)
  PROVE  Visible = Shown(blocks) /\ \A x \in Shown(blocks) : Open(x)
<1>1. \A x : Open(x) <=> \E k \in 1..Len(blocks) : InBlock(blocks, x, k)
  BY DEF Open, InBlock, Range
<1>2. Visible = Shown(blocks)
  BY <1>1 DEF Visible, Shown, Xs
<1> QED
  BY <1>1, <1>2 DEF Shown

(* What its actions look at.                                                *)
LEMMA StateFacts ==
  ASSUME Sound(prog, blocks, Machine)
  PROVE  /\ blocks \in Seq(Scope) /\ blocks # <<>> /\ prog \in Seq(Statement)
         /\ Visible = Shown(blocks)
         /\ Running <=> OnTo(blocks, Len(blocks))
         /\ Running => Live(blocks) = Shown(blocks)
         /\ FreshName = Fresh(prog) /\ FreshName \in Nat \ {0} /\ Len(prog) \in Nat
         /\ \A y \in Visible : y \in Xs /\ y \in Shown(blocks) /\ vars[y].t \in {"str", "map"}
         /\ \A y \in Values : y \in Visible /\ Machine.vars[y].to = 0
         /\ \A y \in Values \ Views : IsOwner(Machine, y)
<1>1. blocks \in Seq(Scope) /\ blocks # <<>> /\ prog \in Seq(Statement) /\ Len(prog) \in Nat /\ Len(blocks) \in Nat
      /\ Fit(Machine, Shown(blocks), Live(blocks), 0, 0, Exact(prog))
  BY DEF Sound, Nested
<1>2. Visible = Shown(blocks)
  BY <1>1, VisibleIs
<1>3. Running <=> OnTo(blocks, Len(blocks))
  BY <1>1 DEF Running, OnTo
<1>4. OnTo(blocks, Len(blocks)) => Live(blocks) = Shown(blocks)
  <2>1. OnTo(blocks, Len(blocks)) => \A k \in 1..Len(blocks) : OnTo(blocks, k)
    <3> SUFFICES ASSUME OnTo(blocks, Len(blocks)), NEW k \in 1..Len(blocks) PROVE OnTo(blocks, k)
      OBVIOUS
    <3>1. \A j \in 1..k : j \in 1..Len(blocks)
      BY <1>1
    <3> QED
      BY <3>1 DEF OnTo
  <2> QED
    BY <2>1 DEF Live, Shown
<1>5. FreshName = Fresh(prog)
  <2>1. DOMAIN prog = 1..Len(prog)
    BY <1>1
  <2> QED
    BY <2>1 DEF FreshName, Fresh, Lets
<1>6. Fresh(prog) \in Nat \ {0}
  <2> DEFINE q == Append(prog, prog[1])
  <2>1. Len(q) = Len(prog) + 1 /\ \A i \in 1..Len(prog) : q[i] = prog[i]
    BY <1>1
  <2> HIDE DEF q
  <2> QED
    BY <1>1, <2>1, FreshNext
<1>7. \A y \in Visible : y \in Xs /\ y \in Shown(blocks) /\ vars[y].t \in {"str", "map"}
  BY <1>1, <1>2, FitFacts, MachineFacts DEF VarFits
<1>8. \A y \in Values : y \in Visible /\ Machine.vars[y].to = 0
  BY MachineFacts DEF Values, Refs
<1>9. \A y \in Values \ Views : IsOwner(Machine, y)
  BY <1>8, MachineFacts DEF Views, IsOwner
<1> QED
  BY <1>1, <1>2, <1>3, <1>4, <1>5, <1>6, <1>7, <1>8, <1>9

LEMMA StatementIs ==
  /\ \A t \in {"", "str", "map", "const", "let", "move"} : New(t) \in Source1
  /\ \A y \in Nat : Var(y) \in Source1 /\ Ref(y) \in Source1 /\ Move(y) \in Source1
  /\ \A const \in BOOLEAN : \A x \in Nat : \A init \in Source1 : Let(const, x, init) \in Statement
  /\ \A x \in Nat : \A init \in Source1 : Assign(x, init) \in Statement
  /\ \A init \in Source1 : Return(init) \in Statement
  /\ \A op \in Opens \cup {"else", "end"} : Mark(op) \in Statement
  /\ \A x \in Nat : Use(x) \in Statement
  /\ \A mode \in {"const", "let", "move"} : \A x \in Nat : Pass(mode, x) \in Statement
<1>1. \A t \in {"", "str", "map", "const", "let", "move"} : New(t) \in Source1
  BY DEF New, Source1
<1>2. \A y \in Nat : Var(y) \in Source1 /\ Ref(y) \in Source1 /\ Move(y) \in Source1
  BY DEF Var, Ref, Move, Source1
<1>3. \A op \in Ops : \A const \in BOOLEAN : \A x \in Nat : \A init \in Source1 :
        Stmt(op, const, x, init) \in Statement
  BY DEF Stmt, Statement
<1>4. FALSE \in BOOLEAN /\ 0 \in Nat
  OBVIOUS
<1>5. \A op \in Ops : \A x \in Nat : \A init \in Source1 : Stmt(op, FALSE, x, init) \in Statement
  BY <1>3, <1>4
<1>6. \A const \in BOOLEAN : \A x \in Nat : \A init \in Source1 : Let(const, x, init) \in Statement
  BY <1>3 DEF Let, Ops
<1>7. \A x \in Nat : \A init \in Source1 : Assign(x, init) \in Statement
  BY <1>5 DEF Assign, Ops
<1>8. \A init \in Source1 : Return(init) \in Statement
  BY <1>4, <1>5 DEF Return, Ops
<1>9. \A op \in Opens \cup {"else", "end"} : Mark(op) \in Statement
  BY <1>1, <1>4, <1>5 DEF Mark, Ops
<1>10. \A x \in Nat : Use(x) \in Statement
  BY <1>1, <1>5 DEF Use, Ops
<1>11. \A mode \in {"const", "let", "move"} : \A x \in Nat : Pass(mode, x) \in Statement
  BY <1>1, <1>5 DEF Pass, Ops
<1> QED
  BY <1>1, <1>2, <1>6, <1>7, <1>8, <1>9, <1>10, <1>11

(* A step that goes on.                                                     *)
Continues == Sound(prog', blocks', Machine') /\ ~returned' /\ ret' = ret

LEMMA Sounds ==
  ASSUME NEW p, NEW bl, NEW m, Sound(p, bl, m)
  PROVE  m \in Machines
BY DEF Sound, Fit

(* The actions of Ownership, one by one.                                    *)
LEMMA ExecuteStep ==
  ASSUME Sound(prog, blocks, Machine), NEW s, Execute(s),
         Running => Sound(Append(prog, s), blocks, Exec(Machine, s)),
         ~Running => Sound(Append(prog, s), blocks, Machine)
  PROVE  Continues
<1>1. prog' = Append(prog, s) /\ blocks' = blocks /\ ~returned /\ returned' = returned /\ ret' = ret
  BY DEF Execute, Write
<1>2. CASE Running
  <2>1. Become(Exec(Machine, s)) /\ Exec(Machine, s) \in Machines
    BY <1>2, Sounds DEF Execute
  <2>2. Machine' = Exec(Machine, s)
    BY <2>1, MachineFacts
  <2> QED
    BY <1>1, <1>2, <2>2 DEF Continues
<1>3. CASE ~Running
  <2>1. Machine' = Machine
    BY <1>3, MachineFacts DEF Execute
  <2> QED
    BY <1>1, <1>3, <2>1 DEF Continues
<1> QED
  BY <1>2, <1>3

LEMMA ExecIs ==
  ASSUME NEW m
  PROVE  /\ \A x, init : Exec(m, Assign(x, init)) = ExecAssign(m, Assign(x, init))
         /\ \A x : Exec(m, Use(x)) = ExecUse(m, x)
         /\ \A mode, x : Exec(m, Pass(mode, x)) = ExecPass(m, Pass(mode, x))
<1>1. ASSUME NEW s
      PROVE  /\ s.op = "assign" => Exec(m, s) = ExecAssign(m, s)
             /\ s.op = "use" => Exec(m, s) = ExecUse(m, s.x)
             /\ s.op = "pass" => Exec(m, s) = ExecPass(m, s)
  BY DEF Exec
<1>2. \A x, init : Exec(m, Assign(x, init)) = ExecAssign(m, Assign(x, init))
  BY <1>1, KindsDiffer
<1>3. \A x : Exec(m, Use(x)) = ExecUse(m, x)
  BY <1>1, KindsDiffer
<1>4. \A mode, x : Exec(m, Pass(mode, x)) = ExecPass(m, Pass(mode, x))
  BY <1>1, KindsDiffer
<1> QED
  BY <1>2, <1>3, <1>4

LEMMA UseVarStep ==
  ASSUME Sound(prog, blocks, Machine), NEW x, UseVar(x)
  PROVE  Continues
<1> DEFINE s == Use(x)
<1>1. x \in Visible /\ Execute(s) /\ Accepted(Append(prog, s))
  BY DEF UseVar, Execute, Write
<1>2. x \in Nat /\ x \in Shown(blocks)
  BY <1>1, StateFacts DEF Xs
<1>3. s \in Statement
  BY <1>2, StatementIs
<1>4. Running => Sound(Append(prog, s), blocks, Exec(Machine, s))
  <2> SUFFICES ASSUME Running PROVE Sound(Append(prog, s), blocks, Exec(Machine, s))
    OBVIOUS
  <2>1. x \in Live(blocks)
    BY <1>2, StateFacts
  <2>2. Sound(Append(prog, s), blocks, ExecUse(Machine, x))
    BY <1>1, <1>3, <2>1, UseStep
  <2> QED
    BY <2>2, ExecIs
<1>5. Sound(Append(prog, s), blocks, Machine)
  <2>1. ~IsMark(s) /\ s.op # "let" /\ Learns(prog, s)
    BY <1>3, UseLearns DEF Learns
  <2> QED
    BY <1>3, <2>1, Skipped
<1> HIDE DEF s
<1> QED
  BY <1>1, <1>4, <1>5, ExecuteStep

LEMMA AssignToStep ==
  ASSUME PlainFamily, Sound(prog, blocks, Machine), NEW x, NEW init \in Sources(x), AssignTo(x, init)
  PROVE  Continues
<1> DEFINE s == Assign(x, init)
<1>1. x \in Values /\ Execute(s) /\ Accepted(Append(prog, s))
  BY DEF AssignTo, Execute, Write
<1>2. x \in Nat /\ x \in Shown(blocks) /\ Machine.vars[x].to = 0 /\ Machine.vars[x].t \in {"str", "map"}
      /\ Machine.vars[x].t = vars[x].t
  BY <1>1, StateFacts, MachineFacts DEF Xs
<1>3. CASE init = New(Machine.vars[x].t)
  <2>1. s \in Statement
    <3>1. New(Machine.vars[x].t) \in Source1
      BY <1>2, StatementIs
    <3> QED
      BY <1>2, <1>3, <3>1, StatementIs
  <2>2. /\ Sound(Append(prog, s), blocks, Machine)
        /\ x \in Live(blocks) => Sound(Append(prog, s), blocks, ExecAssign(Machine, s))
    BY <1>1, <1>2, <1>3, <2>1, AssignNewStep
  <2>3. Running => Sound(Append(prog, s), blocks, Exec(Machine, s))
    BY <1>2, <2>2, ExecIs, StateFacts
  <2> HIDE DEF s
  <2> QED
    BY <1>1, <2>2, <2>3, ExecuteStep
<1>4. CASE \E y \in Values : vars[y].t = vars[x].t /\ init = Var(y)
  <2>1. PICK y \in Values : vars[y].t = vars[x].t /\ init = Var(y)
    BY <1>4
  <2>2. y \in Nat /\ y \in Shown(blocks) /\ Machine.vars[y].to = 0 /\ Machine.vars[y].t = Machine.vars[x].t
    BY <2>1, StateFacts, MachineFacts DEF Xs
  <2>3. s \in Statement
    BY <1>2, <2>1, <2>2, StatementIs
  <2>4. /\ Sound(Append(prog, s), blocks, Machine)
        /\ x \in Live(blocks) /\ y \in Live(blocks) => Sound(Append(prog, s), blocks, ExecAssign(Machine, s))
    BY <1>1, <1>2, <2>1, <2>2, <2>3, AssignVarStep
  <2>5. Running => Sound(Append(prog, s), blocks, Exec(Machine, s))
    BY <1>2, <2>2, <2>4, ExecIs, StateFacts
  <2> HIDE DEF s
  <2> QED
    BY <1>1, <2>4, <2>5, ExecuteStep
<1>5. "group" \notin family.forms
  BY DEF PlainFamily, PlainForms
<1>6. init = New(Machine.vars[x].t) \/ \E y \in Values : vars[y].t = vars[x].t /\ init = Var(y)
  BY <1>2, <1>5 DEF Sources, OfType, Movable, Has
<1> QED
  BY <1>3, <1>4, <1>6

LEMMA PassVarStep ==
  ASSUME Sound(prog, blocks, Machine), NEW x, NEW mode \in {"const", "let", "move"}, PassVar(mode, x)
  PROVE  Continues
<1> DEFINE s == Pass(mode, x)
<1>1. x \in Values /\ Execute(s) /\ Accepted(Append(prog, s))
  BY DEF PassVar, Execute, Write, Movable
<1>2. x \in Nat /\ x \in Shown(blocks) /\ Machine.vars[x].to = 0
  BY <1>1, StateFacts DEF Xs
<1>3. s \in Statement
  BY <1>2, StatementIs
<1>4. Sound(Append(prog, s), blocks, Machine)
  BY <1>2, <1>3, PassLearns
<1>5. Running => Sound(Append(prog, s), blocks, Exec(Machine, s))
  <2> SUFFICES ASSUME Running PROVE Sound(Append(prog, s), blocks, Exec(Machine, s))
    OBVIOUS
  <2>1. x \in Live(blocks)
    BY <1>2, StateFacts
  <2>2. Sound(Append(prog, s), blocks, ExecPass(Machine, s))
    BY <1>1, <1>2, <1>3, <2>1, PassStep
  <2> QED
    BY <2>2, ExecIs
<1> HIDE DEF s
<1> QED
  BY <1>1, <1>4, <1>5, ExecuteStep

LEMMA CallClosureStep ==
  ASSUME Sound(prog, blocks, Machine), NEW x
  PROVE  ~CallClosure(x)
BY StateFacts DEF CallClosure, OfType

LEMMA DeclareStep ==
  ASSUME Sound(prog, blocks, Machine), NEW s, NEW x, s.x = x, Write(s),
         blocks' = WithName(blocks, x), NEW c,
         Running => Become(RunLet(Machine, s)) /\ Sound(Append(prog, s), WithName(blocks, x), RunLet(Machine, s)),
         ~Running => /\ vars' = [vars EXCEPT ![x] = c] /\ UNCHANGED <<slot, heap, faults>>
                     /\ Sound(Append(prog, s), WithName(blocks, x), Unrun(Machine, x, c)),
         UNCHANGED <<returned, ret>>
  PROVE  Continues
<1>1. prog' = Append(prog, s) /\ ~returned /\ returned' = returned /\ ret' = ret
  BY DEF Write
<1>2. CASE Running
  <2>1. RunLet(Machine, s) \in Machines
    BY <1>2, Sounds
  <2>2. Machine' = RunLet(Machine, s)
    BY <1>2, <2>1, MachineFacts
  <2> QED
    BY <1>1, <1>2, <2>2 DEF Continues
<1>3. CASE ~Running
  <2>1. vars' = [vars EXCEPT ![x] = c] /\ UNCHANGED <<slot, heap, faults>>
    BY <1>3
  <2>2. Machine' = Unrun(Machine, x, c)
    BY <2>1 DEF Machine, Unrun
  <2> QED
    BY <1>1, <1>3, <2>2 DEF Continues
<1> QED
  BY <1>2, <1>3

LEMMA KnownIs ==
  ASSUME NEW const, NEW x
  PROVE  /\ \A t : Known(Let(const, x, New(t))) = OwnerVar(t)
         /\ \A y : vars[y].to = 0 => Known(Let(const, x, Var(y))) = OwnerVar(vars[y].t)
         /\ \A y : Known(Let(const, x, Ref(y))) = RefVar(vars[y].t, y)
         /\ \A y : Known(Let(const, x, Move(y))) = OwnerVar(vars[y].t)
<1>1. ASSUME NEW init PROVE Let(const, x, init).init = init
  BY DEF Let, Stmt
<1>2. \A t : Known(Let(const, x, New(t))) = OwnerVar(t)
  <2> SUFFICES ASSUME NEW t PROVE Known(Let(const, x, New(t))) = OwnerVar(t)
    OBVIOUS
  <2>1. New(t).k = "new" /\ New(t).t = t
    BY DEF New
  <2> QED
    BY <1>1, <2>1 DEF Known, OwnerVar
<1>3. \A y : vars[y].to = 0 => Known(Let(const, x, Var(y))) = OwnerVar(vars[y].t)
  <2> SUFFICES ASSUME NEW y, vars[y].to = 0 PROVE Known(Let(const, x, Var(y))) = OwnerVar(vars[y].t)
    OBVIOUS
  <2>1. Var(y).k = "var" /\ Var(y).y = y
    BY DEF Var
  <2> QED
    BY <1>1, <2>1 DEF Known, OwnerVar
<1>4. \A y : Known(Let(const, x, Ref(y))) = RefVar(vars[y].t, y)
  <2> SUFFICES ASSUME NEW y PROVE Known(Let(const, x, Ref(y))) = RefVar(vars[y].t, y)
    OBVIOUS
  <2>1. Ref(y).k = "ref" /\ Ref(y).y = y
    BY DEF Ref
  <2> QED
    BY <1>1, <2>1 DEF Known, RefVar
<1>5. \A y : Known(Let(const, x, Move(y))) = OwnerVar(vars[y].t)
  <2> SUFFICES ASSUME NEW y PROVE Known(Let(const, x, Move(y))) = OwnerVar(vars[y].t)
    OBVIOUS
  <2>1. Move(y).k = "move" /\ Move(y).y = y
    BY DEF Move
  <2> QED
    BY <1>1, <2>1 DEF Known, OwnerVar
<1> QED
  BY <1>2, <1>3, <1>4, <1>5

(* What a plain family lets a declaration be initialised with.              *)
LEMMA PlainInits ==
  ASSUME PlainFamily, NEW const, NEW init \in Inits(const)
  PROVE  \/ \E t \in {"str", "map"} : init = New(t)
         \/ \E y \in Values : init = Var(y) /\ (const => y \in Values \ Views)
         \/ \E y \in Values \ Views : init = Ref(y)
         \/ \E y \in Values : init = Move(y) /\ vars[y].t # "str"
<1>1. /\ "lambda" \notin family.forms /\ "refcopy" \notin family.forms /\ "group" \notin family.forms
      /\ "strmove" \notin family.forms /\ "constclo" \notin family.forms /\ "capcopy" \notin family.forms
  BY DEF PlainFamily, PlainForms
<1>2. Lambdas = {}
  BY <1>1 DEF Lambdas, Has
<1>3. \A y \in Movable : y \in Values
  BY DEF Movable
<1>4. \A y : y \in Movable \ OfType("str", Values) => y \in Values /\ vars[y].t # "str"
  BY <1>3 DEF OfType
<1>5. init \in {New(t) : t \in family.types}
        \cup {Var(y) : y \in IF const THEN Values \ (OfType("clo", Values) \cup Views) ELSE Movable}
        \cup Has("ref", {Ref(y) : y \in Values \ Views})
        \cup Has("move", {Move(y) : y \in Movable \ OfType("str", Values)})
  BY <1>1, <1>2 DEF Inits, Has
<1>6. CASE init \in {New(t) : t \in family.types}
  BY <1>6 DEF PlainFamily
<1>7. CASE init \in {Var(y) : y \in IF const THEN Values \ (OfType("clo", Values) \cup Views) ELSE Movable}
  BY <1>3, <1>7
<1>8. CASE init \in Has("ref", {Ref(y) : y \in Values \ Views})
  BY <1>8 DEF Has
<1>9. CASE init \in Has("move", {Move(y) : y \in Movable \ OfType("str", Values)})
  <2>1. init \in {Move(y) : y \in Movable \ OfType("str", Values)}
    BY <1>9 DEF Has
  <2> QED
    BY <1>4, <2>1
<1> QED
  BY <1>5, <1>6, <1>7, <1>8, <1>9

LEMMA DeclareVarStep ==
  ASSUME PlainFamily, Sound(prog, blocks, Machine), NEW const \in BOOLEAN, NEW boxed \in BOOLEAN,
         NEW init \in Inits(const), DeclareVar(const, init, boxed)
  PROVE  Continues
<1> DEFINE x == FreshName
           s == Let(const, x, init)
<1>1. boxed = FALSE
  BY DEF DeclareVar, PlainFamily, PlainForms
<1>2. /\ x <= MaxVars /\ Write(s) /\ s.x = x
      /\ blocks' = [blocks EXCEPT ![Len(blocks)].names = Append(@, s.x)]
      /\ Running => Become(ExecLet(Machine, s, FALSE))
      /\ ~Running => vars' = [vars EXCEPT ![s.x] = Known(s)] /\ UNCHANGED <<slot, heap, faults>>
      /\ UNCHANGED <<returned, ret>> /\ Accepted(Append(prog, s))
  BY <1>1 DEF DeclareVar, Let, Stmt, Write
<1>3. x \in Xs /\ x \in Nat /\ x = Fresh(prog)
  BY <1>2, StateFacts, OwnershipAssumption DEF Xs
<1>4. blocks' = WithName(blocks, x) /\ (Running => Become(RunLet(Machine, s)))
      /\ (~Running => vars' = [vars EXCEPT ![x] = Known(s)] /\ UNCHANGED <<slot, heap, faults>>)
  BY <1>2 DEF WithName, RunLet
<1>5. Flag(const) /\ (Running <=> OnTo(blocks, Len(blocks)))
  BY StateFacts DEF Flag
<1> HIDE DEF x
<1>6. SUFFICES ASSUME NEW c, c = Known(s),
                      NEW g, g = OnTo(blocks, Len(blocks)),
                      \/ ~(/\ g => Sound(Append(prog, s), WithName(blocks, x), RunLet(Machine, s))
                           /\ ~g => Sound(Append(prog, s), WithName(blocks, x), Unrun(Machine, x, c)))
               PROVE  FALSE
  <2> HIDE DEF s
  <2> QED
    BY <1>2, <1>4, <1>5, DeclareStep
<1>7. CASE \E t \in {"str", "map"} : init = New(t)
  <2>1. PICK t \in {"str", "map"} : init = New(t)
    BY <1>7
  <2>2. s \in Statement
    BY <1>3, <2>1, StatementIs
  <2>3. c = OwnerVar(t)
    BY <1>6, <2>1, KnownIs
  <2> QED
    BY <1>3, <1>5, <1>6, <2>1, <2>2, <2>3, LetNewStep
<1>8. CASE \E y \in Values : init = Var(y) /\ (const => y \in Values \ Views)
  <2>1. PICK y \in Values : init = Var(y) /\ (const => y \in Values \ Views)
    BY <1>8
  <2>2. y \in Nat /\ y \in Shown(blocks) /\ Machine.vars[y].to = 0 /\ (const => IsOwner(Machine, y))
    BY <2>1, StateFacts DEF Xs
  <2>3. s \in Statement
    BY <1>3, <2>1, <2>2, StatementIs
  <2>4. c = OwnerVar(Machine.vars[y].t)
    BY <1>6, <2>1, <2>2, KnownIs, MachineFacts
  <2> QED
    BY <1>2, <1>3, <1>5, <1>6, <2>1, <2>2, <2>3, <2>4, LetVarStep
<1>9. CASE \E y \in Values \ Views : init = Ref(y)
  <2>1. PICK y \in Values \ Views : init = Ref(y)
    BY <1>9
  <2>2. y \in Nat /\ y \in Shown(blocks) /\ IsOwner(Machine, y)
    BY <2>1, StateFacts DEF Xs
  <2>3. s \in Statement
    BY <1>3, <2>1, <2>2, StatementIs
  <2>4. c = RefVar(Machine.vars[y].t, y)
    <3>1. Known(Let(const, x, Ref(y))) = RefVar(vars[y].t, y)
      BY KnownIs
    <3>2. c = Known(Let(const, x, Ref(y)))
      BY <1>6, <2>1
    <3> QED
      BY <3>1, <3>2, MachineFacts
  <2> QED
    BY <1>2, <1>3, <1>5, <1>6, <2>1, <2>2, <2>3, <2>4, LetRefStep
<1>10. CASE \E y \in Values : init = Move(y) /\ vars[y].t # "str"
  <2>1. PICK y \in Values : init = Move(y) /\ vars[y].t # "str"
    BY <1>10
  <2>2. y \in Nat /\ y \in Shown(blocks) /\ Machine.vars[y].to = 0 /\ Machine.vars[y].t = "map"
    BY <2>1, StateFacts, MachineFacts DEF Xs
  <2>3. s \in Statement
    BY <1>3, <2>1, <2>2, StatementIs
  <2>4. c = OwnerVar("map")
    <3>1. Known(Let(const, x, Move(y))) = OwnerVar(vars[y].t)
      BY KnownIs, ZenonT(30)
    <3>2. c = Known(Let(const, x, Move(y)))
      BY <1>6, <2>1
    <3>3. vars[y].t = "map"
      BY <2>2, MachineFacts
    <3> QED
      BY <3>1, <3>2, <3>3
  <2> QED
    BY <1>2, <1>3, <1>5, <1>6, <2>1, <2>2, <2>3, <2>4, LetMoveStep
<1> QED
  BY <1>7, <1>8, <1>9, <1>10, PlainInits

LEMMA OpenBlockStep ==
  ASSUME Sound(prog, blocks, Machine), NEW op \in Opens, NEW taken \in BOOLEAN, OpenBlock(op, taken)
  PROVE  Continues
<1> DEFINE s == Mark(op)
<1>1. /\ prog' = Append(prog, s) /\ ~returned /\ returned' = returned /\ ret' = ret
      /\ blocks' = Append(blocks, [op |-> op, at |-> Len(prog'), names |-> <<>>, on |-> taken])
      /\ UNCHANGED <<vars, slot, heap, faults>>
  BY DEF OpenBlock, Write
<1>2. s \in Statement /\ Flag(taken)
  BY StatementIs DEF Flag
<1>3. prog \in Seq(Statement)
  BY StateFacts
<1> HIDE DEF s
<1>4. Len(prog') = Len(prog) + 1
  BY <1>1, <1>2, <1>3
<1>5. blocks' = Append(blocks, Block(op, Len(prog) + 1, taken))
  BY <1>1, <1>4 DEF Block
<1>6. Machine' = Machine
  BY <1>1, MachineFacts
<1>7. Sound(Append(prog, s), Append(blocks, Block(op, Len(prog) + 1, taken)), Machine)
  BY <1>2, OpenStep DEF s
<1> QED
  BY <1>1, <1>5, <1>6, <1>7 DEF Continues

LEMMA LeaveIs ==
  ASSUME Sound(prog, blocks, Machine)
  PROVE  Exits(blocks, Machine, Leave(Machine))
<1>1. blocks \in Seq(Scope) /\ blocks # <<>> /\ (Running <=> OnTo(blocks, Len(blocks)))
  BY StateFacts
<1>2. Last(blocks) = blocks[Len(blocks)]
  BY DEF Last
<1> QED
  BY <1>1, <1>2 DEF Exits, Leave

LEMMA ElseBlockStep ==
  ASSUME Sound(prog, blocks, Machine), ElseBlock
  PROVE  Continues
<1> DEFINE s  == Mark("else")
           on == ~Last(blocks).on
           n  == Leave(Machine)
           d  == Block("else", Len(prog) + 1, on)
<1>1. /\ prog' = Append(prog, s) /\ ~returned /\ returned' = returned /\ ret' = ret
      /\ blocks' = Append(Front(blocks), [op |-> "else", at |-> Len(prog'), names |-> <<>>, on |-> on])
      /\ Become(n)
  BY DEF ElseBlock, Write
<1>2. s \in Statement
  BY StatementIs
<1>3. prog \in Seq(Statement)
  BY StateFacts
<1>4. Flag(on)
  BY DEF Flag
<1>5. Exits(blocks, Machine, n)
  BY LeaveIs
<1> HIDE DEF n
<1> HIDE DEF on
<1>6. Sound(Append(prog, s), Append(Front(blocks), d), n)
  BY <1>2, <1>4, <1>5, ElseStep
<1> HIDE DEF s
<1>7. Len(prog') = Len(prog) + 1
  BY <1>1, <1>2, <1>3
<1>8. blocks' = Append(Front(blocks), d)
  BY <1>1, <1>7 DEF Block
<1>9. Machine' = n
  BY <1>1, <1>6, Sounds, MachineFacts
<1> QED
  BY <1>1, <1>6, <1>8, <1>9 DEF Continues

LEMMA CloseBlockStep ==
  ASSUME Sound(prog, blocks, Machine), CloseBlock(1)
  PROVE  Continues
<1> DEFINE s == Mark("end")
           n == Leave(Machine)
<1>1. Len(blocks) > 1 /\ prog' = Append(prog, s) /\ ~returned /\ returned' = returned /\ ret' = ret /\ blocks' = Front(blocks)
  BY DEF CloseBlock, Write
<1>2. Become(n)
  <2> DEFINE left[i \in 1 .. 1] == IF i = 1 THEN n ELSE Again(left[i - 1], Last(blocks))
  <2>1. Become(left[1])
    BY DEF CloseBlock
  <2>2. left[1] = n
    <3> DEFINE f == CHOOSE g : g = [i \in 1 .. 1 |-> IF i = 1 THEN n ELSE Again(g[i - 1], Last(blocks))]
               h == [i \in 1 .. 1 |-> n]
    <3>1. h = [i \in 1 .. 1 |-> IF i = 1 THEN n ELSE Again(h[i - 1], Last(blocks))]
      <4> HIDE DEF n
      <4>1. \A i \in 1 .. 1 : i = 1
        OBVIOUS
      <4> QED
        BY <4>1
    <3> HIDE DEF n
    <3>2. f = [i \in 1 .. 1 |-> IF i = 1 THEN n ELSE Again(f[i - 1], Last(blocks))]
      <4> HIDE DEF h
      <4> QED
        BY <3>1
    <3>3. 1 \in 1 .. 1
      OBVIOUS
    <3>4. f[1] = n
      <4> HIDE DEF f
      <4> QED
        BY <3>2, <3>3
    <3> QED
      BY <3>4
  <2> QED
    BY <2>1, <2>2
<1>3. s \in Statement
  BY StatementIs
<1>4. Exits(blocks, Machine, n)
  BY LeaveIs
<1> HIDE DEF n
<1>5. Sound(Append(prog, s), Front(blocks), n)
  BY <1>1, <1>3, <1>4, CloseStep
<1>6. Machine' = n
  BY <1>2, <1>5, Sounds, MachineFacts
<1> QED
  BY <1>1, <1>5, <1>6 DEF Continues

(* After a return nothing runs, and what it returned is all that is owned.  *)
Returns ==
  /\ returned' /\ prog' \in Seq(Statement) /\ blocks' \in Seq(Scope)
  /\ Fit(Machine', Shown(blocks'), {}, ret', 0, Exact(prog'))

(* Either return.                                                           *)
LEMMA ReturnStep ==
  ASSUME Sound(prog, blocks, Machine), NEW s \in Statement, Write(s), UNCHANGED blocks, returned' = TRUE,
         NEW n, Become(n), NEW e, ret' = e,
         Fit(n, Shown(blocks), {}, e, 0, Exact(Append(prog, s)))
  PROVE  Returns
<1>1. Machine' = n
  BY MachineFacts DEF Fit
<1>2. prog' = Append(prog, s)
  BY DEF Write
<1>3. blocks \in Seq(Scope) /\ prog \in Seq(Statement)
  BY StateFacts
<1>4. prog' \in Seq(Statement)
  BY <1>2, <1>3
<1> QED
  BY <1>1, <1>2, <1>3, <1>4 DEF Returns

LEMMA NamesCount == \A z \in Xs : z \in Nat
BY DEF Xs

LEMMA ReturnFromStep ==
  ASSUME PlainFamily, Sound(prog, blocks, Machine),
         NEW init \in {New("")} \cup {Var(y) : y \in Values} \cup Has("group", {Group(y) : y \in Values}),
         ReturnFrom(init)
  PROVE  Returns
<1> DEFINE s == Return(init)
<1>1. Running /\ Write(s) /\ returned' = TRUE /\ UNCHANGED blocks /\ Accepted(Append(prog, s))
  BY DEF ReturnFrom, Write
<1>2. init = New("") \/ \E y \in Values : init = Var(y)
  BY DEF PlainFamily, PlainForms, Has
<1>3. CASE init = New("")
  <2>1. s \in Statement
    BY <1>3, StatementIs
  <2>2. Become(DropScopes(Machine)) /\ ret' = 0
    BY <1>3, InitsDiffer DEF ReturnFrom
  <2>3. Fit(DropScopes(Machine), Shown(blocks), {}, 0, 0, Exact(Append(prog, s)))
    BY <2>1, ReturnNewStep
  <2> HIDE DEF s
  <2> QED
    BY <1>1, <2>1, <2>2, <2>3, ReturnStep
<1>4. CASE \E y \in Values : init = Var(y)
  <2>1. PICK y \in Values : init = Var(y)
    BY <1>4
  <2>2. /\ y \in Xs /\ y \in Nat /\ y \in Live(blocks) /\ Machine.vars[y].to = 0
        /\ Machine.vars[y] = vars[y] /\ Machine \in Machines
    <3>1. y \in Visible /\ Machine.vars[y].to = 0 /\ y \in Xs /\ y \in Shown(blocks)
      BY <2>1, StateFacts
    <3>2. Live(blocks) = Shown(blocks)
      BY <1>1, StateFacts
    <3>3. Machine \in Machines
      BY Sounds
    <3>4. Machine.vars[y] = vars[y]
      BY MachineFacts
    <3>5. y \in Nat
      BY <3>1, NamesCount
    <3> QED
      BY <3>1, <3>2, <3>3, <3>4, <3>5
  <2>3. s \in Statement
    BY <2>1, <2>2, StatementIs
  <2>4. /\ Machine.vars[y].t \in {"str", "map"}
        /\ Machine.vars[y].t = "str" =>
             Fit(DropScopes(StrRetain(Machine, Machine.slot[y])), Shown(blocks), {}, Machine.slot[y], 0, Exact(Append(prog, s)))
        /\ Machine.vars[y].t = "map" =>
             Fit(DropScopes(Store(Machine, y, 0)), Shown(blocks), {}, Machine.slot[y], 0, Exact(Append(prog, s)))
    BY <1>1, <2>1, <2>2, <2>3, ReturnVarStep
  <2>5. Compile(Machine, init) = [m |-> Machine, v |-> Machine.slot[y]]
    BY <2>1, <2>2, Compiled
  <2>6. Compile(Machine, init).m = Machine /\ Compile(Machine, init).v = Machine.slot[y]
    <3>1. ASSUME NEW r, NEW a, NEW b, r = [m |-> a, v |-> b] PROVE r.m = a /\ r.v = b
      BY <3>1
    <3> QED
      BY <2>5, <3>1
  <2>7. init.k = "var" /\ init.y = y
    BY <2>1, InitsDiffer
  <2>8. CASE Machine.vars[y].t = "str"
    <3>1. ~IsMoved(vars[y]) /\ vars[y].t = "str"
      BY <2>2, <2>8, Loaded
    <3>2. Become(DropScopes(StrRetain(Machine, Machine.slot[y]))) /\ ret' = Machine.slot[y]
      BY <2>6, <2>7, <3>1 DEF ReturnFrom
    <3> HIDE DEF s
    <3> QED
      BY <1>1, <2>3, <2>4, <2>8, <3>2, ReturnStep
  <2>9. CASE Machine.vars[y].t = "map"
    <3>1. IsMoved(vars[y])
      BY <2>2, <2>9, Loaded
    <3>2. Become(DropScopes(Store(Machine, y, 0))) /\ ret' = Machine.slot[y]
      BY <2>6, <2>7, <3>1 DEF ReturnFrom
    <3> HIDE DEF s
    <3> QED
      BY <1>1, <2>3, <2>4, <2>9, <3>2, ReturnStep
  <2> QED
    BY <2>4, <2>8, <2>9
<1> QED
  BY <1>2, <1>3, <1>4

(* Every step but the last.                                                 *)
LEMMA NextStep ==
  ASSUME PlainFamily, Sound(prog, blocks, Machine), Next
  PROVE  Continues \/ Returns
<1>1. CASE \E const, boxed \in BOOLEAN : \E init \in Inits(const) : DeclareVar(const, init, boxed)
  BY <1>1, DeclareVarStep
<1>2. CASE \E x \in Values : \E init \in Sources(x) : AssignTo(x, init)
  BY <1>2, AssignToStep
<1>3. CASE \E x \in Visible : UseVar(x)
  BY <1>3, UseVarStep
<1>4. CASE \E x \in Visible : CallClosure(x)
  BY <1>4, CallClosureStep
<1>5. CASE \E x \in Values, mode \in {"const", "let", "move"} : PassVar(mode, x)
  BY <1>5, PassVarStep
<1>6. CASE \E op \in Opens, taken \in BOOLEAN : OpenBlock(op, taken)
  BY <1>6, OpenBlockStep
<1>7. CASE ElseBlock
  BY <1>7, ElseBlockStep
<1>8. CASE \E n \in 1..family.rounds : CloseBlock(n)
  <2>1. PICK n \in 1..1 : CloseBlock(n)
    BY <1>8 DEF PlainFamily
  <2>2. n = 1
    OBVIOUS
  <2> QED
    BY <2>1, <2>2, CloseBlockStep
<1>9. CASE \E init \in {New("")} \cup {Var(y) : y \in Values} \cup Has("group", {Group(y) : y \in Values}) :
             ReturnFrom(init)
  BY <1>9, ReturnFromStep
<1> QED
  BY <1>1, <1>2, <1>3, <1>4, <1>5, <1>6, <1>7, <1>8, <1>9 DEF Next

LEMMA NextWrites == Next => ~returned /\ UNCHANGED family
BY DEF Next, DeclareVar, AssignTo, UseVar, CallClosure, PassVar, Execute, OpenBlock, ElseBlock,
       CloseBlock, ReturnFrom, Write

(* The invariant is inductive.                                              *)
LEMMA SteadyStep == Steady /\ [Next]_state => Steady'
<1>1. ASSUME Steady, Next PROVE Steady'
  <2> SUFFICES ASSUME PlainFamily'
               PROVE  IF returned' THEN /\ prog' \in Seq(Statement) /\ blocks' \in Seq(Scope)
                                        /\ Fit(Machine', Shown(blocks'), {}, ret', 0, Exact(prog'))
                      ELSE Sound(prog', blocks', Machine') /\ ret' = 0
    BY DEF Steady
  <2>1. ~returned /\ PlainFamily
    BY <1>1, NextWrites DEF PlainFamily
  <2>2. Sound(prog, blocks, Machine) /\ ret = 0
    BY <1>1, <2>1 DEF Steady
  <2> QED
    BY <1>1, <2>1, <2>2, NextStep DEF Continues, Returns
<1>2. ASSUME Steady, UNCHANGED state PROVE Steady'
  <2>1. /\ family' = family /\ prog' = prog /\ blocks' = blocks /\ returned' = returned /\ ret' = ret
        /\ UNCHANGED <<vars, slot, heap, faults>>
    BY <1>2 DEF state
  <2>2. Machine' = Machine
    BY <2>1, MachineFacts
  <2> QED
    BY <1>2, <2>1, <2>2 DEF Steady, PlainFamily
<1> QED
  BY <1>1, <1>2

(* The empty program.                                                       *)
LEMMA Began ==
  ASSUME Init
  PROVE  /\ prog = <<>> /\ blocks = <<Block("block", 0, TRUE)>> /\ ~returned /\ ret = 0
         /\ Machine \in Machines /\ Machine.heap = <<>>
         /\ \A x \in Xs : Machine.slot[x] = 0
<1>1. MaxVars \in Nat
  BY OwnershipAssumption
<1>2. NoVar \in CodeVar
  BY <1>1 DEF NoVar, CodeVar
<1>3. vars \in [Xs -> CodeVar]
  BY <1>2 DEF Init, Xs
<1>4. slot \in [Xs -> Nat] /\ \A x \in Xs : slot[x] = 0
  BY DEF Init, Xs
<1>5. heap \in Seq(Cell) /\ heap = <<>> /\ faults \in {{}}
  BY DEF Init
<1>6. prog = <<>> /\ ~returned /\ ret = 0
  BY DEF Init
<1>7. blocks = <<Block("block", 0, TRUE)>>
  BY DEF Init, Block
<1>8. Machine \in Machines
  BY <1>3, <1>4, <1>5 DEF Machine, Machines
<1> QED
  BY <1>4, <1>5, <1>6, <1>7, <1>8, MachineFacts

LEMMA FirstBlock ==
  ASSUME NEW bl, bl = <<Block("block", 0, TRUE)>>
  PROVE  /\ bl \in Seq(Scope) /\ bl # <<>> /\ Len(bl) = 1 /\ bl[1].names = <<>> /\ Ats(bl) = <<0>>
         /\ Shown(bl) = {} /\ Live(bl) = {}
<1> DEFINE d == Block("block", 0, TRUE)
<1>1. d \in Scope /\ d.at = 0 /\ d.names = <<>>
  BY BlockIs DEF Flag, Ops, Opens
<1> HIDE DEF d
<1>2. bl \in Seq(Scope) /\ bl # <<>> /\ Len(bl) = 1 /\ bl[1] = d
  <2>1. ASSUME NEW T, NEW c \in T PROVE <<c>> \in Seq(T) /\ <<c>> # <<>> /\ Len(<<c>>) = 1 /\ <<c>>[1] = c
    OBVIOUS
  <2>2. bl = <<d>>
    BY DEF d
  <2> QED
    BY <1>1, <2>1, <2>2
<1>3. Ats(bl) = <<0>>
  <2>1. \A k \in 1..1 : bl[k].at = 0
    <3>1. \A k \in 1..1 : k = 1
      OBVIOUS
    <3> QED
      BY <1>1, <1>2, <3>1
  <2>2. Ats(bl) = [k \in 1..1 |-> 0]
    BY <1>2, <2>1 DEF Ats
  <2>3. [k \in 1..1 |-> 0] = <<0>>
    OBVIOUS
  <2> QED
    BY <2>2, <2>3
<1>4. \A x : \A k \in 1..Len(bl) : ~InBlock(bl, x, k)
  <2>1. \A k \in 1..Len(bl) : bl[k].names = <<>>
    <3>1. \A k \in 1..1 : k = 1
      OBVIOUS
    <3> QED
      BY <1>1, <1>2, <3>1
  <2>2. Range(<<>>) = {}
    BY DEF Range
  <2> QED
    BY <2>1, <2>2 DEF InBlock
<1> QED
  BY <1>1, <1>2, <1>3, <1>4 DEF Shown, Live

LEMMA EmptyProgram ==
  ASSUME NEW p, p = <<>>
  PROVE  p \in Seq(Statement) /\ Len(p) = 0 /\ Fresh(p) = 1 /\ Tree(p, <<0>>)
<1>1. p \in Seq(Statement) /\ Len(p) = 0
  OBVIOUS
<1>2. Lets(p) = {}
  BY <1>1 DEF Lets
<1>3. Fresh(p) = 1
  BY <1>2, FS_EmptySet DEF Fresh
<1>4. Nest(p, 0, 1) = 0
  <2>1. 0 \in Nat /\ 0 + 1 = 1
    OBVIOUS
  <2> QED
    BY <2>1, NestStart
<1>5. Tree(p, <<0>>)
  <2> DEFINE S == <<0>>
  <2>1. S \in Seq(Nat) /\ S # <<>> /\ Len(S) = 1 /\ S[1] = 0
    OBVIOUS
  <2> HIDE DEF S
  <2> SUFFICES Tree(p, S)
    BY DEF S
  <2> SUFFICES ASSUME NEW k \in 1..Len(S)
               PROVE  /\ S[k] <= Len(p)
                      /\ Nest(p, S[k], Len(p) + 1) = Len(S) - k
                      /\ \A j \in S[k] + 1 .. Len(p) : p[j].op \in {"end", "else"} => Nest(p, S[k], j) # 0
    BY <2>1 DEF Tree
  <2>2. k = 1 /\ S[k] = 0 /\ S[k] + 1 = 1 /\ Len(p) + 1 = 1 /\ Len(S) - k = 0
    BY <1>1, <2>1
  <2>3. Nest(p, S[k], Len(p) + 1) = 0
    BY <1>4, <2>2
  <2>4. S[k] + 1 .. Len(p) = {}
    BY <1>1, <2>2
  <2>5. S[k] <= Len(p)
    BY <1>1, <2>2
  <2> QED
    BY <2>2, <2>3, <2>4, <2>5
<1> QED
  BY <1>1, <1>3, <1>5

LEMMA EmptyKnowing ==
  /\ Knowing(EmptyScope) /\ EmptyScope.scopes = <<0>> /\ Len(EmptyScope.var) = 0
<1>1. EmptyScope = Learning(<<0>>, <<>>, {}, TRUE)
  BY DEF EmptyScope, Learning
<1>2. EmptyScope.scopes = <<0>> /\ EmptyScope.var = <<>> /\ EmptyScope.borrows = {} /\ EmptyScope.ok = TRUE
  BY DEF EmptyScope
<1>3. <<0>> \in Seq(Nat) /\ <<>> \in Seq(VarKnown) /\ TRUE \in BOOLEAN
  OBVIOUS
<1> QED
  BY <1>1, <1>2, <1>3 DEF Knowing

(* It holds of the empty program.                                           *)
LEMMA SteadyInit == Init => Steady
<1> SUFFICES ASSUME Init PROVE Sound(prog, blocks, Machine) /\ ret = 0 /\ ~returned
  BY DEF Steady
<1> DEFINE p == prog
           bl == blocks
           m == Machine
<1>1. /\ p = <<>> /\ bl = <<Block("block", 0, TRUE)>> /\ ~returned /\ ret = 0
      /\ m \in Machines /\ m.heap = <<>> /\ \A x \in Xs : m.slot[x] = 0
  BY Began
<1> HIDE DEF p, bl, m
<1>2. /\ bl \in Seq(Scope) /\ bl # <<>> /\ Len(bl) = 1 /\ bl[1].names = <<>> /\ Ats(bl) = <<0>>
      /\ Shown(bl) = {} /\ Live(bl) = {}
  BY <1>1, FirstBlock
<1>3. p \in Seq(Statement) /\ Len(p) = 0 /\ Fresh(p) = 1 /\ Tree(p, Ats(bl))
  BY <1>1, <1>2, EmptyProgram
<1>4. \A k \in 1..Len(bl) : k = 1 /\ Range(bl[k].names) = {}
  <2>1. Range(bl[1].names) = {}
    BY <1>2 DEF Range
  <2> QED
    BY <1>2, <2>1
<1>5. Nested(p, bl)
  <2>1. Apart(p, bl)
    BY <1>4 DEF Apart
  <2> QED
    BY <1>2, <1>3, <2>1 DEF Nested
<1>6. Fit(m, {}, {}, 0, 0, Exact(p))
  <2>1. Len(m.heap) = 0
    BY <1>1
  <2> QED
    BY <1>1, <2>1 DEF Fit
<1>7. Informed(p, bl, m)
  <2> SUFFICES ASSUME NEW q, Extends(q, p) PROVE Agrees(Prior(q, p), p, bl, m)
    BY DEF Informed
  <2>1. Len(q) \in Nat
    BY DEF Extends
  <2>2. Prior(q, p) = EmptyScope
    BY <1>3, <2>1, AnalysisIs DEF Prior
  <2> QED
    BY <1>2, <1>3, <2>2, EmptyKnowing DEF Agrees
<1>8. Backed(p, bl, m)
  BY <1>4 DEF Backed
<1> QED
  BY <1>1, <1>2, <1>5, <1>6, <1>7, <1>8 DEF Sound, p, bl, m

(* What a machine that fits says of its owners.                             *)
LEMMA OwnersAre ==
  ASSUME blocks \in Seq(Scope), NEW L, NEW e, NEW exact, Fit(Machine, Shown(blocks), L, e, 0, exact),
         e = IF returned THEN ret ELSE 0, NEW o \in 1..Len(heap)
  PROVE  Owners(o) = Held(Machine, Shown(blocks), o, e, 0)
<1> DEFINE V  == Shown(blocks)
           S1 == {x \in Visible : slot[x] = o /\ ~vars[x].view /\ vars[x].to = 0}
           S2 == {b \in DOMAIN heap : heap[b].k = "box" /\ heap[b].rc > 0
                                       /\ heap[b].t # "view" /\ heap[b].cell = o}
           S3 == {ei \in (DOMAIN heap) \X (1..2) :
                    /\ heap[ei[1]].k = "env" /\ heap[ei[1]].rc > 0
                    /\ ei[2] \in DOMAIN heap[ei[1]].caps /\ heap[ei[1]].caps[ei[2]] = o}
           r  == IF returned /\ ret = o THEN 1 ELSE 0
<1>1. Machine.heap = heap /\ Machine.slot = slot /\ Machine.vars = vars
  BY MachineFacts
<1>2. heap \in Seq(Cell)
  BY <1>1, FitFacts
<1>3. \A b \in DOMAIN heap : heap[b].k = "val"
  <2>1. \A b \in DOMAIN heap : heap[b] \in Cell
    BY <1>2
  <2> QED
    BY <2>1 DEF Cell
<1>4. S1 = Own(Machine, V, o)
  BY <1>1, VisibleIs DEF Own, IsOwner
<1>5. S2 = {}
  BY <1>3
<1>6. S3 = {}
  BY <1>3
<1>7. Cardinality({}) = 0
  BY FS_EmptySet
<1>8. Owners(o) = Cardinality(S1) + Cardinality(S2) + Cardinality(S3) + r
  BY DEF Owners
<1>9. Cardinality(Own(Machine, V, o)) \in Nat
  BY OwnFacts, FitFacts
<1>10. r = IF o = e THEN 1 ELSE 0
  <2>1. o # 0
    OBVIOUS
  <2> QED
    BY <2>1
<1>11. o # 0
  OBVIOUS
<1> HIDE DEF S1, S2, S3, r
<1>12. Owners(o) = Cardinality(Own(Machine, V, o)) + r
  <2>1. Cardinality(S2) = 0 /\ Cardinality(S3) = 0 /\ r \in Nat
    BY <1>5, <1>6, <1>7, <1>10
  <2> QED
    BY <1>4, <1>8, <1>9, <2>1
<1> QED
  BY <1>9, <1>10, <1>11, <1>12 DEF Held

(* What the counts say.                                                     *)
LEMMA Counts ==
  ASSUME blocks \in Seq(Scope), NEW L, NEW e, Fit(Machine, Shown(blocks), L, e, 0, Exact(prog)),
         e = IF returned THEN ret ELSE 0
  PROVE  /\ faults = {} /\ heap \in Seq(Cell)
         /\ \A o \in DOMAIN heap : /\ Owners(o) <= heap[o].rc
                                   /\ heap[o].t = "str" /\ Exact(prog) => heap[o].rc = Owners(o)
<1>1. Machine.heap = heap /\ Machine.faults = faults /\ Machine \in Machines
  BY MachineFacts DEF Fit
<1>2. faults = {}
  BY <1>1 DEF Machines
<1>3. heap \in Seq(Cell)
  BY <1>1, FitFacts
<1>4. ASSUME NEW o \in DOMAIN heap
      PROVE  /\ Owners(o) <= heap[o].rc
             /\ heap[o].t = "str" /\ Exact(prog) => heap[o].rc = Owners(o)
  <2>1. o \in 1..Len(heap)
    BY <1>3
  <2>2. Owners(o) = Held(Machine, Shown(blocks), o, e, 0)
    BY <2>1, OwnersAre
  <2>3. Covered(Machine, Shown(blocks), o, e, 0, Exact(prog))
    BY <1>1, <2>1 DEF Fit
  <2> QED
    BY <1>1, <2>2, <2>3 DEF Covered
<1> QED
  BY <1>2, <1>3, <1>4

(* Nothing is left to a string owner of a function that has returned.       *)
LEMMA NoneLeft ==
  ASSUME blocks \in Seq(Scope), NEW e, Fit(Machine, Shown(blocks), {}, e, 0, Exact(prog)),
         NEW o \in 1..Len(heap), heap[o].t = "str"
  PROVE  Held(Machine, Shown(blocks), o, e, 0) = IF o = e THEN 1 ELSE 0
<1> DEFINE V == Shown(blocks)
<1>1. Machine.heap = heap
  BY MachineFacts
<1>2. o # 0
  OBVIOUS
<1>3. \A x \in V : VarFits(Machine, {}, x)
  BY FitFacts
<1>4. Own(Machine, V, o) = {}
  <2> SUFFICES ASSUME NEW x \in V, IsOwner(Machine, x), Machine.slot[x] = o PROVE FALSE
    BY DEF Own
  <2>1. Machine.vars[x].t = "str"
    BY <1>1, <1>2, <1>3 DEF VarFits
  <2> QED
    BY <1>2, <1>3, <2>1 DEF VarFits
<1> QED
  BY <1>2, <1>4, FS_EmptySet DEF Held

(* And it implies what is promised.                                         *)
LEMMA SteadyIsSafe == Steady /\ PlainFamily => NoUseAfterFree /\ NoStaleRead /\ OwnersCounted
<1> SUFFICES ASSUME Steady, PlainFamily PROVE faults = {} /\ OwnersCounted
  BY DEF NoUseAfterFree, NoStaleRead
<1>1. CASE returned
  <2>1. /\ prog \in Seq(Statement) /\ blocks \in Seq(Scope)
        /\ Fit(Machine, Shown(blocks), {}, ret, 0, Exact(prog))
    BY <1>1 DEF Steady
  <2>2. /\ faults = {} /\ heap \in Seq(Cell)
        /\ \A o \in DOMAIN heap : /\ Owners(o) <= heap[o].rc
                                  /\ heap[o].t = "str" /\ Exact(prog) => heap[o].rc = Owners(o)
    BY <1>1, <2>1, Counts
  <2>3. CountsCover
    BY <2>2 DEF CountsCover
  <2>4. StringsReleased
    <3> SUFFICES ASSUME \A i \in DOMAIN prog : prog[i].op # "pass", NEW o \in DOMAIN heap, heap[o].t = "str"
                 PROVE  heap[o].rc = IF ret = o THEN 1 ELSE 0
      BY DEF StringsReleased
    <3>1. Exact(prog)
      BY <2>1 DEF Exact
    <3>2. o \in 1..Len(heap)
      BY <2>2
    <3>3. Owners(o) = Held(Machine, Shown(blocks), o, ret, 0)
      BY <1>1, <2>1, <3>2, OwnersAre
    <3>4. Held(Machine, Shown(blocks), o, ret, 0) = IF o = ret THEN 1 ELSE 0
      BY <2>1, <3>2, NoneLeft
    <3>5. heap[o].rc = Owners(o)
      BY <2>2, <3>1
    <3> QED
      BY <3>3, <3>4, <3>5
  <2> QED
    BY <2>2, <2>3, <2>4 DEF OwnersCounted
<1>2. CASE ~returned
  <2>1. blocks \in Seq(Scope) /\ Fit(Machine, Shown(blocks), Live(blocks), 0, 0, Exact(prog))
    BY <1>2 DEF Steady, Sound, Nested
  <2>2. /\ faults = {}
        /\ \A o \in DOMAIN heap : Owners(o) <= heap[o].rc
    BY <1>2, <2>1, Counts
  <2> QED
    BY <1>2, <2>2 DEF OwnersCounted, CountsCover, StringsReleased
<1> QED
  BY <1>1, <1>2

(***************************************************************************)
(* The theorems.  Any program of a plain family: any number of statements   *)
(* and variables, blocks and branches nested to any depth, bodies of loops  *)
(* that run once or not at all; no lambda and none of the forms the         *)
(* compiler gets wrong.                                                     *)
(***************************************************************************)

(* What the checker knows and what the machine holds agree at every         *)
(* statement of a program the borrow checker accepts.                       *)
THEOREM SteadyAlways == Spec => []Steady
BY SteadyInit, SteadyStep, PTL DEF Spec

(* The code emitted for an accepted program never reads, counts or frees a  *)
(* string or a map that was freed.                                          *)
THEOREM MemoryIsSafe == Spec => [](PlainFamily => NoUseAfterFree)
<1>1. Steady => (PlainFamily => NoUseAfterFree)
  BY SteadyIsSafe
<1> QED
  BY <1>1, SteadyAlways, PTL

(* It never reads a variable whose value has moved away, nor a reference    *)
(* whose owner has moved or gone out of scope.                              *)
THEOREM ReadsAreCurrent == Spec => [](PlainFamily => NoStaleRead)
<1>1. Steady => (PlainFamily => NoStaleRead)
  BY SteadyIsSafe
<1> QED
  BY <1>1, SteadyAlways, PTL

(* A count covers the owners of its object, a map has one owner, and a      *)
(* return leaves no count of a string but of the one it returns.            *)
THEOREM CountsCoverOwners == Spec => [](PlainFamily => OwnersCounted)
<1>1. Steady => (PlainFamily => OwnersCounted)
  BY SteadyIsSafe
<1> QED
  BY <1>1, SteadyAlways, PTL

(* All of it in the specification the runs explore, where a program runs    *)
(* beside the tables of a map: neither disturbs the other's state.          *)
THEOREM PlainProgramsSafe ==
  ValuesSpec => [](PlainFamily => NoUseAfterFree /\ NoStaleRead /\ OwnersCounted)
<1>1. ValuesInit => Init
  BY DEF ValuesInit
<1>2. [ValuesNext]_both => [Next]_state
  BY DEF ValuesNext, both, MapAtRest, ProgramAtRest
<1>3. ValuesSpec => Spec
  BY <1>1, <1>2, PTL DEF ValuesSpec, Spec
<1> QED
  BY <1>3, MemoryIsSafe, ReadsAreCurrent, CountsCoverOwners, PTL
=============================================================================
