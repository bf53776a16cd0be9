---------------------------- MODULE BorrowCheck ----------------------------
(***************************************************************************)
(* The borrow checker of the compiler (src/tua/src/analyzer.c): which      *)
(* programs of a small statement language it accepts.  A program is a flat *)
(* sequence of statements; "block", "if" and "while" open a block, "else"  *)
(* starts the second one of an if, "end" closes a block.  Variables are    *)
(* numbered in the order of their declarations, so a name is never         *)
(* shadowed.                                                               *)
(*                                                                         *)
(* The analyzer is one pass over the statements with a stack of scopes; a  *)
(* scope is named by the position of the statement that opens it, 0 for    *)
(* the function body.                                                      *)
(***************************************************************************)
EXTENDS Naturals, Sequences, FiniteSets, SequencesExt

Forever == 1000            \* INT_MAX: a borrow that ends with its scope

Opens  == {"block", "if", "while"}

\* Initialisers: a fresh value, a bare variable, a parenthesised one, a
\* reference, an explicit move, a lambda over captured variables.
New(t)       == [k |-> "new", t |-> t, y |-> 0, z |-> 0]
Var(y)       == [k |-> "var", t |-> "", y |-> y, z |-> 0]
Group(y)     == [k |-> "group", t |-> "", y |-> y, z |-> 0]
Ref(y)       == [k |-> "ref", t |-> "", y |-> y, z |-> 0]
Move(y)      == [k |-> "move", t |-> "", y |-> y, z |-> 0]
\* The lambda reads y (do = "use"), sets it to a fresh value (do = "set"), or
\* sets it to the captured variable z (do = "copy").
Lambda(do, y, z) == [k |-> "lambda", t |-> do, y |-> y, z |-> z]

Stmt(op, const, x, init) == [op |-> op, const |-> const, x |-> x, init |-> init]
Let(const, x, init) == Stmt("let", const, x, init)
Assign(x, init)     == Stmt("assign", FALSE, x, init)
Use(y)              == Stmt("use", FALSE, y, New(""))
Call(y)             == Stmt("call", FALSE, y, New(""))
Pass(mode, y)       == Stmt("pass", FALSE, y, New(mode))
Return(init)        == Stmt("return", FALSE, 0, init)
Mark(op)            == Stmt(op, FALSE, 0, New(""))

-----------------------------------------------------------------------------
(* Last uses.  A use anywhere inside a statement of a block, nested blocks *)
(* and lambdas included, counts for that statement.                        *)

\* The names a statement mentions; a definition and an assignment's target count.
Names(s) == IF s.op \in Opens \cup {"else", "end"} THEN {}
            ELSE {s.x, s.init.y, s.init.z} \ {0}

Nest(p, b, j) ==
  Cardinality({i \in b + 1 .. j - 1 : p[i].op \in Opens})
    - Cardinality({i \in b + 1 .. j - 1 : p[i].op = "end"})

\* The end of the block that statement b opens, or the end of the program.
BlockEnd(p, b) ==
  LET Ends == {j \in b + 1 .. Len(p) : p[j].op \in {"end", "else"} /\ Nest(p, b, j) = 0}
  IN  IF Ends = {} THEN Len(p) ELSE Min(Ends)

\* The statement of block b that holds position j.
StmtIndex(p, b, j) == Max({k \in b + 1 .. j : Nest(p, b, k) = 0})

\* Mutant of LastUse: only the block's own statements count.
LastUseFlat(p, b, x) ==
  LET Uses == {j \in b + 1 .. BlockEnd(p, b) : Nest(p, b, j) = 0 /\ x \in Names(p[j])}
  IN  IF Uses = {} THEN Forever ELSE StmtIndex(p, b, Max(Uses))

LastUse(p, b, x) ==
  LET Uses == {j \in b + 1 .. BlockEnd(p, b) : x \in Names(p[j])}
  IN  IF Uses = {} THEN Forever ELSE StmtIndex(p, b, Max(Uses))

-----------------------------------------------------------------------------
(* The analyzer's state: the open scopes, what it knows of each variable,  *)
(* the borrows recorded, and whether it has reported no error yet.         *)

EmptyScope == [scopes |-> <<0>>, var |-> <<>>, borrows |-> {}, ok |-> TRUE]

\* Shared references are copied; exclusive references, containers and
\* closures are moved; strings are counted and copied.
IsRef(v)    == v.ref # "no"
MoveOnly(v) == IF IsRef(v) THEN v.ref = "excl" ELSE v.t # "str"

Active(p, i, a, y) ==
  {w \in a.borrows : /\ w.owner = y
                     /\ w.at \in Range(a.scopes)
                     /\ StmtIndex(p, w.at, i) <= w.end}

BorrowHasAny(p, i, a, y) == Active(p, i, a, y) # {}

\* borrowCheckAndRecord in scope `at`: an exclusive borrow wants no other one, a
\* shared one no exclusive one, in that scope and those around it.
Borrow(p, i, a, y, mut, at, end) ==
  IF \E w \in Active(p, i, a, y) : w.at <= at /\ (mut \/ w.mut)
  THEN [a EXCEPT !.ok = FALSE]
  ELSE [a EXCEPT !.borrows = @ \cup {[owner |-> y, mut |-> mut, end |-> end, at |-> at]}]

Reject(a, bad) == IF bad THEN [a EXCEPT !.ok = FALSE] ELSE a

\* A bare move-only variable on the right of a declaration or an assignment.
MayNotMove(p, i, a, y) ==
  \/ BorrowHasAny(p, i, a, y)
  \/ a.var[y].borrowed /\ ~IsRef(a.var[y])
  \/ a.var[y].const

\* Mutant of MoveVar: the variable is not marked as moved.
MoveUnmarked(p, i, a, y) == IF MoveOnly(a.var[y]) THEN Reject(a, MayNotMove(p, i, a, y)) ELSE a

MoveVar(p, i, a, y) ==
  IF ~MoveOnly(a.var[y]) THEN a
  ELSE [Reject(a, MayNotMove(p, i, a, y)) EXCEPT !.var[y].moved = TRUE]

ScopeIsAncestor(a, b, c) == b \in Range(a.scopes) /\ b <= c

\* What reading an initialiser checks: a moved variable is not read, `move`
\* moves, a lambda's body is analysed where the lambda is written.
Infer(p, i, a, init) ==
  CASE init.k = "new"  -> a
    [] init.k = "move" -> MoveVar(p, i, Reject(a, a.var[init.y].moved), init.y)
    [] init.k = "lambda" ->
         LET captured == IF init.t = "copy" THEN init.z ELSE init.y
             stored   == init.t \in {"set", "copy"}
         IN  Reject(a, \/ init.t # "set" /\ a.var[captured].moved
                       \/ stored /\ a.var[init.y].const
                       \/ stored /\ BorrowHasAny(p, i, a, init.y))
    [] OTHER -> Reject(a, a.var[init.y].moved)

TypeOf(a, init) == IF init.k = "new" THEN init.t
                   ELSE IF init.k = "lambda" THEN "clo"
                   ELSE a.var[init.y].t

\* The kind of reference a declaration binds.
RefKind(a, const, init) ==
  CASE init.k = "ref" -> IF const THEN "shared" ELSE "excl"
    [] init.k \in {"var", "group"} /\ IsRef(a.var[init.y]) ->
         IF const THEN "shared" ELSE a.var[init.y].ref
    [] OTHER -> "no"

\* `const v = x` of a move-only x borrows x; it moves nothing.
ConstView(a, s) ==
  s.const /\ s.init.k = "var" /\ RefKind(a, s.const, s.init) = "no" /\ MoveOnly(a.var[s.init.y])

\* The borrows and moves a declaration makes, in the analyzer's order.
DeclareBorrows(p, i, a, s) ==
  LET y    == s.init.y
      b    == Last(a.scopes)
      end  == LastUse(p, b, s.x)
      reborrow == s.const /\ s.init.k \in {"var", "group"} /\ IsRef(a.var[y])
      moved == MoveVar(p, i, a, y)
  IN  CASE ConstView(a, s) -> Borrow(p, i, a, y, FALSE, b, end)
        [] reborrow -> Borrow(p, i, a, y, FALSE, b, end)
        [] ~s.const /\ s.init.k = "var" /\ MoveOnly(a.var[y]) ->
             IF moved.ok /\ a.var[y].from # 0
             THEN Borrow(p, i, moved, a.var[y].from, a.var[y].fromMut, b, end)
             ELSE moved
        [] s.init.k = "ref" ->
             Borrow(p, i, Reject(a, ~s.const /\ a.var[y].const), y, ~s.const, b, end)
        [] OTHER -> a

\* Where a borrowed value comes from, remembered with the variable that holds it.
Source(a, s) ==
  CASE s.init.k = "ref" -> <<s.init.y, ~s.const>>
    [] s.init.k = "var" -> <<a.var[s.init.y].from, a.var[s.init.y].fromMut>>
    [] OTHER -> <<0, FALSE>>

Declare(p, i, a, s) ==
  LET seen == Infer(p, i, a, s.init)
      ref  == RefKind(a, s.const, s.init)
      new  == [t |-> TypeOf(a, s.init), const |-> s.const, moved |-> FALSE, ref |-> ref,
               borrowed |-> ref # "no" \/ ConstView(a, s), block |-> Last(a.scopes),
               from |-> Source(a, s)[1], fromMut |-> Source(a, s)[2]]
  IN  [DeclareBorrows(p, i, seen, s) EXCEPT !.var = Append(@, new)]

\* An assignment: the target is not const and not borrowed, no reference leaves
\* the scope of what it refers to, and a borrow follows the value that moves.
AssignVar(p, i, a, s) ==
  LET y    == s.init.y
      dst  == a.var[s.x]
      seen == Infer(p, i, Reject(a, \/ dst.const
                                    \/ BorrowHasAny(p, i, a, s.x)
                                    \/ /\ s.init.k = "ref"
                                       /\ ~ScopeIsAncestor(a, a.var[y].block, dst.block)), s.init)
      moved == MoveVar(p, i, seen, y)
      from  == a.var[y].from
  IN  IF s.init.k # "var" THEN seen
      ELSE IF from = 0 THEN moved
      ELSE [Borrow(p, i, Reject(moved, ~ScopeIsAncestor(a, a.var[from].block, dst.block)),
                   from, a.var[y].fromMut, dst.block, LastUse(p, dst.block, s.x))
              EXCEPT !.var[s.x].from = from, !.var[s.x].fromMut = a.var[y].fromMut]

\* An argument of a call of a known function, by the mode of the parameter.
\* The call's own borrows end with the call.
PassArg(p, i, a, s) ==
  LET v == a.var[s.x]
  IN  CASE s.init.t = "const" -> Reject(a, v.moved \/ \E w \in Active(p, i, a, s.x) : w.mut)
        [] s.init.t = "let"   -> Reject(a, \/ v.moved
                                           \/ v.const
                                           \/ v.ref = "shared"
                                           \/ BorrowHasAny(p, i, a, s.x))
        [] s.init.t = "move"  -> MoveVar(p, i, Reject(a, v.moved), s.x)

\* `return x` of a borrowed container or closure is refused.
ReturnValue(p, i, a, s) ==
  Reject(Infer(p, i, a, s.init),
         /\ s.init.k = "var" /\ ~IsRef(a.var[s.init.y])
         /\ MoveOnly(a.var[s.init.y]) /\ a.var[s.init.y].borrowed)

AnalyzeStmt(p, i, a) ==
  LET s == p[i]
  IN  CASE s.op = "let"    -> Declare(p, i, a, s)
        [] s.op = "assign" -> AssignVar(p, i, a, s)
        [] s.op \in {"use", "call"} -> Reject(a, a.var[s.x].moved)
        [] s.op = "pass"   -> PassArg(p, i, a, s)
        [] s.op = "return" -> ReturnValue(p, i, a, s)
        [] s.op \in Opens  -> [a EXCEPT !.scopes = Append(@, i)]
        [] s.op = "else"   -> [a EXCEPT !.scopes = Append(Front(@), i)]
        [] s.op = "end"    -> [a EXCEPT !.scopes = Front(@)]

\* The pass: what it knows after each statement.  It stops at the first error.
Analysis(p) ==
  LET seen[i \in 0 .. Len(p)] ==
        IF i = 0 THEN EmptyScope
        ELSE LET a == seen[i - 1] IN IF a.ok THEN AnalyzeStmt(p, i, a) ELSE a
  IN  seen

Accepted(p) == Analysis(p)[Len(p)].ok
=============================================================================
