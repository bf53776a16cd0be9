------------------------------ MODULE Closures ------------------------------
(***************************************************************************)
(* Lambdas: which names one captures, which variables of a function live   *)
(* in boxes because of that, and what the code of both does at run time    *)
(* (compiler.c, llvm/llvm_expr.c, llvm/llvm_var.c, rt/rt_box.c).           *)
(*                                                                         *)
(* A node of the tree is [k, x, es, ss, ps]: its kind, the name it reads,  *)
(* writes or declares, the expressions and the statements in it, and the   *)
(* parameters of a lambda, whose body is ss.                               *)
(***************************************************************************)
EXTENDS Integers, Sequences, SequencesExt, FiniteSetsExt, TLC

Node(k, x, es, ss, ps) == [k |-> k, x |-> x, es |-> es, ss |-> ss, ps |-> ps]

IsLambda(n) == n.k = "lambda"

-----------------------------------------------------------------------------
(* The walkers of the tree.  Each goes into the kinds it has a case for,   *)
(* and never into a lambda.                                                *)

RECURSIVE Walk(_, _)
Walk(n, kinds) ==
  {n} \cup IF n.k \in kinds THEN UNION {Walk(m, kinds) : m \in ToSet(n.es) \cup ToSet(n.ss)} ELSE {}

WalkAll(body, kinds) == UNION {Walk(n, kinds) : n \in ToSet(body)}

\* All of a body, lambdas and their bodies too.
RECURSIVE WalkTree(_)
WalkTree(body) == UNION {{n} \cup WalkTree(n.es \o n.ss) : n \in ToSet(body)}

ExprKinds == {"binary", "unary", "grouping", "call", "assign", "get", "set", "map", "index", "indexset", "structinit",
              "postfix", "prefix"}
StmtKinds == {"var", "destructure", "block", "if", "for", "forin", "while", "dowhile", "return", "expr"}

\* Names that the body declares, at any depth; expressions declare none.
LocalsKinds == StmtKinds \cup {"iflet"}
collectLambdaLocalsExpr(e) == {}
Declares(s) == IF s.k \in {"var", "destructure", "iflet", "forin"} THEN {s.x} ELSE {}
collectLambdaLocalsStmt(body) ==
  UNION {Declares(s) \cup UNION {collectLambdaLocalsExpr(e) : e \in ToSet(s.es)} : s \in WalkAll(body, LocalsKinds)}

\* Names that the body reads or writes.
collectLambdaUsesExpr == ExprKinds
collectLambdaUsesStmt(body) ==
  {n.x : n \in {m \in WalkAll(body, StmtKinds \cup collectLambdaUsesExpr) : m.k \in {"name", "assign"}}}

\* The lambdas right inside the body.
collectNestedLambdasExpr == ExprKinds \cup {"array"}
collectNestedLambdasStmt(body) == {n \in WalkAll(body, StmtKinds \cup collectNestedLambdasExpr) : IsLambda(n)}

\* Mutant of compilerComputeLambdaFreeNames: a nested lambda's names are its own.
FreeNamesDirect(l) == collectLambdaUsesStmt(l.ss) \ (ToSet(l.ps) \cup collectLambdaLocalsStmt(l.ss))

RECURSIVE compilerComputeLambdaFreeNames(_)
compilerComputeLambdaFreeNames(l) ==
  (collectLambdaUsesStmt(l.ss) \cup UNION {compilerComputeLambdaFreeNames(c) : c \in collectNestedLambdasStmt(l.ss)})
    \ (ToSet(l.ps) \cup collectLambdaLocalsStmt(l.ss))

exprHasLambdaLiteral == (ExprKinds \cup {"array", "guard"}) \ {"structinit"}
stmtHasLambdaLiteral(body) == \E n \in WalkAll(body, StmtKinds \cup {"unsafe"} \cup exprHasLambdaLiteral) : IsLambda(n)

collectTopLevelLambdasExpr == ExprKinds \cup {"array", "guard", "cast"}
collectTopLevelLambdasStmt(body) == {n \in WalkAll(body, StmtKinds \cup {"unsafe"} \cup collectTopLevelLambdasExpr) : IsLambda(n)}

\* compileFuncStmt: of its variables these live in boxes, told by their names.
BoxedLocals(body) ==
  IF stmtHasLambdaLiteral(body) THEN UNION {compilerComputeLambdaFreeNames(l) : l \in collectTopLevelLambdasStmt(body)} ELSE {}

-----------------------------------------------------------------------------
(* The run of the code.  st holds the variables' cells, in boxes with a    *)
(* count or on a function's stack, the closures with the count of their    *)
(* environment, what was printed, and whether memory was used that is      *)
(* gone.  env is what the compiler knows at a place of a function: the     *)
(* names it boxes, the blocks around with their variables, and the cells   *)
(* on its stack.  In a run that is `meant` every variable lives as long as *)
(* somebody can name it and a lambda sees the blocks around it.            *)

Number(n) == [n |-> n, c |-> 0]
Closure(i) == [n |-> 0, c |-> i]
Null == Number(0)

Begin == [cells |-> <<>>, clos |-> <<>>, out |-> <<>>, bad |-> FALSE]

\* The frame of a function that boxes these names, or of a lambda, which boxes all.
Frame(meant, all, boxed) == [meant |-> meant, all |-> all, boxed |-> boxed, scopes |-> <<<<>>>>, stack |-> {}]

Bad(st) == [st EXCEPT !.bad = TRUE]

\* tua_box_dec, with the drop functions of boxes and of environments, which are
\* boxes too.
RECURSIVE DecEnv(_, _), DecBoxes(_, _)
BoxDec(st, i) ==
  LET t == [st EXCEPT !.cells[i].rc = @ - 1]
  IN  IF st.cells[i].rc = 0 THEN Bad(st)
      ELSE IF t.cells[i].rc = 0 /\ t.cells[i].drops THEN DecEnv(t, t.cells[i].v.c) ELSE t
DecEnv(st, c) ==
  IF c = 0 THEN st
  ELSE LET t    == [st EXCEPT !.clos[c].rc = @ - 1]
           caps == t.clos[c].caps
       IN  IF st.clos[c].rc = 0 THEN Bad(st)
           ELSE IF t.clos[c].rc > 0 THEN t
           ELSE DecBoxes(t, {caps[n].cell : n \in {m \in DOMAIN caps : caps[m].boxed}})
DecBoxes(st, cells) ==
  IF cells = {} THEN st ELSE LET i == CHOOSE i \in cells : TRUE IN DecBoxes(BoxDec(st, i), cells \ {i})

compilerShouldBoxLocal(env, n) == env.all \/ n \in env.boxed

\* A variable in a box, which owns what it holds unless it was lent to it, or
\* in a slot of the stack.  The first of a name in a scope is the one found.
DeclareAs(boxed, lent, env, st, n, v) ==
  LET cell == Len(st.cells) + 1
      var  == [cell |-> cell, boxed |-> boxed, owns |-> boxed, lent |-> lent]
  IN  [env |-> [env EXCEPT !.scopes[Len(env.scopes)] = @ @@ (n :> var), !.stack = IF boxed THEN @ ELSE @ \cup {cell}],
       st |-> [st EXCEPT !.cells = Append(@, [v |-> v, rc |-> 1, drops |-> boxed /\ ~lent])]]

emitVarStmt(env, st, n, v) == DeclareAs(compilerShouldBoxLocal(env, n), FALSE, env, st, n, v)
BindParam(env, st, n, v)   == DeclareAs(compilerShouldBoxLocal(env, n), TRUE, env, st, n, v)
defineLoopValue(env, st, n, v) == DeclareAs(env.all, FALSE, env, st, n, v)

\* The innermost variable of the name; a name that a lambda did not capture is
\* a variable of another function, which LLVM refuses.
Depth(env, n) == {d \in DOMAIN env.scopes : n \in DOMAIN env.scopes[d]}
Known(env, n) == Depth(env, n) # {}
VarOf(env, n) == env.scopes[Max(Depth(env, n))][n]

loadLocalValue(env, st, n) == IF Known(env, n) THEN st.cells[VarOf(env, n).cell].v ELSE Null
Touch(env, st, n) == IF Known(env, n) /\ st.cells[VarOf(env, n).cell].rc > 0 THEN st ELSE Bad(st)
Store(env, st, n, v) ==
  IF Known(env, n) THEN [Touch(env, st, n) EXCEPT !.cells[VarOf(env, n).cell].v = v] ELSE Bad(st)

\* What a lambda captured is neither its own box nor its own value.
emitDropForVar(st, var) ==
  IF var.boxed /\ var.owns THEN BoxDec(st, var.cell)
  ELSE IF var.lent THEN st
  ELSE [DecEnv(st, st.cells[var.cell].v.c) EXCEPT !.cells[var.cell].v = Null]

compilerEmitDropForBlockVars(env, st, d) ==
  IF env.meant THEN st
  ELSE FoldLeft(LAMBDA u, n : emitDropForVar(u, env.scopes[d][n]), st, SetToSeq(DOMAIN env.scopes[d]))
compilerEmitDropForCurrentFunctionScopes(env, st) ==
  FoldLeft(LAMBDA u, d : compilerEmitDropForBlockVars(env, u, d), st, Reverse([d \in DOMAIN env.scopes |-> d]))

\* A closure that is returned leaves its variable.
moveOutOnReturnIfNeeded(env, st, e) ==
  IF ~env.meant /\ e.k = "name" /\ loadLocalValue(env, st, e.x).c # 0 THEN Store(env, st, e.x, Null) ELSE st

\* A function that has returned has no stack any more.
Leave(env, st) ==
  IF env.meant THEN st
  ELSE FoldSet(LAMBDA c, u : [u EXCEPT !.cells[c].rc = 0], st, env.stack)

\* The environment of a lambda, made where it stands: it counts the boxes it
\* captures, and keeps the address of what is not in a box.
emitLambdaExpr(env, st, l) ==
  LET caps    == {n \in compilerComputeLambdaFreeNames(l) : Known(env, n)}
      fields  == [n \in caps |-> [VarOf(env, n) EXCEPT !.owns = FALSE, !.lent = TRUE]]
      counted == FoldLeft(LAMBDA u, n : IF fields[n].boxed THEN [u EXCEPT !.cells[fields[n].cell].rc = @ + 1] ELSE u,
                          st, SetToSeq(caps))
      closure == IF env.meant THEN [lambda |-> l, scopes |-> env.scopes, caps |-> <<>>, rc |-> 1]
                 ELSE [lambda |-> l, scopes |-> <<>>, caps |-> fields, rc |-> 1]
  IN  [st |-> [(IF env.meant THEN st ELSE counted) EXCEPT !.clos = Append(@, closure)], v |-> Closure(Len(st.clos) + 1)]

\* The frame a lambda's body runs in: what it captured comes first in its scope.
BodyFrame(meant, closure) == [Frame(meant, TRUE, {}) EXCEPT !.scopes = Append(closure.scopes, closure.caps)]

-----------------------------------------------------------------------------
(* The statements.  What a statement leaves is [env, st, v, left], left     *)
(* when it has returned v; what an expression leaves is [st, v].  Of the    *)
(* operators, `<` compares and the others add up what they are given.       *)

Truth(v) == v.n > 0
AddTo(n, v) == n + v.n
Stepped(e, v) == Number(IF e.x = "--" THEN v.n - 1 ELSE v.n + 1)

\* The increment of a `for`: a postfix on a variable of the block adds 1 to what
\* is in the variable's slot, the box's address if it has a box; no other
\* expression is compiled.
emitForStmtInc(env, st, inc) ==
  LET here == env.scopes[Len(env.scopes)]
      n    == inc.es[1].x
  IN  IF inc.k # "postfix" \/ n \notin DOMAIN here THEN st
      ELSE IF here[n].boxed THEN Bad(st) ELSE Store(env, st, n, Number(loadLocalValue(env, st, n).n + 1))

\* Runs are cut off that have printed more than this.
MaxPrinted == 30

RECURSIVE Eval(_, _, _), EvalAll(_, _, _), Exec(_, _, _), ExecList(_, _, _), CallClosure(_, _, _, _), Turns(_, _, _), Over(_, _, _, _)

EvalAll(env, st, es) ==
  IF es = <<>> THEN [st |-> st, vs |-> <<>>]
  ELSE LET a == Eval(env, st, Head(es))
           r == EvalAll(env, a.st, Tail(es))
       IN  [st |-> r.st, vs |-> <<a.v>> \o r.vs]

emitCallExpr(env, st, e) ==
  LET callee == e.es[1]
      args   == Tail(e.es)
      lambda == Eval(env, st, callee)
      prints == callee.k = "name" /\ callee.x = "emit"
      a == EvalAll(env, IF prints THEN st ELSE lambda.st, args)
  IN  IF prints THEN [st |-> [a.st EXCEPT !.out = Append(@, a.vs[1].n)], v |-> Null]
      ELSE CallClosure(env.meant, a.st, lambda.v.c, a.vs)

Eval(env, st, e) ==
  LET a == EvalAll(env, st, e.es)
      old == loadLocalValue(env, a.st, e.es[1].x)
  IN  CASE e.k = "const"  -> [st |-> st, v |-> Number(e.x)]
        [] e.k = "name"   -> [st |-> Touch(env, st, e.x), v |-> loadLocalValue(env, st, e.x)]
        [] e.k = "assign" -> [st |-> Store(env, a.st, e.x, a.vs[1]), v |-> a.vs[1]]
        [] e.k \in {"postfix", "prefix"} ->
             [st |-> Store(env, a.st, e.es[1].x, Stepped(e, old)), v |-> IF e.k = "prefix" THEN Stepped(e, old) ELSE old]
        [] e.k = "lambda" -> emitLambdaExpr(env, st, e)
        [] e.k = "call"   -> emitCallExpr(env, st, e)
        [] e.k = "binary" /\ e.x = "<" -> [st |-> a.st, v |-> Number(IF a.vs[1].n < a.vs[2].n THEN 1 ELSE 0)]
        [] e.k = "grouping" -> [st |-> a.st, v |-> a.vs[1]]
        [] OTHER -> [st |-> a.st, v |-> Number(FoldLeft(AddTo, 0, a.vs))]

ExecList(env, st, stmts) ==
  IF stmts = <<>> THEN [env |-> env, st |-> st, v |-> Null, left |-> FALSE]
  ELSE LET r == Exec(env, st, Head(stmts)) IN IF r.left THEN r ELSE ExecList(r.env, r.st, Tail(stmts))

\* The list of a block, a function or a lambda, with its drops unless it has returned.
ExecAll(env, st, stmts) ==
  LET r == ExecList(env, st, stmts)
  IN  IF r.left THEN r ELSE [r EXCEPT !.st = compilerEmitDropForBlockVars(r.env, r.st, Len(r.env.scopes))]

ExecBlock(env, st, stmts) ==
  LET r == ExecAll([env EXCEPT !.scopes = Append(@, <<>>)], st, stmts) IN [r EXCEPT !.env.scopes = Front(@)]

Turns(env, st, s) ==
  LET c == Eval(env, st, s.es[1])
      r == ExecBlock(env, c.st, s.ss)
      i == IF Len(s.es) = 1 THEN r.st
           ELSE IF env.meant THEN Eval(r.env, r.st, s.es[2]).st ELSE emitForStmtInc(r.env, r.st, s.es[2])
  IN  IF ~Truth(c.v) THEN [env |-> env, st |-> c.st, v |-> Null, left |-> FALSE]
      ELSE IF r.left \/ i.bad \/ Len(i.out) > MaxPrinted THEN [r EXCEPT !.st = i] ELSE Turns(r.env, i, s)

Over(env, st, s, n) ==
  LET r == ExecBlock(env, Store(env, st, s.x, Number(n)), s.ss)
  IN  IF n = 3 THEN [env |-> env, st |-> st, v |-> Null, left |-> FALSE] ELSE IF r.left THEN r ELSE Over(r.env, r.st, s, n + 1)

Exec(env, st, s) ==
  LET a == EvalAll(env, st, s.es)
      Goes(e, t) == [env |-> e, st |-> t, v |-> Null, left |-> FALSE]
      Declares1(d) == Goes(d.env, d.st)
      v == a.vs[1]
  IN  CASE s.k \in {"var", "destructure"} -> Declares1(emitVarStmt(env, a.st, s.x, v))
        [] s.k = "expr"    -> Goes(env, a.st)
        [] s.k \in {"block", "unsafe"} -> ExecBlock(env, st, s.ss)
        [] s.k = "if"      -> IF Truth(v) THEN Exec(env, a.st, s.ss[1]) ELSE Exec(env, a.st, s.ss[2])
        [] s.k = "while"   -> Turns(env, st, s)
        [] s.k = "dowhile" -> LET r == ExecBlock(env, st, s.ss) IN IF r.left THEN r ELSE Turns(r.env, r.st, s)
        [] s.k = "for"     -> LET i == Exec(env, st, s.ss[1]) IN Turns(i.env, i.st, [s EXCEPT !.ss = Tail(@)])
        [] s.k = "forin"   -> LET d == defineLoopValue(env, a.st, s.x, Null) IN Over(d.env, d.st, s, 1)
        [] s.k = "return"  ->
             [env |-> env, v |-> v, left |-> TRUE,
              st |-> compilerEmitDropForCurrentFunctionScopes(env, moveOutOnReturnIfNeeded(env, a.st, s.es[1]))]

\* A function's or a lambda's parameters and body in a frame.
RunBody(env, st, params, args, body) ==
  LET bound == FoldLeft(LAMBDA d, i : BindParam(d.env, d.st, params[i], args[i]), [env |-> env, st |-> st],
                        [i \in DOMAIN params |-> i])
      r == ExecAll(bound.env, bound.st, body)
  IN  [st |-> Leave(r.env, r.st), v |-> r.v]

CallClosure(meant, st, c, args) ==
  IF c = 0 \/ st.bad THEN [st |-> Bad(st), v |-> Null]
  ELSE LET clo == st.clos[c]
       IN  RunBody(BodyFrame(meant, clo), IF clo.rc = 0 THEN Bad(st) ELSE st, clo.lambda.ps, args, clo.lambda.ss)

\* A caller that keeps a closure while it calls it, and drops it.
RECURSIVE Caller(_, _, _)
Caller(meant, st, c) ==
  LET once  == CallClosure(meant, st, c, <<Number(1)>>)
      twice == CallClosure(meant, Caller(meant, once.st, once.v.c), c, <<Number(2)>>)
      done  == Caller(meant, twice.st, twice.v.c)
  IN  IF c = 0 \/ st.bad THEN st ELSE IF meant THEN done ELSE DecEnv(done, c)

Run(f, arg, meant) ==
  LET r == RunBody(Frame(meant, FALSE, IF meant THEN {} ELSE BoxedLocals(f.ss)), Begin, f.ps, <<Number(arg)>>, f.ss)
  IN  Caller(meant, r.st, r.v.c)
=============================================================================
