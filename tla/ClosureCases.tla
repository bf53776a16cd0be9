---------------------------- MODULE ClosureCases ----------------------------
(***************************************************************************)
(* Functions with lambdas, compiled and as they are meant.  A function has *)
(* a parameter p and a variable x; its lambdas, with a parameter each, use *)
(* both, under every kind of expression and statement that may stand       *)
(* between, and may be called in it, dropped in it or returned.            *)
(***************************************************************************)
EXTENDS Integers, Sequences

VARIABLE case

G == INSTANCE Closures

Idle == [algorithm |-> "none"]

-----------------------------------------------------------------------------
(* The tree.                                                               *)

Of(k, es)        == G!Node(k, "", es, <<>>, <<>>)
Stmt(k, es, ss)  == G!Node(k, "", es, ss, <<>>)
Const(n)         == G!Node("const", n, <<>>, <<>>, <<>>)
Name(x)          == G!Node("name", x, <<>>, <<>>, <<>>)
Assign(x, e)     == G!Node("assign", x, <<e>>, <<>>, <<>>)
Less(a, b)       == G!Node("binary", "<", <<a, b>>, <<>>, <<>>)
Plus(a, b)       == G!Node("binary", "+", <<a, b>>, <<>>, <<>>)
Add(x, e)        == Assign(x, Plus(Name(x), e))
Call(f, e)       == Of("call", <<f, e>>)
Emit(e)          == Of("expr", <<Call(Name("emit"), e)>>)
Lambda(a, body)  == G!Node("lambda", "", <<>>, body, <<a>>)
Var(x, e)        == G!Node("var", x, <<e>>, <<>>, <<>>)
Do(e)            == Of("expr", <<e>>)
Return(e)        == Of("return", <<e>>)
Block(ss)        == Stmt("block", <<>>, ss)

\* An expression in one of each kind.
Wraps == {"none", "binary", "unary", "grouping", "call", "assign", "get", "set", "map", "index", "indexset"}
\* Names may stand in a struct initialiser, lambdas in an array or a guard too.
WrapExpr(k, e) ==
  CASE k = "none"   -> e
    [] k = "call"   -> Call(Name("emit"), e)
    [] k = "assign" -> Assign("t", e)
    [] k \in {"binary", "set", "map", "index"} -> Of(k, <<Const(0), e>>)
    [] k = "indexset" -> Of(k, <<Const(0), Const(0), e>>)
    [] OTHER -> Of(k, <<e>>)

\* The statement s inside one of each kind; n names what that declares.
Blocks == {"none", "block", "unsafe", "then", "else", "body", "each", "while", "dowhile"}
Within(k, s, n) ==
  LET once == Less(Name(n), Const(1))
  IN  CASE k = "none"     -> <<s>>
        [] k = "block"    -> <<Block(<<Var(n, Const(0)), s, Do(Add(n, Const(1)))>>)>>
        [] k = "unsafe"   -> <<Stmt("unsafe", <<>>, <<s>>)>>
        [] k = "then"     -> <<Stmt("if", <<Const(1)>>, <<Block(<<s>>), Block(<<>>)>>)>>
        [] k = "else"     -> <<Stmt("if", <<Const(0)>>, <<Block(<<>>), Block(<<s>>)>>)>>
        [] k = "body"     -> <<Stmt("for", <<once>>, <<Var(n, Const(-1)), s, Do(Of("postfix", <<Name(n)>>))>>)>>
        [] k = "each"     -> <<G!Node("forin", n, <<Const(0)>>, <<s, Emit(Name(n))>>, <<>>)>>
        [] k = "while"    -> <<Var(n, Const(-1)), Stmt("while", <<once>>, <<s, Do(Of("prefix", <<Name(n)>>))>>)>>
        [] k = "dowhile"  -> <<Stmt("dowhile", <<Const(0)>>, <<s, Emit(Const(72))>>)>>

\* A statement that evaluates e, in one of each kind.
Places == (Blocks \ {"unsafe"}) \cup {"var", "destructure", "ifcond", "init", "cond", "in", "whilecond", "until", "return"}
Place(k, e, n) ==
  CASE k \in Blocks       -> Within(k, Do(e), n)
    [] k = "var"          -> <<Var(n, e)>>
    [] k = "destructure"  -> <<G!Node("destructure", n, <<e>>, <<>>, <<>>)>>
    [] k = "ifcond"       -> <<Stmt("if", <<e>>, <<Block(<<Emit(Const(70))>>), Block(<<>>)>>)>>
    [] k = "init"         -> <<Stmt("for", <<Const(0)>>, <<Var(n, e)>>)>>
    [] k = "cond"         -> <<Stmt("for", <<Less(e, Const(9))>>, <<Var(n, Const(0)), Return(Const(7))>>)>>
    [] k = "in"           -> <<G!Node("forin", n, <<e>>, <<Emit(Name(n))>>, <<>>)>>
    [] k = "whilecond"    -> <<Stmt("while", <<Less(e, Const(4))>>, <<Return(Const(7))>>)>>
    [] k = "until"        -> <<Stmt("dowhile", <<Less(Const(999), e)>>, <<Emit(Const(71))>>)>>
    [] k = "return"       -> <<Return(e)>>

-----------------------------------------------------------------------------
(* The functions.                                                          *)

X == Name("x")
P == Name("p")
B == Name("b")

\* What a lambda with parameter a may do with the variables around it.
Uses(a) == { X, P, Add("x", Name(a)), Assign("x", P), Of("postfix", <<P>>), Of("prefix", <<X>>) }

\* A lambda that is called where it stands.
Now(use) == Call(Lambda("b", <<Do(use), Emit(Plus(X, B)), Return(Plus(P, B))>>), Const(3))

\* What a lambda does besides its statement: a nested lambda with a name of its
\* own, that uses x, p and the parameter a, called twice.
Nested == <<Var("h", Lambda("c", <<Do(Add("x", Name("c"))), Do(Add("a", P)), Return(Name("a"))>>)),
            Emit(Call(Name("h"), Const(2))), Emit(Call(Name("h"), Const(4)))>>

Function(rest) == [ps |-> <<"p">>, ss |-> <<Var("t", Const(0)), Var("x", Const(5))>> \o rest]

G1 == Call(Name("g"), Const(1))
EmitBoth == Emit(Plus(X, P))

\* A loop over n, which its body prints.
For(n, inc, s) == Stmt("for", <<Less(Name(n), Const(2)), inc>>, <<Var(n, Const(0)), Emit(Name(n)), s>>)
PlusPlus(n)    == G!Node("postfix", "++", <<Name(n)>>, <<>>, <<>>)

\* What the function does with its closure g.
Middles ==
  { <<>>, <<For("n", PlusPlus("n"), Do(G1))>>, <<Do(Assign("x", Const(20))), Emit(G1), EmitBoth>>,
    <<Var("k", Lambda("d", <<Do(Add("x", Name("d"))), Emit(X)>>)), Do(G1), Do(Call(Name("k"), Const(8))), Emit(G1)>>,
    <<Block(<<Var("x", Const(50)), Var("k", Lambda("d", <<Do(Add("x", Name("d"))), Return(X)>>)), Emit(Call(Name("k"), Const(8))),
              Emit(G1), Emit(X)>>), EmitBoth>>,
    <<Var("i", Const(0)),
      Stmt("while", <<Less(Name("i"), Const(2))>>,
           <<Var("y", Name("i")), Var("k", Lambda("d", <<Do(Add("y", Name("d"))), Return(Name("y"))>>)),
             Emit(Call(Name("k"), X)), Do(Add("i", Const(1)))>>)>>,
    <<Var("k", Lambda("d", <<Emit(G1), Return(Call(Name("g"), Name("d")))>>)), Emit(Call(Name("k"), Const(6)))>> }
\* Lambdas that hide the function's x with one of their own.
Hiding == {Lambda("x", <<Do(Add("x", P)), Return(X)>>)}
          \cup {Lambda("d", Place(k, Name("d"), "x") \o <<Emit(X)>>) : k \in {"var", "destructure", "init", "each"}}
Ends ==
  { <<>>, <<EmitBoth>>, <<Return(X)>>, <<Return(Name("g"))>>,
    <<Stmt("if", <<P>>, <<Block(<<Var("z", X), Return(Name("g"))>>), Block(<<>>)>>), EmitBoth>>,
    <<Return(Lambda("d", <<Do(Add("x", Name("d"))), Emit(X), Return(Call(Name("g"), Name("d")))>>))>>,
    <<Return(Lambda("d", <<Do(Add("p", Name("d"))), Return(Lambda("c", <<Return(Plus(P, Name("d")))>>))>>))>> }

PickProgram ==
  /\ case = Idle
  /\ \E arg \in {0, 1} :
       \* One lambda, its uses under every kind, in it or in a lambda in it.
       \/ \E use \in Uses("a") \cup {Now(u) : u \in Uses("b")}, w \in Wraps \cup {"structinit", "array"}, at \in Places :
            /\ arg = 1 /\ (w = "array" => use \notin Uses("a"))
            /\ case' = [algorithm |-> "closures", arg |-> arg,
                        f |-> Function(<<Var("g", Lambda("a", Place(at, WrapExpr(w, use), "n"))), Do(G1), EmitBoth, Return(Name("g"))>>)]
       \* Lambdas under every kind in a function.
       \/ \E use \in Uses("b"), w \in Wraps \cup {"array", "guard"}, at \in Places \cup {"unsafe"} :
            /\ arg = 1
            /\ case' = [algorithm |-> "closures", arg |-> arg, f |-> Function(Place(at, WrapExpr(w, Now(use)), "n") \o <<EmitBoth>>)]
       \* A lambda that the function returns, from a statement of each kind.
       \/ \E use \in Uses("b"), w \in {"none", "grouping", "call"}, at \in Blocks :
            LET made == Lambda("b", <<Do(use), Return(B)>>)
                e == IF w = "call" THEN Call(Lambda("c", <<Return(made)>>), Const(6)) ELSE WrapExpr(w, made)
            IN  case' = [algorithm |-> "closures", arg |-> arg, f |-> Function(Within(at, Return(e), "n") \o <<EmitBoth>>)]
       \* A name that a lambda has for itself.
       \/ \E l \in Hiding :
            case' = [algorithm |-> "closures", arg |-> arg,
                     f |-> Function(<<Var("k", l), Emit(Call(Name("k"), Const(9))), EmitBoth, Return(Name("k"))>>)]
       \* What becomes of closures.
       \/ \E use \in Uses("a"), nested \in {<<>>, Nested}, middle \in Middles, end \in Ends :
            case' = [algorithm |-> "closures", arg |-> arg,
                     f |-> Function(<<Var("g", Lambda("a", <<Do(use)>> \o nested \o <<Return(Plus(X, Name("a")))>>))>> \o middle \o end)]

-----------------------------------------------------------------------------
\* Whether a lambda is called where it stands, which leaks its environment.
CalledAtOnce(f) == \E n \in G!WalkTree(f.ss) : n.k = "call" /\ n.es[1].k = "lambda"

\* Loops whose counter is in a box, or that count in other ways than `n++`.
PickLoop ==
  /\ case = Idle
  /\ \E inc \in {PlusPlus("n"), G!Node("postfix", "--", <<Name("n")>>, <<>>, <<>>), Add("n", Const(1))},
        s \in {Block(<<>>), Var("g", Lambda("a", <<Return(Name("n"))>>))}, inside \in BOOLEAN :
       case' = [algorithm |-> "closures", arg |-> 0,
                f |-> Function(IF inside THEN <<Do(Call(Lambda("b", <<For("n", inc, s)>>), Const(0)))>> ELSE <<For("n", inc, s)>>)]

RunsAlikeOn(c) ==
  c.algorithm = "closures" =>
    LET run  == G!Run(c.f, c.arg, FALSE)
        live == {i \in DOMAIN run.cells : run.cells[i].rc > 0} \cup {i \in DOMAIN run.clos : run.clos[i].rc > 0}
    IN  /\ ~run.bad
        /\ run.out = G!Run(c.f, c.arg, TRUE).out
        /\ live # {} => CalledAtOnce(c.f)

LoopsSpec == case = Idle /\ [][PickLoop]_case

\* A `for` loop, in a lambda too and with a lambda in it, counts as its
\* increment says (the language's document on i++, i-- and on for).
LoopsCount == [][\A c \in {case'} : RunsAlikeOn(c)]_case
=============================================================================
