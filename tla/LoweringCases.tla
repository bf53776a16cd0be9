--------------------------- MODULE LoweringCases ----------------------------
(***************************************************************************)
(* What Lowering's blocks do when they run, what the statements they were  *)
(* compiled from mean, and small programs for which the two must agree.    *)
(*                                                                         *)
(* Both runs are given the results of the calls, in the order in which     *)
(* they happen (FALSE when these have run out), and both leave a trace of  *)
(* the events a program could tell: calls, increments, elements bound,     *)
(* variables dropped, and the result.  A run is cut off when its trace has *)
(* TraceLength events.                                                     *)
(***************************************************************************)
EXTENDS Integers, Sequences, FiniteSets, SequencesExt

CONSTANTS ParamCount, ElementCount, TraceLength

VARIABLE case

G == INSTANCE Lowering

Idle == [algorithm |-> "none"]
Null == G!Null

-----------------------------------------------------------------------------
(* What happens in either run: m is the state of the machine, with its     *)
(* trace, the number of calls made, the parameters, and the variables that *)
(* hold something.                                                         *)

Start == [trace |-> <<>>, calls |-> 0, params |-> [i \in 1 .. ParamCount |-> i = 1], held |-> {}]

Note(m, event) == [m EXCEPT !.trace = Append(@, event)]
Full(m) == Len(m.trace) >= TraceLength
\* Call 0 has no result anybody looks at.
Calls(m, n) == [Note(m, <<"call", n>>) EXCEPT !.calls = IF n = 0 THEN @ ELSE @ + 1]
Answer(answers, m, n) == n # 0 /\ m.calls + 1 \in DOMAIN answers /\ answers[m.calls + 1]
Holds(m, x) == [m EXCEPT !.held = @ \cup {x}]
Drops(m, x) == IF x \in m.held THEN [Note(m, <<"drop", x>>) EXCEPT !.held = @ \ {x}] ELSE m

-----------------------------------------------------------------------------
(* The blocks: regs and idx hold the registers and the loops' indexes.      *)

Value(k, v) == IF v[1] = "reg" THEN k.regs[v[2]] ELSE v[2]

Put(f, i, v) == [j \in DOMAIN f \cup {i} |-> IF j = i THEN v ELSE f[j]]

\* One instruction, in block k.at, entered from block k.from.
Step(k, i, answers) ==
  LET Sets(n, v) == [k EXCEPT !.regs = Put(@, n, v)]
  IN  CASE i[1] = "call"  -> [Sets(i[3], Answer(answers, k.m, i[2])) EXCEPT !.m = Calls(@, i[2])]
        [] i[1] = "param" -> Sets(i[3], k.m.params[i[2]])
        [] i[1] = "phi"   -> LET arms == {a \in {i[2], i[3]} : a[2] = k.from}
                             IN  Sets(i[4], Value(k, (CHOOSE a \in arms : TRUE)[1]))
        [] i[1] = "index" -> [k EXCEPT !.idx = Put(@, i[2], 0)]
        [] i[1] = "next"  -> [Sets(i[3], k.idx[i[2]] < ElementCount) EXCEPT !.idx[i[2]] = @ + 1]
        [] i[1] = "less"  -> Sets(i[3], k.idx[i[2]] < ElementCount)
        [] i[1] = "advance" -> [k EXCEPT !.idx[i[2]] = @ + 1]
        [] i[1] = "element" -> [k EXCEPT !.m = Note(@, <<"element", k.idx[i[2]] + i[3]>>)]
        [] i[1] = "increment" -> [k EXCEPT !.m = Note(@, <<"increment">>)]
        [] i[1] = "store" -> [k EXCEPT !.m.params[i[2]] = Value(k, i[3])]
        [] i[1] = "init"  -> [k EXCEPT !.m = Holds(@, i[2])]
        [] i[1] = "drop"  -> [k EXCEPT !.m = Drops(@, i[2])]

RECURSIVE RunBlock(_, _, _)
RunBlock(blocks, k, answers) ==
  LET Next1(acc, i) == Step(acc, i, answers)
      done == FoldLeft(Next1, k, blocks[k.at].code)
      end == blocks[k.at].ends[1]
      To(b) == RunBlock(blocks, [done EXCEPT !.from = k.at, !.at = b], answers)
  IN  CASE end[1] = "ret" -> Note(done.m, <<"ret", Value(done, end[2])>>).trace
        [] end[1] = "unreachable" -> Note(done.m, <<"unreachable">>).trace
        [] Full(done.m) -> done.m.trace
        [] end[1] = "br"   -> To(end[2])
        [] end[1] = "cond" -> To(IF Value(done, end[2]) THEN end[3] ELSE end[4])

Run(s, answers) == RunBlock(s.blocks, [m |-> Start, at |-> 1, from |-> 0, regs |-> <<>>, idx |-> <<>>], answers)

\* Every block ends once, every label jumped to is there, and a phi has one arm
\* for each block that leads to its own.
WellFormed(s) ==
  LET Targets(b) == LET e == s.blocks[b].ends[1]
                    IN  IF e[1] = "br" THEN {e[2]} ELSE IF e[1] = "cond" THEN {e[3], e[4]} ELSE {}
  IN  /\ ~s.err /\ s.loops = <<>>
      /\ \A b \in DOMAIN s.blocks : Len(s.blocks[b].ends) = 1
      /\ \A b \in DOMAIN s.blocks : \A j \in DOMAIN s.blocks[b].code :
           LET i == s.blocks[b].code[j]
           IN  i[1] = "phi" => /\ j = 1 /\ i[2][2] # i[3][2]
                               /\ {i[2][2], i[3][2]} = {a \in DOMAIN s.blocks : b \in Targets(a)}

-----------------------------------------------------------------------------
(* The meaning of the statements: what a statement leaves is [m, sig, v],  *)
(* with sig one of these, a goto, a return or a call of the function.      *)

Next == <<"next">>
Break == <<"break">>
Continue == <<"continue">>
Cut == <<"cut">>

Out(m, sig) == [m |-> m, sig |-> IF Full(m) THEN Cut ELSE sig, v |-> FALSE]
Val(m, v) == [m |-> m, sig |-> IF Full(m) THEN Cut ELSE Next, v |-> v]

RECURSIVE Eval(_, _, _), Exec(_, _, _), ExecFrom(_, _, _, _), Turns(_, _, _, _), Over(_, _, _, _)

\* An expression: [m, v, sig], sig being other than Next when a guard's block
\* has left.
Eval(m, e, answers) ==
  CASE e[1] = "call"  -> Val(Calls(m, e[2]), Answer(answers, m, e[2]))
    [] e[1] = "param" -> Val(m, m.params[e[2]])
    [] e[1] = "binary" ->
         LET a == Eval(m, e[3], answers)
         IN  IF a.sig # Next \/ a.v = (e[2] # "&&") THEN a ELSE Eval(a.m, e[4], answers)
    [] e[1] = "guard" ->
         LET a == Eval(m, e[2], answers)
         IN  IF a.sig # Next THEN a ELSE IF a.v THEN Exec(a.m, <<"block", e[3]>>, answers) ELSE Val(a.m, TRUE)

\* The variables a list of statements declares, in order.
Declared(stmts) == LET vars == SelectSeq(stmts, LAMBDA t : t[1] = "var") IN [i \in DOMAIN vars |-> vars[i][2]]
Position(stmts, name) == {i \in DOMAIN stmts : stmts[i] = <<"label", name>>}

\* The list from its i-th statement on.  The variables it has declared are
\* dropped wherever it is left: at its end, by a return and by a jump; a jump to
\* one of its own labels goes on there.
ExecFrom(m, stmts, i, answers) ==
  IF i > Len(stmts) THEN Out(FoldLeft(Drops, m, Declared(stmts)), Next)
  ELSE LET r == Exec(m, stmts[i], answers)
           there == IF r.sig[1] = "goto" THEN Position(stmts, r.sig[2]) ELSE {}
       IN  CASE r.sig = Next -> ExecFrom(r.m, stmts, i + 1, answers)
             [] there # {} -> ExecFrom(r.m, stmts, CHOOSE j \in there : TRUE, answers)
             [] r.sig = Cut -> r
             [] OTHER -> [r EXCEPT !.m = FoldLeft(Drops, r.m, Declared(SubSeq(stmts, 1, i - 1)))]

\* A loop from its test, or from its body when the body comes first.
Turns(m, t, first, answers) ==
  LET c == IF first \/ t.cond = Null THEN Val(m, TRUE) ELSE Eval(m, t.cond, answers)
      r == Exec(c.m, t.body, answers)
      again == IF t.inc = Null THEN r.m ELSE Note(r.m, <<"increment">>)
  IN  IF c.sig # Next THEN c
      ELSE IF ~c.v THEN Out(c.m, Next)
      ELSE CASE r.sig = Break -> Out(r.m, Next)
             [] r.sig \in {Next, Continue} -> IF Full(again) THEN Out(again, Cut) ELSE Turns(again, t, FALSE, answers)
             [] OTHER -> r

\* A loop over the elements from the i-th on.
Over(m, body, i, answers) ==
  LET r == Exec(Note(m, <<"element", i>>), body, answers)
  IN  IF i = ElementCount THEN Out(m, Next)
      ELSE CASE r.sig = Break -> Out(r.m, Next)
             [] r.sig \in {Next, Continue} -> IF Full(r.m) THEN Out(r.m, Cut) ELSE Over(r.m, body, i + 1, answers)
             [] OTHER -> r

Exec(m, t, answers) ==
  LET c == Eval(m, IF t[1] = "if" THEN t[2] ELSE t[3], answers)
      Branch(b) == IF b = Null THEN Out(c.m, Next) ELSE Exec(c.m, b, answers)
  IN CASE t[1] = "block" -> ExecFrom(m, t[2], 1, answers)
    [] t[1] = "expr" -> Eval(m, t[2], answers)
    [] t[1] = "if" -> IF c.sig # Next THEN c ELSE Branch(IF c.v THEN t[3] ELSE t[4])
    [] t[1] = "iflet" ->
         LET held == ExecFrom(Holds(c.m, t[2]), <<<<"var", t[2], Null>>, t[4]>>, 2, answers)
         IN  IF c.sig # Next THEN c ELSE IF c.v THEN held ELSE Branch(t[5])
    [] t[1] = "var" -> IF c.sig # Next THEN c ELSE Out(Holds(c.m, t[2]), Next)
    [] t[1] = "while" -> Turns(m, [cond |-> t[2], inc |-> Null, body |-> t[3]], FALSE, answers)
    [] t[1] = "dowhile" -> Turns(m, [cond |-> t[3], inc |-> Null, body |-> t[2]], TRUE, answers)
    [] t[1] = "for" ->
         LET init == IF t[2] = Null THEN Val(m, TRUE) ELSE Eval(m, t[2], answers)
         IN  IF init.sig # Next THEN init
             ELSE Turns(init.m, [cond |-> t[3], inc |-> t[4], body |-> t[5]], FALSE, answers)
    [] t[1] = "forin" -> Over(m, t[3], 0, answers)
    [] t[1] = "break" -> Out(m, Break)
    [] t[1] = "continue" -> Out(m, Continue)
    [] t[1] = "goto" -> Out(m, t)
    [] t[1] = "label" -> Out(m, Next)
    [] t[1] = "return" /\ t[2][1] = "self" -> Out(m, <<"again", t[2][2]>>)
    [] t[1] = "return" -> LET v == IF t[2] = Null THEN Val(m, FALSE) ELSE Eval(m, t[2], answers)
                          IN  IF v.sig # Next THEN v ELSE Out(v.m, <<"return", v.v>>)
\* The arguments of a tail call, left to right: [m, vs].
Argument(acc, e, answers) == LET r == Eval(acc.m, e, answers) IN [m |-> r.m, vs |-> Append(acc.vs, r.v)]

\* A call of the function itself in a return is a call: with parameters of its
\* own, and its result is the result.
RECURSIVE Function(_, _, _)
Function(m, body, answers) ==
  LET r == ExecFrom(m, body, 1, answers)
      Add(acc, e) == Argument(acc, e, answers)
      args == FoldLeft(Add, [m |-> r.m, vs |-> <<>>], r.sig[2])
  IN  CASE r.sig = Next -> Note(r.m, <<"ret", FALSE>>).trace
        [] r.sig[1] = "return" -> Note(r.m, <<"ret", r.sig[2]>>).trace
        [] r.sig[1] = "again" -> IF Full(args.m) THEN args.m.trace
                                 ELSE Function([args.m EXCEPT !.params = args.vs], body, answers)
        [] OTHER -> r.m.trace

-----------------------------------------------------------------------------
(* Programs: the exits of a loop, in the statements that can hold one, in  *)
(* every kind of loop, alone and in another loop; jumps back; and functions *)
(* that call themselves.  No label stands right after a jump, no goto      *)
(* passes a declaration or enters a block, no jump leaves a block that has *)
(* declared a variable by then, and a function that calls itself declares  *)
(* nothing: see the README for what happens then.                          *)

Ask(n) == <<"call", n>>
Act == <<"expr", Ask(0)>>
Block(stmts) == <<"block", stmts>>
If(c, t) == <<"if", c, t, Null>>
Both(op, a, b) == <<"binary", op, a, b>>

Conditions ==
  {Ask(1), Both("&&", Ask(1), Ask(2)), Both("||", Both("&&", Ask(1), Ask(2)), Ask(3)),
   Both("&&", Ask(1), Both("??", Ask(2), Ask(3))), Both("??", Ask(1), Both("||", Ask(2), Ask(3))),
   Both("&&", Ask(1), <<"guard", Ask(2), <<Act, <<"return", Ask(3)>>>>>>)}

Jumps == {<<"break">>, <<"continue">>, <<"goto", "out">>}
Returns == {<<"return", Null>>, <<"return", Both("&&", Ask(4), Ask(5))>>}
Exits == Jumps \cup Returns

Var(name) == <<"var", name, Ask(0)>>

Holding(l) ==
  {If(Ask(6), l), <<"if", Ask(6), Act, l>>, <<"if", Ask(6), Block(<<l, Var("y")>>), Act>>,
   <<"if", Ask(6), l, If(Ask(7), Act)>>, <<"iflet", "y", Ask(6), Act, l>>,
   <<"expr", <<"guard", Ask(6), <<Act, l>>>>>>, <<"var", "z", <<"guard", Ask(6), <<l>>>>>>}
HoldingReturn(l) ==
  Holding(l) \cup {<<"if", Ask(6), Block(<<Var("y"), l>>), Act>>, <<"iflet", "y", Ask(6), l, Null>>}

Loops(c, b) ==
  {<<"while", c, b>>, <<"dowhile", b, c>>, <<"for", Null, c, <<"postfix", "++", "i">>, b>>, <<"forin", "map", b>>,
   <<"forin", "array", b>>}

After(l) == <<l, Act, <<"label", "out">>, <<"return", Ask(8)>>>>

Single ==
  UNION { {<<Var("w")>> \o After(l) : l \in Loops(Ask(1), Block(b))}
          : b \in {<<h, Var("x"), Act>> : h \in UNION {Holding(e) : e \in Jumps}} \cup
                  {<<Var("x"), h, Act>> : h \in UNION {HoldingReturn(e) : e \in Returns}} }
  \cup UNION { {After(l) : l \in Loops(c, If(Ask(6), <<"break">>)) \cup {<<"for", Ask(0), Null, <<"postfix", "++", "i">>, Block(<<If(c, <<"break">>)>>)>>}}
               : c \in Conditions }
Nested ==
  UNION { UNION { {After(l) : l \in Loops(Ask(1), Block(<<i, If(Ask(9), e), Act>>))}
                  : i \in Loops(Ask(2), Block(<<If(Ask(6), f), Act>>)) }
          : e \in {Act, <<"break">>}, f \in Exits }
Backward ==
  { <<<<"label", "again">>, Act, <<"if", c, Block(<<Act, <<"goto", "again">>, Act>>), Act>>>> : c \in Conditions }
  \cup { <<Act, <<"label", "again">>, <<"label", "then">>, l, Act>> :
          l \in Loops(Ask(1), Block(<<If(Ask(2), <<"goto", "again">>), If(Ask(3), <<"goto", "then">>), Var("x")>>)) }
Calling ==
  UNION { { <<If(<<"param", 1>>, Act), l, <<"return", <<"self", <<Ask(5), <<"param", 1>>>>>>>> >>,
            <<l, If(<<"param", 2>>, Act), If(Ask(4), <<"return", <<"self", <<<<"param", 2>>, <<"param", 1>>>>>>>>), <<"return", <<"param", 1>>>>>> }
          : l \in {If(Ask(1), <<"return", Ask(2)>>)} \cup
                   Loops(Ask(1), If(Both("||", Ask(2), <<"param", 1>>), <<"return", <<"self", <<<<"param", 2>>, Ask(3)>>>>>>)) }

Programs == Single \cup Nested \cup Backward \cup Calling

PickProgram == case = Idle /\ \E p \in Programs : case' = [algorithm |-> "lower", body |-> p]

Longest(trace) == IF Len(trace) > TraceLength THEN SubSeq(trace, 1, TraceLength) ELSE trace

RunsAlikeOn(c) ==
  c.algorithm = "lower" =>
    LET s == G!compileFuncStmt(c.body)
    IN  /\ WellFormed(s)
        /\ \A answers \in [1 .. 4 -> BOOLEAN] :
             LET ran == Longest(Run(s, answers))
                 meant == Longest(Function(Start, c.body, answers))
             IN  ran = meant
=============================================================================
