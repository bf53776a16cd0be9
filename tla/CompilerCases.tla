--------------------------- MODULE CompilerCases ---------------------------
(***************************************************************************)
(* The compiler's pure algorithms, one input at a time: from an idle state *)
(* each action picks an input of one algorithm, and the invariants say     *)
(* what the algorithm's result must be.                                    *)
(***************************************************************************)
EXTENDS Integers, Sequences, FiniteSets, TLC

CONSTANTS Width, Mantissa, NaN

C == INSTANCE Conversions
S == INSTANCE SourceText

\* i32 and i64 are powers of two wide, so that a shift's mask is one; a double
\* holds every i32 exactly and not every i64.
ASSUME WidthsAssumption ==
  /\ Width \in [C!IntTypes -> Nat] /\ Mantissa \in [C!FloatTypes -> Nat]
  /\ Width["i1"] = 1 /\ 1 < Width["i8"] /\ Width["i8"] < Width["i16"]
  /\ Width["i16"] < Width["i32"] /\ Width["i32"] < Width["i64"]
  /\ Mantissa["float"] < Width["i32"] /\ Width["i32"] < Mantissa["double"]
  /\ Mantissa["double"] < Width["i64"]
  /\ NaN \in Int /\ NaN < -(2 ^ (Width["i64"] + 2))

VARIABLE case

X == INSTANCE LexerCases

Idle == [algorithm |-> "none"]

Init == case = Idle

-----------------------------------------------------------------------------
(* Numbers *)

\* The values of a kind at which something can go wrong: around zero, the sign
\* bit, the last value, the mantissas' ends and the bounds of the casts.
Values(k) ==
  LET ty == C!llvmNumericTypeFromKind(k)
  IN  CASE k = "bool" -> {0, 1}
        [] k \in C!IntKinds \cup C!Fp8Kinds ->
             LET w == Width[ty] IN
             {0, 1, 3, 2 ^ (w - 1) - 1, 2 ^ (w - 1), 2 ^ (w - 1) + 1, 2 ^ w - 1} \cap 0 .. 2 ^ w - 1
        [] k \in C!FloatKinds ->
             LET h == {0, 1, 3, 5} \cup UNION { {2 ^ b - 2, 2 ^ b, 2 ^ b + 2} : b \in {Width[t] : t \in {"i8", "i16", "i32", "i64"}} }
             IN  {n \in h \cup {-x : x \in h} : C!Round(n, Mantissa[ty]) = n} \cup {NaN}

Of(k, x) == C!Val(C!llvmNumericTypeFromKind(k), x)

PickBinary ==
  /\ case = Idle
  /\ \E op \in C!Ops, lk, rk \in C!NumericKinds :
       /\ C!inferBinary(op, lk, rk) # C!Rejected
       /\ \E x \in Values(lk), y \in Values(rk) :
            case' = [algorithm |-> "binary", operator |-> op, lk |-> lk, rk |-> rk, x |-> x, y |-> y]

PickCast ==
  /\ case = Idle
  /\ \E sk, dk \in C!NumericKinds : \E x \in Values(sk) :
       case' = [algorithm |-> "cast", sk |-> sk, dk |-> dk, x |-> x]

PickSite ==
  /\ case = Idle
  /\ \E site \in C!Sites, sk, dk \in C!NumericKinds \cup {"any"}:
       /\ C!atAssignable(dk, sk)
       /\ \E k \in IF sk = "any" THEN C!NumericKinds ELSE {sk} :
          \E x \in Values(k) :
            case' = [algorithm |-> "site", site |-> site, sk |-> sk, dk |-> dk, k |-> k, x |-> x]


-----------------------------------------------------------------------------
(* Programs, as trees *)

None     == S!P!Null
Id       == <<"variable", "id">>
Call     == <<"call", Id, <<>>, <<>>>>
IntType  == <<"int">>
Struct   == <<"named", "Id", <<>>>>

\* The expressions one step larger than those of es.
Larger(es, ops) ==
  {<<"binary", o, a, b>> : o \in ops, a \in es, b \in es}
  \cup {<<"unary", o, e>> : o \in {"-", "&", "move"}, e \in es}
  \cup UNION { { <<"postfix", "++", e>>, <<"cast", e, IntType>>, <<"convert", e, IntType>>, <<"call", e, <<>>, <<>>>>,
                 <<"call", Id, <<Struct, IntType>>, <<e, Id>>>>, <<"get", e, "id">>, <<"index", e, Id>>,
                 <<"index", Id, e>>, <<"list", <<e, Id>>>>, <<"map", <<<<"int", e>>, <<"str", Id>>>>>>,
                 <<"struct", <<"variable", "Id">>, <<<<"id", e>>>>>> } : e \in es }

\* Apart, because `a < b > (c)` is read as a call with type arguments.
OperatorSets == { {"??", "||", "&&", "|", "^", "&", "==", "<", "<<", "+", "*"}, {"!=", ">", ">>", "-"} }

ExpressionTrees(ops) == Larger({Id, <<"literal", "long">>, <<"brace">>} \cup Larger({Id}, ops), ops)

LargerTypes(ts) ==
  UNION { { <<"ref", t>>, <<"array", t>>, <<"named", "Id", <<t>>>>, <<"named", "id", <<t, IntType>>>>,
            <<"fn", <<t>>, <<IntType>>>>, <<"fn", <<>>, <<t>>>>, <<"fn", <<IntType>>, <<t, t>>>> } : t \in ts }
SmallTypes == {IntType, <<"ptr">>, Struct, <<"fixed", IntType>>}

Var(type, value) == <<"var", FALSE, "id", type, value>>
Block(s)   == <<"block", <<s>>>>
Method(t)  == <<"fn", "id", <<>>, <<<<"const", "id", t>>, <<"move", "id", None>>>>, <<t, IntType>>, <<>>>>
Leave      == <<"return", <<Id>>>>

Statements ==
  { <<"expr", Call>>, Leave, <<"return", <<>>>>, <<"break">>, <<"goto", "id">>, <<"label", "id">>, Var(IntType, Id),
    <<"var", TRUE, "id", None, Id>>, <<"destructure", "var", <<<<"id", None>>, <<"id", IntType>>>>, Call>>,
    <<"destructure", "none", <<"id", "id">>, Call>>, <<"expr", <<"assign", "id", Call>>>>,
    <<"expr", <<"set", Id, "id", Id>>>>, <<"expr", <<"indexset", Id, Id, Id>>>>,
    Var(None, <<"lambda", <<<<"var", "id", None>>>>, <<IntType>>, <<Leave>>>>), Var(None, <<"guard", Call, Block(Leave)>>) }

LargerStatements(ss) ==
  UNION { { Block(s), <<"unsafe", Block(s)>>, <<"if", Id, Block(s), None>>, <<"if", Id, Block(s), Block(s)>>,
            <<"if", Id, Block(s), <<"if", Id, Block(s), None>>>>, <<"iflet", "id", Call, Block(s), None>>,
            <<"while", Id, Block(s)>>, <<"dowhile", Block(s), Id>>, <<"forin", "id", "none", Id, Block(s)>>,
            <<"forin", "id", "id", Id, Block(s)>>, <<"for", Var(None, Id), Id, <<"postfix", "++", Id>>, Block(s)>>,
            Var(None, <<"lambda", <<>>, <<>>, <<s>>>>) } : s \in ss }

Declarations(t) ==
  { Method(t), <<"private", Method(t)>>, <<"fn", "id", <<<<"Id", "none">>, <<"Id", "id">>>>, <<>>, <<>>, <<Leave>>>>,
    <<"extern", "id", <<<<"const", "id", t>>>>, <<t>>, "id">>,
    <<"structdecl", "Id", << <<"field", TRUE, "id", t, None>>, <<"field", FALSE, "id", IntType, Id>>,
                             <<"embedded", Struct, "id">>, Method(t), <<"fn", "init", <<>>, <<>>, <<>>, <<Leave>>>> >>>>,
    <<"impl", <<<<"Id", "none">>>>, <<"named", "Id", <<t>>>>, <<Method(t)>>>>,
    <<"traitimpl", Struct, "Id", <<Method(t)>>>>, <<"trait", "Id", <<<<"method", "id", <<<<"const", "id", t>>>>, <<t>>>>>>>>,
    <<"object", "Id", <<Method(t)>>>>, <<"enum", "Id", <<<<"id", "none">>, <<"id", "int">>, <<"id", "str">>>>>>,
    <<"import", "id">>, <<"fromimport", <<<<"id", "id">>, <<"id", "none">>>>>> }

PickTree(trees) == case = Idle /\ \E t \in trees : case' = [algorithm |-> "parse", tree |-> t]

PickExpression ==
  \E ops \in OperatorSets :
    PickTree({<<"expr", <<"assign", "id", S!Grouped(e, 1)>>>> : e \in ExpressionTrees(ops)})
PickType ==
  PickTree(UNION { {Var(t, Id), Var(None, <<"cast", Id, t>>), Var(None, <<"call", Id, <<t>>, <<Id>>>>)} :
                   t \in LargerTypes(SmallTypes \cup LargerTypes(SmallTypes)) })
PickStatement ==
  LET some == Statements \cup LargerStatements(Statements)
  IN  PickTree(some \cup {<<"fn", "id", <<>>, <<>>, <<>>, <<s, Leave>>>> : s \in some \cup LargerStatements(some)})
PickDeclaration == PickTree(UNION { Declarations(t) : t \in SmallTypes \cup LargerTypes(SmallTypes) })

Next == PickBinary \/ PickCast \/ PickSite \/ PickExpression \/ PickType \/ PickStatement \/ PickDeclaration
        \/ X!PickSource

Spec == Init /\ [][Next]_case

ReadBack(c) ==
  c.algorithm = "parse" =>
    LET toks == S!Tokens(c.tree)
    IN  /\ S!P!parse(toks) = [trees |-> <<c.tree>>, err |-> FALSE, stop |-> "no"]
        /\ \A style \in X!Styles : X!Kinds(X!Spelled(S!Text(c.tree) \o <<";">>, style), S!P!Ids) = toks

\* The lexer reads a source as the longest lexemes it is made of, each at its
\* place, and the parser the text of a tree as that tree, parentheses included,
\* with no error, whatever stands between the tokens.
RoundTrip == [][\A c \in {case'} : ReadBack(c) /\ X!LexedOn(c)]_case

-----------------------------------------------------------------------------
(* What must hold *)

\* The number a value of kind k stands for, in halves.
Number(k, x) ==
  IF k \in C!SignedKinds THEN 2 * C!Signed(Of(k, x))
  ELSE IF k \in C!FloatKinds THEN x ELSE 2 * x

\* A number of halves as kind k holds it: integers wrap around.
SameNumber(k, x, n) == (Number(k, x) - n) % 2 ^ (C!atIntBits(k) + 1) = 0

AgreeOn(c) ==
  c.algorithm = "binary" =>
    LET lk == c.lk  rk == c.rk  op == c.operator
        k  == C!inferBinary(op, lk, rk)
        v  == C!emitBinaryExpr(op, Of(lk, c.x), lk, Of(rk, c.y), rk)
        a  == Number(lk, c.x)
        b  == Number(rk, c.y)
        Is(truth) == v.x = (IF truth THEN 1 ELSE 0)
    IN  v \notin {C!Poison, C!Nothing} =>
        /\ v.ty = C!llvmNumericTypeFromKind(k)
        /\ {lk, rk} \subseteq C!IntKinds =>
             CASE op = "<"  -> Is(a < b)
               [] op = "<=" -> Is(a <= b)
               [] op = "==" -> C!SameSign(lk, rk) => Is(a = b)
               [] op = "+"  -> SameNumber(k, v.x, a + b)
               [] op = "-"  -> SameNumber(k, v.x, a - b)
               [] op = "*"  -> SameNumber(k, v.x, (a * b) \div 2)
               [] op = "/"  -> SameNumber(k, v.x, 2 * C!Quotient(a, b))
               [] op = "<<" -> SameNumber(k, v.x, a * 2 ^ ((b \div 2) % C!atIntBits(k)))
               [] op = ">>" -> Number(k, v.x) = 2 * (a \div 2 ^ (1 + ((b \div 2) % C!atIntBits(k))))
               [] OTHER -> TRUE

ExactOn(c) ==
  c.algorithm = "cast" =>
    LET sk == c.sk  dk == c.dk
        r  == C!checkedCastToOption(Of(sk, c.x), sk, dk)
        n  == Number(sk, c.x)
        range == C!IntRange(C!llvmNumericTypeFromKind(dk), dk \in C!SignedKinds)
        fits  == n # NaN /\ \E lo, hi \in range : 2 * lo <= n /\ n <= 2 * hi
    IN  (/\ sk \in C!IntKinds \cup C!FloatKinds /\ dk \in C!IntKinds
         /\ sk \in C!FloatKinds => C!atIntBits(dk) < Width["i64"])
        => /\ r.ok <=> fits
           /\ fits => Number(dk, r.v.x) = 2 * C!TowardZero(n)

KeepsValue(c, sites) ==
  (c.algorithm = "site" /\ c.site \in sites /\ {c.sk, c.dk} \subseteq C!IntKinds)
  => Number(c.dk, C!ImplicitCast(c.site, Of(c.k, c.x), c.sk, c.dk).x) = Number(c.sk, c.x)

\* The code generator gives an accepted operation the type of the kind the
\* analyzer infers for it, and on integers the result of arithmetic on numbers,
\* whatever the widths of the operands; and a conversion keeps the number.  `expr as T` is Some of the number, or of its
\* whole part, when T holds it and None when T does not (floats become an
\* integer of 64 bits at the bounds of a double, so these targets are left out);
\* and where the analyzer lets an integer of one kind into a variable of
\* another without a cast, the variable holds the same number.
NumbersExact == [][\A c \in {case'} : AgreeOn(c) /\ ExactOn(c) /\ KeepsValue(c, {"declare", "assign"})]_case
=============================================================================
