------------------------------- MODULE Parser -------------------------------
(***************************************************************************)
(* The recursive-descent parser (src/tua/src/parser.c) on the token kinds  *)
(* the lexer makes (src/tua/src/lexer.c).  A newline is the token ";", the *)
(* literal of an int and the type name `int` are both the token "int".     *)
(* Of the type names that only differ by the kind they build one is kept,  *)
(* and tokens the lexer rejects are left out.                              *)
(*                                                                         *)
(* A parser state p is the tokens with the index of the current one, how   *)
(* far a `>>` has been split, panicMode, hadError, and how the parser      *)
(* stopped when it did: a loop that goes round without moving never ends,  *)
(* and a missing tree that is dereferenced ends the program.  A stopped    *)
(* parser is put at the end of the tokens.                                 *)
(***************************************************************************)
EXTENDS Integers, Sequences

Scalars  == {"int", "long", "double", "float", "u8", "string", "bool"}
Ids      == {"id", "Id", "ptr", "Ref", "array", "unsafe", "Some"}
Literals == {"int", "long", "double", "str", "null", "true", "false"}

Null == <<"null">>

R(p, v) == [p |-> p, v |-> v]

-----------------------------------------------------------------------------
(* The token stream *)

initParser(toks) ==
  [toks |-> toks, at |-> 1, split |-> 0, panic |-> FALSE, err |-> FALSE, stop |-> "no"]

Stop(p, why) == [p EXCEPT !.at = Len(p.toks) + 1, !.split = 0, !.err = TRUE, !.stop = why]

Token(p, i) == IF i <= Len(p.toks) THEN p.toks[i] ELSE "eof"
Tok(p)      == IF p.split > 0 THEN ">" ELSE Token(p, p.at)
Ahead(p, k) == Token(p, p.at + k)           \* what the lexer returns next

Advance(p) ==
  IF p.split = 1 THEN [p EXCEPT !.split = 2]
  ELSE [p EXCEPT !.split = 0, !.at = IF p.at > Len(p.toks) THEN p.at ELSE p.at + 1]

Error(p) == [p EXCEPT !.panic = TRUE, !.err = TRUE]

Skip(p, t)    == IF Tok(p) = t THEN Advance(p) ELSE p
Demand(p, ok) == IF ok THEN Advance(p) ELSE IF Tok(p) = "eof" THEN Error(p) ELSE Advance(Error(p))
Consume(p, t) == Demand(p, Tok(p) = t)
ConsumeId(p)  == R(Demand(p, Tok(p) \in Ids), IF Tok(p) \in Ids THEN Tok(p) ELSE "error")

RECURSIVE SkipSemis(_)
SkipSemis(p) == IF Tok(p) = ";" THEN SkipSemis(Advance(p)) ELSE p

\* Mutant of consumeTypeGt: `>>` is not split.
ConsumeWholeGt(p) == Consume(p, ">")

\* `>>` closes two lists of type arguments.
consumeTypeGt(p) == Consume(IF Tok(p) = ">>" THEN [p EXCEPT !.split = 1] ELSE p, ">")

RECURSIVE Synchronized(_, _)
Synchronized(p, prev) ==
  IF prev = ";" \/ Tok(p) \in {"eof", "}", "fn", "var", "const", "if", "for", "return"} THEN p
  ELSE Synchronized(Advance(p), Tok(p))
synchronize(p) == Synchronized([p EXCEPT !.panic = FALSE], "none")

getOperatorPrecedence(t) ==
  CASE t = "="  -> 1  [] t = "??" -> 2  [] t = "||" -> 3  [] t = "&&" -> 4
    [] t = "|"  -> 5  [] t = "^"  -> 6  [] t = "&"  -> 7
    [] t \in {"==", "!="} -> 8
    [] t \in {"<", ">", "<=", ">="} -> 9
    [] t \in {"<<", ">>"} -> 10
    [] t \in {"+", "-"} -> 11
    [] t \in {"*", "/"} -> 12
    [] t \in {"++", "--"} -> 13
    [] OTHER -> 0

isExprStartToken(t) ==
  t \in Literals \cup Ids \cup {"(", "{", "[", "fn", "this", "++", "--", "-", "!", "&"}
isTypeStartToken(t) == t \in Scalars \cup Ids \cup {"(", "&"}

-----------------------------------------------------------------------------
(* Lookahead *)

RECURSIVE AfterParen(_, _, _)
AfterParen(p, k, depth) ==
  IF depth = 0 THEN Ahead(p, k)
  ELSE CASE Ahead(p, k) = "eof" -> "eof"
         [] Ahead(p, k) = "(" -> AfterParen(p, k + 1, depth + 1)
         [] Ahead(p, k) = ")" -> AfterParen(p, k + 1, depth - 1)
         [] OTHER -> AfterParen(p, k + 1, depth)

\* After `->`: is `(...)` the parameters of a function type, or a list of types?
isParenFunctionTypeAfterArrow(p) ==
  Tok(p) = "(" /\ LET t == AfterParen(p, 1, 1) IN t = "->" \/ isTypeStartToken(t)

isParenCastStart(p) ==
  Tok(p) = "(" /\ Ahead(p, 1) \in Scalars /\ Ahead(p, 2) = ")" /\ isExprStartToken(Ahead(p, 3))

RECURSIVE AfterAngle(_, _, _)
AfterAngle(p, k, depth) ==
  IF depth <= 0 THEN (IF Ahead(p, k) = ";" THEN AfterAngle(p, k + 1, 0) ELSE Ahead(p, k))
  ELSE CASE Ahead(p, k) = "eof" -> "eof"
         [] Ahead(p, k) = "<"  -> AfterAngle(p, k + 1, depth + 1)
         [] Ahead(p, k) = ">"  -> AfterAngle(p, k + 1, depth - 1)
         [] Ahead(p, k) = ">>" -> AfterAngle(p, k + 1, depth - 2)
         [] OTHER -> AfterAngle(p, k + 1, depth)

\* Is this `<` the start of type arguments?  It is when `> (` follows, however far.
looksLikeGenericCall(p) == Tok(p) = "<" /\ AfterAngle(p, 1, 1) = "("

-----------------------------------------------------------------------------
(* Lists *)

RECURSIVE parseExpression(_), parseBinaryExpr(_, _), BinaryLoop(_, _), PostfixLoop(_), parseUnaryExpr(_)
RECURSIVE parseType(_), ArraySuffix(_), declaration(_), parseStatement(_), BlockLoop(_), BodyLoop(_)
RECURSIVE Items(_, _), ItemsUntil(_, _, _)

\* What `name: Type` leaves: the type or Null.
OptionalType(p) == IF Tok(p) = ":" THEN parseType(Advance(p)) ELSE R(p, Null)
OptionalValue(p) == IF Tok(p) = "=" THEN parseExpression(Advance(p)) ELSE R(p, Null)

Parameter(p) ==
  LET mode == IF Tok(p) \in {"const", "var", "move"} THEN Tok(p) ELSE "const"
      n == ConsumeId(IF Tok(p) \in {"const", "var", "move"} THEN Advance(p) ELSE p)
      t == OptionalType(n.p)
  IN  R(t.p, <<mode, n.v, t.v>>)

TraitParameter(p) ==
  LET n == ConsumeId(IF Tok(p) \in {"const", "var", "move"} THEN Advance(p) ELSE p)
      t == parseType(Consume(n.p, ":"))
  IN  R(t.p, <<IF Tok(p) \in {"var", "move"} THEN Tok(p) ELSE "const", n.v, t.v>>)

TypeParameter(p) ==
  LET n == ConsumeId(SkipSemis(p))
      b == IF Tok(n.p) = ":" THEN ConsumeId(Advance(n.p)) ELSE R(n.p, "none")
  IN  R(SkipSemis(b.p), <<n.v, b.v>>)

Aliased(p) ==
  LET n == ConsumeId(p)
      a == IF Tok(n.p) = "as" THEN ConsumeId(Advance(n.p)) ELSE R(n.p, "none")
  IN  R(a.p, <<n.v, a.v>>)

MapEntry(p) ==
  IF Tok(p) \notin {"int", "long", "str"} THEN R(Error(p), Null)
  ELSE LET v == parseExpression(Consume(Advance(p), ":")) IN R(v.p, <<Tok(p), v.v>>)

FieldInit(p) ==
  LET n == ConsumeId(p)
      v == parseExpression(Consume(n.p, ":"))
  IN  R(v.p, <<n.v, v.v>>)

Binding(p) ==
  LET n == ConsumeId(p)
      t == OptionalType(n.p)
      v == OptionalValue(t.p)
  IN  R(v.p, <<n.v, t.v, v.v>>)

TypedName(p) ==
  LET n == ConsumeId(p)
      t == OptionalType(n.p)
  IN  R(t.p, <<n.v, t.v>>)

TypeArgument(p) == LET t == parseType(p) IN R(SkipSemis(t.p), t.v)

Item(p, what) ==
  CASE what = "expr"      -> parseExpression(p)
    [] what = "type"      -> parseType(p)
    [] what = "argument"  -> TypeArgument(p)
    [] what = "parameter" -> Parameter(p)
    [] what = "trait"     -> TraitParameter(p)
    [] what = "generic"   -> TypeParameter(p)
    [] what = "alias"     -> Aliased(p)
    [] what = "entry"     -> MapEntry(p)
    [] what = "field"     -> FieldInit(p)
    [] what = "binding"   -> Binding(p)
    [] what = "typed"     -> TypedName(p)
    [] what = "name"      -> ConsumeId(p)

\* One or more items with commas between them.
Items(p, what) ==
  LET first == Item(p, what)
  IN  IF Tok(first.p) # "," THEN R(first.p, <<first.v>>)
      ELSE LET rest == Items(Advance(first.p), what) IN R(rest.p, <<first.v>> \o rest.v)

\* The same up to a closing token, with newlines and a comma before it.
ItemsUntil(p, what, close) ==
  IF Tok(SkipSemis(p)) = close THEN R(SkipSemis(p), <<>>)
  ELSE LET first == Item(SkipSemis(p), what)
       IN  IF (what = "entry" /\ first.v = Null) \/ Tok(first.p) # "," THEN R(first.p, <<first.v>>)
           ELSE LET rest == ItemsUntil(Advance(first.p), what, close) IN R(rest.p, <<first.v>> \o rest.v)

\* Items between brackets that may be none.
Enclosed(p, what, close) ==
  LET l == IF Tok(p) = close THEN R(p, <<>>) ELSE Items(p, what) IN R(Consume(l.p, close), l.v)

\* `<T, U: Trait>` of a declaration.
TypeParameters(p) ==
  IF Tok(p) # "<" THEN R(p, <<>>)
  ELSE LET q == SkipSemis(Advance(p))
           l == IF Tok(q) \in {">", ">>"} THEN R(q, <<>>) ELSE Items(q, "generic")
       IN  R(consumeTypeGt(l.p), l.v)

parseCallTypeArgs(p) ==
  LET q == SkipSemis(Consume(p, "<"))
      l == IF Tok(q) \in {">", ">>"} THEN R(q, <<>>) ELSE Items(q, "argument")
  IN  R(consumeTypeGt(l.p), l.v)

-----------------------------------------------------------------------------
(* Types *)

Named(name, args) == <<"named", name, args>>

\* `Ref<T>` and `array<T>`: one argument; more are an error and are skipped.
RECURSIVE Surplus(_)
Surplus(p) ==
  IF Tok(p) \in {">", "eof"} THEN p
  ELSE LET t == parseType(p) IN IF Tok(t.p) = "," THEN Surplus(Advance(t.p)) ELSE t.p

OneArgument(p) ==
  LET t == parseType(p)
      q == IF Tok(t.p) = "," THEN Surplus(Error(Advance(t.p))) ELSE t.p
  IN  R(consumeTypeGt(q), t.v)

NamedType(p) ==
  LET n == Tok(p)
      q == Advance(p)
      lt == Tok(q) = "<"
      one == OneArgument(Advance(q))
      l == IF Tok(Advance(q)) = ">" THEN R(Advance(q), <<>>) ELSE Items(Advance(q), "type")
  IN  CASE n = "ptr"         -> R(IF lt THEN Error(q) ELSE q, <<"ptr">>)
        [] n = "Ref" /\ ~lt  -> R(Error(q), Named(n, <<>>))
        [] n = "Ref"         -> R(one.p, <<"ref", one.v>>)
        [] n = "array" /\ ~lt -> R(Error(q), <<"array", <<"any">>>>)
        [] n = "array"       -> R(one.p, <<"array", IF one.v = Null THEN <<"any">> ELSE one.v>>)
        [] ~lt               -> R(q, Named(n, <<>>))
        [] OTHER             -> R(consumeTypeGt(l.p), Named(n, l.v))

\* `(A, B) -> C`, `(A, B) -> (C, D)`, `(A, B) C`
FunctionType(p) ==
  LET params == Enclosed(p, "type", ")")
      arrow  == Tok(params.p) = "->"
      q      == IF arrow THEN Advance(params.p) ELSE params.p
      group  == Enclosed(Advance(q), "type", ")")
      one    == parseType(q)
  IN  CASE ~arrow /\ (Tok(q) = "(" \/ ~isTypeStartToken(Tok(q))) -> R(Error(q), Null)
        [] arrow /\ Tok(q) = "(" /\ ~isParenFunctionTypeAfterArrow(q) ->
             R(group.p, <<"fn", params.v, group.v>>)
        [] OTHER -> R(one.p, <<"fn", params.v, <<one.v>>>>)

\* `T[]` and `T[n]`; the length is not kept
ArraySuffix(t) ==
  LET q == Advance(t.p)
  IN  CASE Tok(t.p) # "[" -> t
        [] Tok(q) = "]"   -> ArraySuffix(R(Advance(q), <<"array", t.v>>))
        [] Tok(q) \in {"int", "long"} -> ArraySuffix(R(Consume(Advance(q), "]"), <<"fixed", t.v>>))
        [] OTHER -> R(Error(q), Null)

parseType(p) ==
  LET inner == parseType(Advance(p))
      fn == FunctionType(Advance(p))
  IN  CASE Tok(p) = "("       -> IF fn.v = Null THEN fn ELSE ArraySuffix(fn)
        [] Tok(p) = "&"       -> ArraySuffix(R(inner.p, <<"ref", inner.v>>))
        [] Tok(p) \in Scalars -> ArraySuffix(R(Advance(p), <<Tok(p)>>))
        [] Tok(p) \in Ids     -> ArraySuffix(NamedType(p))
        [] OTHER              -> R(Error(p), Null)

\* `-> T, U` after the parameters, or `T` alone when it is one of sugar.
ReturnTypes(p, sugar) ==
  CASE Tok(p) = "->"     -> Items(Advance(p), "type")
    [] Tok(p) \in sugar  -> Items(p, "type")
    [] OTHER -> R(p, <<>>)

-----------------------------------------------------------------------------
(* Blocks *)

\* A block inside a function: what a failed statement leaves is tried again.
BlockLoop(p) ==
  IF Tok(p) \in {"}", "eof"} THEN R(p, <<>>)
  ELSE LET d == declaration(p)
       IN  IF d.p = p THEN R(Stop(p, "hang"), <<>>)
           ELSE LET rest == BlockLoop(d.p)
                IN  R(rest.p, IF d.v = Null THEN rest.v ELSE <<d.v>> \o rest.v)

parseBlockStatement(p) == LET b == BlockLoop(p) IN R(Consume(b.p, "}"), <<"block", b.v>>)

\* A function body and the whole program recover from an error.
Recovered(p, d) ==
  IF d.p.panic THEN synchronize(d.p)
  ELSE IF d.v = Null /\ d.p.at = p.at /\ d.p.split = p.split THEN Advance(d.p) ELSE d.p

BodyLoop(p) ==
  IF Tok(p) \in {"}", "eof"} THEN R(p, <<>>)
  ELSE LET d == declaration(p)
           q == Recovered(p, d)
           rest == BodyLoop(q)
       IN  IF q = p THEN R(Stop(p, "hang"), <<>>)
           ELSE R(rest.p, IF d.v = Null THEN rest.v ELSE <<d.v>> \o rest.v)

parseBlock(p) == LET b == BodyLoop(Consume(SkipSemis(p), "{")) IN R(Consume(b.p, "}"), b.v)

\* Does control always leave the block?  Asked of the block of a guard.
RECURSIVE stmtAlwaysInterrupt(_)
stmtAlwaysInterrupt(s) ==
  CASE s[1] = "private" -> stmtAlwaysInterrupt(s[2])
    [] s[1] \in {"return", "break", "continue"} -> TRUE
    [] s[1] = "block" -> \E i \in 1..Len(s[2]) : stmtAlwaysInterrupt(s[2][i])
    [] s[1] = "if"    -> s[4] # Null /\ stmtAlwaysInterrupt(s[3]) /\ stmtAlwaysInterrupt(s[4])
    [] s[1] = "iflet" -> s[5] # Null /\ stmtAlwaysInterrupt(s[4]) /\ stmtAlwaysInterrupt(s[5])
    [] OTHER -> FALSE

-----------------------------------------------------------------------------
(* Expressions *)

finishCall(p, callee, typeArgs) ==
  LET l == Enclosed(p, "expr", ")") IN R(l.p, <<"call", callee, typeArgs, l.v>>)

GenericCall(p, callee) ==
  LET args == parseCallTypeArgs(p) IN finishCall(Consume(args.p, "("), callee, args.v)

\* A call right after a name, when there is one.
CallAfter(p, callee) ==
  CASE looksLikeGenericCall(p) -> GenericCall(p, callee)
    [] Tok(p) = "(" -> finishCall(Advance(p), callee, <<>>)
    [] OTHER -> R(p, callee)

finishStructInit(p, callee) ==
  LET l == ItemsUntil(p, "field", "}") IN R(Consume(l.p, "}"), <<"struct", callee, l.v>>)

LooksLikeTypeName(e) == (e[1] = "variable" /\ e[2] \in {"Id", "Ref", "Some"})
                        \/ (e[1] = "get" /\ e[3] \in {"Id", "Ref", "Some"})

RECURSIVE unwrapGroupingExpr(_)
unwrapGroupingExpr(e) == IF e[1] = "group" THEN unwrapGroupingExpr(e[2]) ELSE e

\* `call ? { ... }` after the `?`; no tree when it is wrong
Guard(p, left) ==
  LET call  == unwrapGroupingExpr(left)
      block == parseBlockStatement(Consume(p, "{"))
  IN  IF call[1] # "call" THEN R(Error(p), Null)
      ELSE IF ~stmtAlwaysInterrupt(block.v) THEN R(Error(block.p), Null)
      ELSE R(block.p, <<"guard", call, block.v>>)

PostfixLoop(l) ==
  LET q     == Advance(l.p)
      name  == ConsumeId(q)
      index == parseExpression(q)
      guard == Guard(q, l.v)
  IN  CASE Tok(l.p) = "." -> PostfixLoop(CallAfter(name.p, <<"get", l.v, name.v>>))
        [] Tok(l.p) \in {"++", "--"} -> PostfixLoop(R(q, <<"postfix", Tok(l.p), l.v>>))
        [] Tok(l.p) = "(" -> PostfixLoop(finishCall(q, l.v, <<>>))
        [] Tok(l.p) = "{" /\ LooksLikeTypeName(l.v) -> PostfixLoop(finishStructInit(q, l.v))
        [] Tok(l.p) = "[" -> PostfixLoop(R(Consume(index.p, "]"), <<"index", l.v, index.v>>))
        [] Tok(l.p) = "?" -> IF guard.v = Null THEN guard ELSE PostfixLoop(guard)
        [] OTHER -> l

\* `{}`, `{1: a, 2: b}` or `{a, b}`
BraceLiteral(p0) ==
  LET p     == SkipSemis(p0)
      first == parseExpression(p)
      value == parseExpression(Advance(first.p))
      More(r, what) == IF Tok(r.p) = "," THEN ItemsUntil(Advance(r.p), what, "}") ELSE R(r.p, <<>>)
      entries  == More(value, "entry")
      elements == More(first, "expr")
      Close(q) == Consume(SkipSemis(q), "}")
  IN  CASE Tok(p) = "}" -> R(Advance(p), <<"brace">>)
        [] Tok(first.p) # ":" -> R(Close(elements.p), <<"list", <<first.v>> \o elements.v>>)
        [] first.v \notin {<<"literal", t>> : t \in {"int", "long", "str"}} ->
             R(Error(Advance(first.p)), Null)
        [] \E i \in DOMAIN entries.v : entries.v[i] = Null -> R(entries.p, Null)
        [] OTHER -> R(Close(entries.p), <<"map", <<<<first.v[2], value.v>>>> \o entries.v>>)

\* `fn (params) -> T { ... }`
LambdaExpr(p) ==
  LET params  == Enclosed(Consume(p, "("), "parameter", ")")
      missing == Tok(params.p) = "("
      returns == ReturnTypes(IF missing THEN Error(params.p) ELSE params.p,
                             IF missing THEN {"("} ELSE Scalars \cup Ids \cup {"&"})
      body    == parseBlock(returns.p)
      lambda  == <<"lambda", params.v, returns.v, body.v>>
  IN  IF Tok(body.p) = "(" THEN finishCall(Advance(body.p), lambda, <<>>) ELSE R(body.p, lambda)

parsePrimaryExpr(p) ==
  LET t == Tok(p)
      q == Advance(p)
      list == ItemsUntil(q, "expr", "]")
      group == parseExpression(q)
  IN  CASE t \in Literals -> R(q, <<"literal", t>>)
        [] t = "{" -> BraceLiteral(q)
        [] t = "[" -> R(Consume(list.p, "]"), <<"list", list.v>>)
        [] t = "this" -> R(q, <<"variable", t>>)
        [] t \in Ids -> CallAfter(q, <<"variable", t>>)
        [] t = "(" -> R(Consume(group.p, ")"), <<"group", group.v>>)
        [] t = "fn" -> LambdaExpr(q)
        [] t \in {"print", "println"} ->
             IF Tok(q) = "(" THEN finishCall(Advance(q), <<"variable", t>>, <<>>) ELSE R(q, <<"variable", t>>)
        [] OTHER -> R(Error(p), Null)

\* A cast written `(T)expr`, a prefix operator or what follows a primary.
parseUnaryExpr(p) ==
  LET type  == parseType(Advance(p))
      value == parseUnaryExpr(Consume(type.p, ")"))
      right == parseUnaryExpr(Advance(p))
  IN  CASE isParenCastStart(p) -> R(value.p, <<"convert", value.v, type.v>>)
        [] Tok(p) \in {"++", "--", "-", "!", "~", "&", "move"} -> R(right.p, <<"unary", Tok(p), right.v>>)
        [] OTHER -> PostfixLoop(parsePrimaryExpr(p))

\* Precedence climbing; `??` groups to the right, `as T` binds to what is left of it.
BinaryLoop(l, minPrec) ==
  LET op    == Tok(l.p)
      prec  == getOperatorPrecedence(op)
      q     == Advance(l.p)
      type  == parseType(q)
      right == parseBinaryExpr(q, IF op = "??" THEN prec ELSE prec + 1)
  IN  CASE op = "as" -> IF Tok(q) = "?" THEN R(Error(Advance(q)), Null)
                        ELSE BinaryLoop(R(type.p, <<"cast", l.v, type.v>>), minPrec)
        [] op = "=" /\ minPrec <= 1 -> l
        [] op # "as" /\ (prec = 0 \/ prec < minPrec) -> l
        [] op \in {"++", "--"} /\ prec >= minPrec -> BinaryLoop(R(q, <<"postfix", op, l.v>>), minPrec)
        [] OTHER -> BinaryLoop(R(right.p, <<"binary", op, l.v, right.v>>), minPrec)

parseBinaryExpr(p, minPrec) == BinaryLoop(parseUnaryExpr(p), minPrec)

parseExpression(p) ==
  LET l == parseBinaryExpr(p, 0)
      r == parseExpression(Advance(l.p))
  IN  CASE Tok(l.p) # "="       -> l
        [] l.v = Null           -> R(Stop(r.p, "crash"), Null)
        [] l.v[1] = "variable"  -> R(r.p, <<"assign", l.v[2], r.v>>)
        [] l.v[1] = "get"       -> R(r.p, <<"set", l.v[2], l.v[3], r.v>>)
        [] l.v[1] = "index"     -> R(r.p, <<"indexset", l.v[2], l.v[3], r.v>>)
        [] OTHER -> R(Error(r.p), l.v)

-----------------------------------------------------------------------------
(* Statements *)

\* A condition with or without parentheses around the whole of it.
Condition(p) ==
  LET paren == Tok(p) = "("
      e == parseExpression(Skip(p, "("))
  IN  R(IF paren THEN Consume(e.p, ")") ELSE e.p, e.v)

\* The rest of an `if` after its condition.
Branches(p) ==
  LET yes == parseStatement(p)
      q   == SkipSemis(yes.p)
      no  == parseStatement(Advance(q))
  IN  IF Tok(q) = "else" THEN R(no.p, <<yes.v, no.v>>) ELSE R(q, <<yes.v, Null>>)

parseIfStatement(p) ==
  LET paren == Tok(p) = "("
      q     == Skip(p, "(")
      some  == ConsumeId(Advance(q))
      name  == ConsumeId(Consume(IF some.v = "Some" THEN some.p ELSE Error(some.p), "("))
      value == parseExpression(Consume(Consume(name.p, ")"), "="))
      condition == Condition(p)
      iflet == Branches(IF paren THEN Consume(value.p, ")") ELSE value.p)
      plain == Branches(condition.p)
  IN  IF Tok(q) = "var" THEN R(iflet.p, <<"iflet", name.v, value.v>> \o iflet.v)
      ELSE R(plain.p, <<"if", condition.v>> \o plain.v)

\* `for` with three clauses, after the first of them.
ForClauses(p, init, paren) ==
  LET condition == IF Tok(p) = ";" THEN R(p, Null) ELSE parseExpression(p)
      q    == Consume(condition.p, ";")
      step == IF Tok(q) \in {")", "{"} THEN R(q, Null) ELSE parseExpression(q)
      body == parseBlockStatement(Consume(SkipSemis(IF paren THEN Consume(step.p, ")") ELSE step.p), "{"))
  IN  R(body.p, <<"for", init, condition.v, step.v, body.v>>)

parseExpressionStatement(p) ==
  LET e == parseExpression(p)
  IN  IF e.v = Null THEN e ELSE R(Skip(e.p, ";"), <<"expr", e.v>>)

\* `let` or `const` after the keyword
parseVarDeclaration(p, keyword) ==
  LET first == TypedName(p)
      names == Items(p, "typed")
      value == parseExpression(Advance(names.p))
      Var(b) == <<"var", keyword = "const", b[1], b[2], b[3]>>
      list  == Items(p, "binding")
      Undefined(b) == Var(<<b[1], b[2], Null>>)
  IN  IF Tok(first.p) = ","
      THEN IF Tok(names.p) = "="
           THEN R(Skip(value.p, ";"), <<"destructure", keyword, names.v, value.v>>)
           ELSE R(Skip(names.p, ";"), <<"block", [i \in DOMAIN names.v |-> Undefined(names.v[i])]>>)
      ELSE R(Skip(list.p, ";"),
             IF Len(list.v) = 1 THEN Var(list.v[1]) ELSE <<"block", [i \in DOMAIN list.v |-> Var(list.v[i])]>>)

\* `name: T = e` once the name is consumed
NamedDeclaration(p, name) ==
  LET t == OptionalType(p)
      v == OptionalValue(t.p)
  IN  R(Skip(v.p, ";"), <<"var", FALSE, name, t.v, v.v>>)

\* The clauses of `for` are told apart by what follows the first name.  A name
\* that starts an expression is put back in place of the token after it.
parseForStatement(p0) ==
  LET paren == Tok(p0) = "("
      p     == Skip(p0, "(")
      name  == Tok(p)
      q     == Advance(p)
      second == IF Tok(q) = "," THEN ConsumeId(Advance(q)) ELSE R(q, "none")
      s     == second.p
      range == parseExpression(Advance(s))
      body  == parseBlockStatement(Consume(SkipSemis(IF paren THEN Consume(range.p, ")") ELSE range.p), "{"))
      declared == parseVarDeclaration(q, "var")
      typed    == NamedDeclaration(s, name)
      value    == parseExpression(Advance(s))
      other    == parseExpressionStatement([s EXCEPT !.toks = [@ EXCEPT ![s.at] = name]])
  IN  CASE name = "var" -> ForClauses(declared.p, declared.v, paren)
        [] name \notin Ids -> ForClauses(p, Null, paren)
        [] Tok(s) = "in" -> R(body.p, <<"forin", name, second.v, range.v, body.v>>)
        [] Tok(s) = ":"  -> ForClauses(typed.p, typed.v, paren)
        [] Tok(s) = "="  -> ForClauses(Consume(value.p, ";"), <<"var", FALSE, name, Null, value.v>>, paren)
        [] OTHER -> ForClauses(other.p, other.v, paren)

parseReturnStatement(p) ==
  IF Tok(p) = ";" THEN R(Advance(p), <<"return", <<>>>>)
  ELSE LET l == Items(p, "expr") IN R(Skip(l.p, ";"), <<"return", l.v>>)

\* `::name::` after the first colon
Label(p) ==
  LET n == ConsumeId(Consume(p, ":")) IN R(Consume(Consume(n.p, ":"), ":"), <<"label", n.v>>)

\* `a, b = e`
Destructuring(p) ==
  LET names == Items(p, "name")
      value == parseExpression(Consume(names.p, "="))
  IN  R(Skip(value.p, ";"), <<"destructure", "none", names.v, value.v>>)

parseStatement(p0) ==
  LET p == SkipSemis(p0)
      t == Tok(p)
      q == Advance(p)
      block  == parseBlockStatement(q)
      unsafe == parseBlockStatement(Advance(q))
      cond   == Condition(q)
      body   == parseStatement(cond.p)
      loop   == parseStatement(SkipSemis(q))
      until  == Condition(Consume(SkipSemis(loop.p), "while"))
      name   == ConsumeId(q)
  IN  CASE t = "unsafe" /\ Ahead(p, 1) = "{" -> R(unsafe.p, <<"unsafe", unsafe.v>>)
        [] t = ":"        -> Label(q)
        [] t = "if"       -> parseIfStatement(q)
        [] t = "for"      -> parseForStatement(q)
        [] t = "while"    -> R(body.p, <<"while", cond.v, body.v>>)
        [] t = "do"       -> R(Skip(until.p, ";"), <<"dowhile", loop.v, until.v>>)
        [] t \in {"break", "continue"} -> R(Skip(q, ";"), <<t>>)
        [] t = "goto"     -> R(Skip(name.p, ";"), <<t, name.v>>)
        [] t = "return"   -> parseReturnStatement(q)
        [] t = "{"        -> block
        [] t \in Ids /\ Ahead(p, 1) = "," -> Destructuring(p)
        [] OTHER -> parseExpressionStatement(p)

-----------------------------------------------------------------------------
(* Declarations *)

FunctionSugar == {"int", "long", "double", "float", "string", "bool"}

parseFunctionDeclaration(p) ==
  LET n  == ConsumeId(p)
      tp == TypeParameters(n.p)
      ps == Enclosed(Consume(tp.p, "("), "parameter", ")")
      rt == ReturnTypes(ps.p, FunctionSugar)
      b  == parseBlock(rt.p)
  IN  R(b.p, <<"fn", n.v, tp.v, ps.v, rt.v, b.v>>)

parseExternFunctionDeclaration(p) ==
  LET n  == ConsumeId(p)
      ps == Enclosed(Consume(IF Tok(n.p) = "<" THEN Error(n.p) ELSE n.p, "("), "parameter", ")")
      rt == ReturnTypes(ps.p, FunctionSugar \cup Ids \cup {"&", "("})
      a  == IF Tok(rt.p) = "as" THEN ConsumeId(Advance(rt.p)) ELSE R(rt.p, "none")
  IN  R(Skip(a.p, ";"), <<"extern", n.v, ps.v, rt.v, a.v>>)

\* A method of a struct or an impl, or Null where none starts.
Method(p) ==
  LET f == parseFunctionDeclaration(Consume(Skip(p, "private"), "fn"))
      h == ReturnTypes(Consume(Consume(Advance(p), "("), ")"), {})
      b == parseBlock(h.p)
  IN  CASE Tok(p) \in {"private", "fn"} -> f
        [] Tok(p) \in {"init", "deinit"} -> R(b.p, <<"fn", Tok(p), <<>>, <<>>, h.v, b.v>>)
        [] OTHER -> R(p, Null)

\* `...Base` or `...Base as name`; no tree when there is no type
Embedded(p) ==
  LET t == parseType(p)
      u == IF t.v = Null \/ t.v[1] # "named" THEN Error(t.p) ELSE t.p
      a == IF Tok(u) = "as" THEN ConsumeId(Advance(u)) ELSE R(u, "none")
  IN  IF t.v = Null THEN R(u, Null) ELSE R(Skip(a.p, ","), <<"embedded", t.v, a.v>>)

Field(p) ==
  LET n == ConsumeId(Skip(p, "const"))
      t == parseType(Consume(n.p, ":"))
      v == OptionalValue(t.p)
  IN  R(Skip(v.p, ","), <<"field", Tok(p) = "const", n.v, t.v, v.v>>)

RECURSIVE Members(_, _)
Members(p0, what) ==
  LET p == SkipSemis(p0)
      method == Method(p)
      m == CASE method.v # Null -> method
             [] what = "impl"   -> R(Error(p), Null)
             [] Tok(p) = "..."  -> Embedded(Advance(p))
             [] OTHER           -> Field(p)
      rest == Members(m.p, what)
  IN  IF Tok(p) \in {"}", "eof"} THEN R(p, <<>>)
      ELSE IF m.v = Null THEN R(m.p, <<>>)
      ELSE R(rest.p, <<m.v>> \o rest.v)

parseStructDeclaration(p) ==
  LET n == ConsumeId(p)
      l == Members(Consume(SkipSemis(n.p), "{"), "struct")
  IN  R(Consume(l.p, "}"), <<"structdecl", n.v, l.v>>)

\* `impl Trait for Struct { ... }` after `for`; the body may be left out
TraitImpl(p, head, generic) ==
  LET wrong  == generic \/ head[1] # "named" \/ (head[1] = "named" /\ head[3] # <<>>)
      target == ConsumeId(IF wrong THEN Error(p) ELSE p)
      q      == SkipSemis(target.p)
      l      == Members(Advance(q), "impl")
      v      == <<"traitimpl", head, target.v>>
  IN  IF Tok(q) = "{" THEN R(Consume(l.p, "}"), Append(v, l.v)) ELSE R(q, Append(v, <<>>))

\* `impl` of a type; a reference or a function type is none that can be extended
parseImplDeclaration(p) ==
  LET tp   == TypeParameters(p)
      head == parseType(tp.p)
      q    == IF head.v[1] \in {"ref", "fn"} THEN Error(head.p) ELSE head.p
      l    == Members(Consume(SkipSemis(q), "{"), "impl")
  IN  IF head.v = Null THEN head
      ELSE IF Tok(q) = "for" THEN TraitImpl(Advance(q), head.v, tp.v # <<>>)
      ELSE R(Consume(l.p, "}"), <<"impl", tp.v, head.v, l.v>>)

parseTraitMethodDeclaration(p) ==
  LET n  == ConsumeId(p)
      ps == Enclosed(Consume(n.p, "("), "trait", ")")
      rt == ReturnTypes(ps.p, Scalars \cup Ids \cup {"(", "&"})
      q  == IF Tok(rt.p) = "{" THEN parseBlock(Error(rt.p)).p ELSE Skip(rt.p, ";")
  IN  R(q, <<"method", n.v, ps.v, rt.v>>)

Variant(p) ==
  LET n == ConsumeId(p)
      q == Advance(n.p)
      v == IF Tok(n.p) # "=" THEN R(n.p, "none")
           ELSE IF Tok(q) \in {"int", "long", "str"} THEN R(Advance(q), Tok(q)) ELSE R(Error(q), "none")
  IN  R(Skip(v.p, ","), <<n.v, v.v>>)

RECURSIVE SkipSeparators(_)
SkipSeparators(p) == IF Tok(p) \in {";", ","} THEN SkipSeparators(Advance(p)) ELSE p

\* The bodies of `trait`, `object` and `enum`.
RECURSIVE Body(_, _)
Body(p0, what) ==
  LET p == IF what = "enum" THEN SkipSeparators(p0) ELSE SkipSemis(p0)
      fn == Consume(Skip(p, "private"), "fn")
      m == CASE what = "trait"  -> parseTraitMethodDeclaration(fn)
             [] what = "object" -> parseFunctionDeclaration(fn)
             [] what = "enum"   -> Variant(p)
      rest == Body(m.p, what)
  IN  IF Tok(p) \in {"}", "eof"} THEN R(p, <<>>) ELSE R(rest.p, <<m.v>> \o rest.v)

BodyDeclaration(p, what) ==
  LET n == ConsumeId(p)
      l == Body(Consume(SkipSemis(n.p), "{"), what)
  IN  R(Consume(l.p, "}"), <<what, n.v, l.v>>)

\* `import "m" as n`, `import a, b from "m"` and `from "m" import a, b`
ImportDeclaration(p) ==
  LET a == IF Tok(Advance(p)) = "as" THEN ConsumeId(Advance(Advance(p))) ELSE R(Advance(p), "none")
      names == Items(p, "alias")
      q == Consume(Consume(names.p, "from"), "str")
  IN  IF Tok(p) = "str" THEN R(Skip(a.p, ";"), <<"import", a.v>>)
      ELSE R(Skip(q, ";"), <<"fromimport", names.v>>)

FromDeclaration(p) ==
  LET names == Items(Consume(Consume(p, "str"), "import"), "alias")
  IN  R(Skip(names.p, ";"), <<"fromimport", names.v>>)

declaration(p0) ==
  LET p == SkipSemis(p0)
      t == Tok(p)
      q == Advance(p)
      inner == declaration(q)
  IN  CASE t \in {"eof", "}"} -> R(p, Null)
        [] t = "import"  -> ImportDeclaration(q)
        [] t = "from"    -> FromDeclaration(q)
        [] t = "private" -> IF inner.v = Null THEN R(Error(inner.p), Null) ELSE R(inner.p, <<t, inner.v>>)
        [] t = "fn"      -> parseFunctionDeclaration(q)
        [] t = "extern"  -> parseExternFunctionDeclaration(Consume(q, "fn"))
        [] t \in {"var", "const"} -> parseVarDeclaration(q, t)
        [] t = "struct"  -> parseStructDeclaration(q)
        [] t = "impl"    -> parseImplDeclaration(q)
        [] t \in {"trait", "object", "enum"} -> BodyDeclaration(q, t)
        [] t \in Ids /\ Tok(q) = ":" -> NamedDeclaration(q, t)
        [] t \in Ids /\ Tok(q) = "(" -> parseExpressionStatement(p)
        [] OTHER -> parseStatement(p)

RECURSIVE Program(_)
Program(p) ==
  IF Tok(p) = "eof" THEN R(p, <<>>)
  ELSE LET d == declaration(p)
           q == Recovered(p, d)
           rest == Program(q)
       IN  IF q = p THEN R(Stop(p, "hang"), <<>>)
           ELSE R(rest.p, IF d.v = Null THEN rest.v ELSE <<d.v>> \o rest.v)

\* The trees of the tokens, whether an error was reported, and how it stopped.
parse(toks) ==
  LET r == Program(initParser(toks)) IN [trees |-> r.v, err |-> r.p.err, stop |-> r.p.stop]
=============================================================================
