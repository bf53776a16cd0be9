----------------------------- MODULE SourceText -----------------------------
(***************************************************************************)
(* The text of a tree, as a sequence of tokens, and where an expression    *)
(* needs parentheses: the reference the parser is held to.                 *)
(***************************************************************************)
EXTENDS Integers, Sequences, SequencesExt

P == INSTANCE Parser

RECURSIVE Text(_), TypeText(_), Grouped(_, _)

Commas(texts) ==
  FlattenSeq([i \in DOMAIN texts |-> IF i = 1 THEN texts[i] ELSE <<",">> \o texts[i]])

Paren(text) == <<"(">> \o text \o <<")">>
Brace(texts) == <<"{">> \o FlattenSeq(texts) \o <<"}">>
Lines(trees) == [i \in DOMAIN trees |-> Text(trees[i]) \o <<";">>]
Texts(trees) == [i \in DOMAIN trees |-> Text(trees[i])]

\* Two `>` side by side are one token for the lexer.
RECURSIVE Merged(_)
Merged(toks) ==
  IF Len(toks) < 2 THEN toks
  ELSE IF SubSeq(toks, 1, 2) = <<">", ">">> THEN <<">>">> \o Merged(SubSeq(toks, 3, Len(toks)))
  ELSE <<Head(toks)>> \o Merged(Tail(toks))

-----------------------------------------------------------------------------
(* Types *)

TypeTexts(ts) == Commas([i \in DOMAIN ts |-> TypeText(ts[i])])
Angle(ts) == IF ts = <<>> THEN <<>> ELSE <<"<">> \o TypeTexts(ts) \o <<">">>

TypeText(t) ==
  CASE t[1] = "named" -> <<t[2]>> \o Angle(t[3])
    [] t[1] = "ref"   -> IF t[2][1] = "array" THEN <<"Ref">> \o Angle(<<t[2]>>) ELSE <<"&">> \o TypeText(t[2])
    [] t[1] = "array" -> IF t[2][1] \in {"fn", "ref"} THEN <<"array">> \o Angle(<<t[2]>>) ELSE TypeText(t[2]) \o <<"[", "]">>
    [] t[1] = "fixed" -> TypeText(t[2]) \o <<"[", "int", "]">>
    [] t[1] = "fn"    -> Paren(TypeTexts(t[2])) \o <<"->">>
                         \o (IF Len(t[3]) = 1 THEN TypeText(t[3][1]) ELSE Paren(TypeTexts(t[3])))
    [] OTHER -> t

Typed(t) == IF t = P!Null THEN <<>> ELSE <<":">> \o TypeText(t)
Valued(v) == IF v = P!Null THEN <<>> ELSE <<"=">> \o Text(v)

-----------------------------------------------------------------------------
(* Expressions *)

\* How tightly an expression holds together: binary operators by precedence,
\* then checked casts, prefix operators, and what is written after a primary.
Strength(e) ==
  CASE e[1] = "binary" -> P!getOperatorPrecedence(e[2])
    [] e[1] \in {"assign", "set", "indexset"} -> 1
    [] e[1] = "cast" -> 14
    [] e[1] \in {"unary", "convert"} -> 15
    [] OTHER -> 16

\* e with parentheses, and those its parts need, where at least `least` is asked.
\* `(int) move x` is not a cast for the parser: `move` is no isExprStartToken.
Grouped(e, least) ==
  LET s == Strength(e)
      right == e[2] = "??"
      g == CASE e[1] = "binary"  -> <<e[1], e[2], Grouped(e[3], IF right THEN s + 1 ELSE s),
                                      Grouped(e[4], IF right THEN s ELSE s + 1)>>
             [] e[1] = "cast"    -> <<e[1], Grouped(e[2], 14), e[3]>>
             [] e[1] = "convert" -> <<e[1], Grouped(e[2], IF Head(Text(e[2])) = "move" THEN 17 ELSE 15), e[3]>>
             [] e[1] = "unary"   -> <<e[1], e[2], Grouped(e[3], 15)>>
             [] e[1] = "postfix" -> <<e[1], e[2], Grouped(e[3], 16)>>
             [] e[1] = "call"    -> <<e[1], Grouped(e[2], 16), e[3], [i \in DOMAIN e[4] |-> Grouped(e[4][i], 1)]>>
             [] e[1] = "get"     -> <<e[1], Grouped(e[2], 16), e[3]>>
             [] e[1] = "index"   -> <<e[1], Grouped(e[2], 16), Grouped(e[3], 1)>>
             [] e[1] = "assign"  -> <<e[1], e[2], Grouped(e[3], 1)>>
             [] OTHER -> e
  IN  IF s < least THEN <<"group", g>> ELSE g

Params(ps) ==
  Paren(Commas([i \in DOMAIN ps |->
    (IF ps[i][1] = "const" THEN <<>> ELSE <<ps[i][1]>>) \o <<ps[i][2]>> \o Typed(ps[i][3])]))
Returns(ts) == IF ts = <<>> THEN <<>> ELSE <<"->">> \o TypeTexts(ts)
Generics(gs) ==
  IF gs = <<>> THEN <<>>
  ELSE <<"<">> \o Commas([i \in DOMAIN gs |-> IF gs[i][2] = "none" THEN <<gs[i][1]>> ELSE <<gs[i][1], ":", gs[i][2]>>]) \o <<">">>
Entries(es) == Commas([i \in DOMAIN es |-> <<es[i][1], ":">> \o Text(es[i][2])])
Alias(a) == IF a = "none" THEN <<>> ELSE <<"as", a>>
Else(s) == IF s = P!Null THEN <<>> ELSE <<"else">> \o Text(s)
Bindings(bs) == Commas([i \in DOMAIN bs |-> <<bs[i][1]>> \o Typed(bs[i][2])])

ExpressionText(e) ==
  CASE e[1] \in {"literal", "variable"} -> <<e[2]>>
    [] e[1] = "group"    -> Paren(Text(e[2]))
    [] e[1] = "binary"   -> Text(e[3]) \o <<e[2]>> \o Text(e[4])
    [] e[1] = "unary"    -> <<e[2]>> \o Text(e[3])
    [] e[1] = "postfix"  -> Text(e[3]) \o <<e[2]>>
    [] e[1] = "cast"     -> Text(e[2]) \o <<"as">> \o TypeText(e[3])
    [] e[1] = "convert"  -> Paren(TypeText(e[3])) \o Text(e[2])
    [] e[1] = "call"     -> Text(e[2]) \o Angle(e[3]) \o Paren(Commas(Texts(e[4])))
    [] e[1] = "get"      -> Text(e[2]) \o <<".", e[3]>>
    [] e[1] = "index"    -> Text(e[2]) \o <<"[">> \o Text(e[3]) \o <<"]">>
    [] e[1] = "struct"   -> Text(e[2]) \o Brace(<<Entries(e[3])>>)
    [] e[1] = "list"     -> <<"[">> \o Commas(Texts(e[2])) \o <<"]">>
    [] e[1] = "map"      -> Brace(<<Entries(e[2])>>)
    [] e[1] = "brace"    -> <<"{", "}">>
    [] e[1] = "lambda"   -> <<"fn">> \o Params(e[2]) \o Returns(e[3]) \o Brace(Lines(e[4]))
    [] e[1] = "guard"    -> Text(e[2]) \o <<"?">> \o Text(e[3])
    [] e[1] = "assign"   -> <<e[2], "=">> \o Text(e[3])
    [] e[1] = "set"      -> Text(e[2]) \o <<".", e[3], "=">> \o Text(e[4])
    [] e[1] = "indexset" -> Text(e[2]) \o <<"[">> \o Text(e[3]) \o <<"]", "=">> \o Text(e[4])

Expressions ==
  {"literal", "variable", "group", "binary", "unary", "postfix", "cast", "convert", "call", "get", "index",
   "struct", "list", "map", "brace", "lambda", "guard", "assign", "set", "indexset"}

-----------------------------------------------------------------------------
(* Statements and declarations *)

Text(s) ==
  CASE s[1] \in Expressions -> ExpressionText(s)
    [] s[1] = "expr"     -> Text(s[2])
    [] s[1] = "block"    -> Brace(Lines(s[2]))
    [] s[1] = "unsafe"   -> <<"unsafe">> \o Text(s[2])
    [] s[1] = "label"    -> <<":", ":", s[2], ":", ":">>
    [] s[1] = "goto"     -> <<"goto", s[2]>>
    [] s[1] \in {"break", "continue"} -> s
    [] s[1] = "return"   -> <<"return">> \o Commas(Texts(s[2]))
    [] s[1] = "if"       -> <<"if">> \o Paren(Text(s[2])) \o Text(s[3]) \o Else(s[4])
    [] s[1] = "iflet"    -> <<"if", "var", "Some", "(", s[2], ")", "=">> \o Text(s[3]) \o Text(s[4]) \o Else(s[5])
    [] s[1] = "while"    -> <<"while">> \o Paren(Text(s[2])) \o Text(s[3])
    [] s[1] = "dowhile"  -> <<"do">> \o Text(s[2]) \o <<"while">> \o Text(s[3])
    [] s[1] = "forin"    -> <<"for", s[2]>> \o (IF s[3] = "none" THEN <<>> ELSE <<",", s[3]>>)
                            \o <<"in">> \o Text(s[4]) \o Text(s[5])
    [] s[1] = "for"      -> <<"for">> \o Text(s[2]) \o <<";">> \o Text(s[3]) \o <<";">> \o Text(s[4]) \o Text(s[5])
    [] s[1] = "var"      -> <<IF s[2] THEN "const" ELSE "var", s[3]>> \o Typed(s[4]) \o Valued(s[5])
    [] s[1] = "destructure" ->
         (IF s[2] = "none" THEN Commas([i \in DOMAIN s[3] |-> <<s[3][i]>>]) ELSE <<s[2]>> \o Bindings(s[3]))
         \o <<"=">> \o Text(s[4])
    [] s[1] = "private"  -> <<"private">> \o Text(s[2])
    [] s[1] = "fn"       -> (IF s[2] \in {"init", "deinit"} THEN <<>> ELSE <<"fn">>) \o <<s[2]>> \o Generics(s[3])
                            \o Params(s[4]) \o Returns(s[5]) \o Brace(Lines(s[6]))
    [] s[1] = "extern"   -> <<"extern", "fn", s[2]>> \o Params(s[3]) \o Returns(s[4]) \o Alias(s[5])
    [] s[1] = "method"   -> <<"fn", s[2]>> \o Params(s[3]) \o Returns(s[4])
    [] s[1] = "field"    -> (IF s[2] THEN <<"const">> ELSE <<>>) \o <<s[3]>> \o Typed(s[4]) \o Valued(s[5])
    [] s[1] = "embedded" -> <<"...">> \o TypeText(s[2]) \o Alias(s[3])
    [] s[1] = "structdecl" -> <<"struct", s[2]>> \o Brace(Lines(s[3]))
    [] s[1] = "impl"     -> <<"impl">> \o Generics(s[2]) \o TypeText(s[3]) \o Brace(Lines(s[4]))
    [] s[1] = "traitimpl" -> <<"impl">> \o TypeText(s[2]) \o <<"for", s[3]>> \o Brace(Lines(s[4]))
    [] s[1] \in {"trait", "object"} -> <<s[1], s[2]>> \o Brace(Lines(s[3]))
    [] s[1] = "enum"     -> <<"enum", s[2]>> \o Brace(<<Commas([i \in DOMAIN s[3] |->
                              IF s[3][i][2] = "none" THEN <<s[3][i][1]>> ELSE <<s[3][i][1], "=", s[3][i][2]>>])>>)
    [] s[1] = "import"   -> <<"import", "str">> \o Alias(s[2])
    [] s[1] = "fromimport" ->
         <<"import">> \o Commas([i \in DOMAIN s[2] |-> <<s[2][i][1]>> \o Alias(s[2][i][2])]) \o <<"from", "str">>

\* What the lexer makes of the text of the tree on a line.
Tokens(s) == Merged(Text(s) \o <<";">>)
=============================================================================
