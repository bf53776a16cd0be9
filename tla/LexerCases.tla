----------------------------- MODULE LexerCases ------------------------------
(***************************************************************************)
(* Sources for the lexer: every short text over characters that matter to  *)
(* it, and the spellings of a sequence of token kinds.                     *)
(***************************************************************************)
EXTENDS Integers, Sequences, FiniteSets, SequencesExt

VARIABLE case

X == INSTANCE Lexer

Idle == [algorithm |-> "none"]

Join(ss) == FoldLeft(LAMBDA a, b : a \o b, "", ss)

PickSource ==
  /\ case = Idle
  /\ \/ \E n \in 0 .. 4 : \E s \in [1 .. n -> {"l", "e", "7", ".", "-", ">", "=", "/", "*", "\"", "\n", "#", " "}] :
          case' = [algorithm |-> "lex", source |-> Join(s)]
     \/ \E s \in [1 .. 5 -> {"7", ".", "e", "+"}] : case' = [algorithm |-> "lex", source |-> Join(s)]
-----------------------------------------------------------------------------
(* The longest lexeme at each place.                                        *)

All(w, cs) == X!CharsOf(w) \subseteq cs
From(w, i) == SubSeq(w, i, Len(w))
First(w)   == SubSeq(w, 1, 1)
Word       == X!Letters \cup X!Digits
Has(w, p)  == \E i \in 1 .. Len(w) : i + Len(p) - 1 <= Len(w) /\ SubSeq(w, i, i + Len(p) - 1) = p

Operators == X!CharsOf("(){}[];,:*^~.+-=<>&|?!/")
             \cup {"...", "++", "->", "--", "==", "<=", "<<", ">=", ">>", "&&", "||", "??", "!="}

IsInt(w)     == w # "" /\ All(w, X!Digits)
IsDecimal(w) == \E i \in 2 .. Len(w) - 1 : SubSeq(w, i, i) = "." /\ IsInt(SubSeq(w, 1, i - 1)) /\ IsInt(From(w, i + 1))
Split(w, P(_), Q(_)) == \E i \in 2 .. Len(w) : P(SubSeq(w, 1, i - 1)) /\ Q(From(w, i))
IsSign(w)    == w \in {"e", "E", "e+", "e-", "E+", "E-"}
IsExponent(w) == Split(w, IsSign, IsInt)
Quotes(w)    == {i \in 2 .. Len(w) : SubSeq(w, i, i) = "\""}
Comment(w)   == Len(w) > 1 /\ SubSeq(w, 1, 2) = "/*"

\* The kind of lexeme w is, or "" when it is none.
KindOf(w) ==
  CASE w \in Operators -> w
    [] w = "\n" -> ";"
    [] w \in {" ", "\r", "\t"} -> "blank"
    [] First(w) \in X!Letters /\ All(w, Word) -> "word"
    [] IsInt(w) -> "int"
    [] Len(w) > 1 /\ IsInt(SubSeq(w, 1, Len(w) - 1)) /\ From(w, Len(w)) \in {"l", "L"} -> "long"
    [] IsDecimal(w) \/ Split(w, IsDecimal, IsExponent) -> "double"
    [] Split(w, IsDecimal, IsSign) -> "error"
    [] First(w) = "\"" -> IF Quotes(w) = {} THEN "error" ELSE IF Quotes(w) = {Len(w)} THEN "str" ELSE ""
    [] Len(w) > 1 /\ SubSeq(w, 1, 2) = "//" /\ ~Has(w, "\n") -> "blank"
    [] Comment(w) /\ ~Has(From(w, 3), "*/") -> "error"
    [] Comment(w) /\ Has(From(w, 3), "*/") /\ ~Has(SubSeq(From(w, 3), 1, Len(w) - 3), "*/") -> "blank"
    [] Len(w) = 1 /\ w \notin Word \cup Operators -> "error"
    [] OTHER -> ""

RECURSIVE Longest(_, _)
Longest(s, at) ==
  IF at > Len(s) THEN <<>>
  ELSE LET n == CHOOSE i \in at .. Len(s) :
                  KindOf(SubSeq(s, at, i)) # "" /\ \A j \in i + 1 .. Len(s) : KindOf(SubSeq(s, at, j)) = ""
           k == KindOf(SubSeq(s, at, n))
       IN  (IF k = "blank" THEN <<>> ELSE <<<<k, at, n>>>>) \o Longest(s, n + 1)

\* The line a character is on and how far along it is.
Place(s, i) ==
  LET ends == {j \in 1 .. i - 1 : SubSeq(s, j, j) = "\n"}
      last == CHOOSE j \in ends \cup {0} : \A k \in ends : k <= j
  IN  <<Cardinality(ends) + 1, i - last>>

Lexed(s) ==
  LET ts == X!Scan(s)
  IN  [i \in DOMAIN ts |-> <<IF ts[i].kind = "identifier" THEN "word" ELSE ts[i].kind, ts[i].l.start, ts[i].l.at - 1>>]

\* A token of one line, with no comment of several lines above it, is reported
\* where it is.
PlacedOn(s) ==
  LET ts == X!Scan(s)
  IN  \A i \in DOMAIN ts :
        ts[i].kind \notin {"error", "str", ";"} /\ ~Has(s, "/*") => <<ts[i].line, ts[i].col>> = Place(s, ts[i].l.start)

LexedOn(c) == c.algorithm = "lex" => Lexed(c.source) = Longest(c.source, 1) /\ PlacedOn(c.source)
-----------------------------------------------------------------------------
(* Spellings of token kinds.  The literal of an int and the type name are   *)
(* the same kind, so either spelling will do; so for long and double.       *)

Styles == {"tight", "commented"}

Spelling(t, style) ==
  CASE style = "tight" /\ t = "int"    -> "07"
    [] style = "tight" /\ t = "long"   -> "7l"
    [] style = "tight" /\ t = "double" -> "7.0e-7"
    [] style = "tight" /\ t = "!"      -> "not"
    [] style = "tight" /\ t = "fn"     -> "func"
    [] style = "tight" /\ t = "bool"   -> "boolean"
    [] style = "tight" /\ t = "var"    -> "let"
    [] style = "commented" /\ t = ";"  -> "// \"/*\n"
    [] t = "str" -> "\"// \n\""
    [] OTHER -> t

\* Tokens that would run together.
Clash(a, b) ==
  \/ From(a, Len(a)) \in Word /\ First(b) \in Word
  \/ Len(a) = 1 /\ (a \o First(b) \in Operators \cup {"//", "/*"})

Gap(a, b, style) ==
  CASE <<a, b>> = <<">", ">">> -> ""
    [] style = "tight"     -> IF Clash(a, b) THEN " " ELSE ""
    [] style = "commented" -> "/*/ \"\n**/"

Spelled(toks, style) ==
  LET w == [i \in DOMAIN toks |-> Spelling(toks[i], style)]
  IN  Join([i \in DOMAIN w |-> IF i = Len(w) THEN w[i] ELSE w[i] \o Gap(w[i], w[i + 1], style)])

\* The kinds of a source's tokens as the parser takes them: the names it knows
\* by their text.
Kinds(s, names) ==
  LET ts == X!Scan(s)
  IN  [i \in DOMAIN ts |-> IF ts[i].kind = "identifier" /\ ts[i].text \in names THEN ts[i].text ELSE ts[i].kind]
=============================================================================
