-------------------------------- MODULE Lexer --------------------------------
(***************************************************************************)
(* The lexer (src/tua/src/lexer.c).  A source is a string, its characters  *)
(* are the strings of length one and "" is the NUL it ends with.  A lexer  *)
(* state l is the source, the start of the token being read, the position, *)
(* the line and where that line starts.                                    *)
(***************************************************************************)
EXTENDS Integers, Sequences

Chars(s) == [i \in 1 .. Len(s) |-> SubSeq(s, i, i)]
CharsOf(s) == {SubSeq(s, i, i) : i \in 1 .. Len(s)}

Digits  == CharsOf("0123456789")
Letters == CharsOf("abcdefghijklmnopqrstuvwxyzABCDEFGHIJKLMNOPQRSTUVWXYZ_")

initLexer(s) == [src |-> s, start |-> 1, at |-> 1, line |-> 1, lineStart |-> 1]

Char(l, i)  == IF i <= Len(l.src) THEN SubSeq(l.src, i, i) ELSE ""
peek(l)     == Char(l, l.at)
peekNext(l) == IF peek(l) = "" THEN "" ELSE Char(l, l.at + 1)
advance(l)  == [l EXCEPT !.at = @ + 1]
Newline(l)  == [l EXCEPT !.at = @ + 1, !.line = @ + 1, !.lineStart = l.at + 1]

RECURSIVE Past(_, _)
Past(l, cs) == IF peek(l) \in cs THEN Past(advance(l), cs) ELSE l

RECURSIVE Until(_, _)
Until(l, cs) == IF peek(l) \in cs \cup {""} THEN l ELSE Until(advance(l), cs)

skipWhitespace(l) == Past(l, {" ", "\r", "\t"})

Lexeme(l) == SubSeq(l.src, l.start, l.at - 1)

\* A token with the lexer as it leaves it.
makeToken(l, kind) ==
  [l |-> l, kind |-> kind, text |-> Lexeme(l), line |-> l.line, col |-> l.start - l.lineStart + 1]
errorToken(l) ==
  [l |-> l, kind |-> "error", text |-> "", line |-> l.line, col |-> l.at - l.lineStart + 1]

-----------------------------------------------------------------------------
Keywords ==
  {"as", "bool", "bf16", "bf8", "byte", "break", "enum", "extern", "else", "while", "from", "f8", "f16", "f32", "f64",
   "float", "false", "fn", "for", "int", "i8", "i16", "isize", "if", "init", "impl", "import", "in", "u8", "u16", "u32",
   "u64", "usize", "do", "deinit", "double", "var", "continue", "const", "long", "move", "null", "return", "string",
   "struct", "trait", "this", "true", "object", "private", "println", "print", "goto"}

identifierType(w) ==
  CASE w \in Keywords  -> w
    [] w = "boolean"   -> "bool"
    [] w = "func"      -> "fn"
    [] w = "let"       -> "var"
    [] w = "not"       -> "!"
    [] OTHER           -> "identifier"

identifier(l) == LET m == Past(l, Letters \cup Digits) IN makeToken(m, identifierType(Lexeme(m)))

\* An exponent is read after decimals only.
Exponent(l) ==
  LET m == advance(l)
      n == IF peek(m) \in {"+", "-"} THEN advance(m) ELSE m
  IN  IF peek(n) \in Digits THEN makeToken(Past(n, Digits), "double") ELSE errorToken(n)

number(l) ==
  LET m == Past(l, Digits)
      d == Past(advance(m), Digits)
  IN  IF peek(m) = "." /\ peekNext(m) \in Digits
      THEN IF peek(d) \in {"e", "E"} THEN Exponent(d) ELSE makeToken(d, "double")
      ELSE IF peek(m) \in {"l", "L"} THEN makeToken(advance(m), "long")
      ELSE makeToken(m, "int")

RECURSIVE string(_)
string(l) ==
  CASE peek(l) = "\n" -> string(Newline(l))
    [] peek(l) = ""   -> errorToken(l)
    [] peek(l) = "\"" -> makeToken(advance(l), "str")
    [] OTHER          -> string(advance(l))

Singles == CharsOf("(){}[];,:*^~")
\* What may follow a first character in an operator of two.
Operators ==
  [c \in CharsOf("+-=<>&|?!") |->
     CASE c = "-" -> {">", "-"} [] c \in {"<", ">"} -> {"=", c} [] c = "!" -> {"="} [] OTHER -> {c}]

operator(l, c) ==
  CASE c = "." -> IF peek(l) = "." /\ peekNext(l) = "." THEN makeToken(advance(advance(l)), "...") ELSE makeToken(l, ".")
    [] c \in Singles -> makeToken(l, c)
    [] c \in DOMAIN Operators /\ peek(l) \in Operators[c] -> makeToken(advance(l), c \o peek(l))
    [] c \in DOMAIN Operators /\ peek(l) \notin Operators[c] -> makeToken(l, c)
    [] OTHER -> errorToken(l)

\* Past the end of a comment, or at the end of the source.
RECURSIVE EndOfComment(_)
EndOfComment(l) ==
  LET m == Until(l, {"*"})
  IN  IF peek(m) = "" THEN m
      ELSE IF peekNext(m) = "/" THEN advance(advance(m)) ELSE EndOfComment(advance(m))

ClosedComment(l) == \E i \in l.at .. Len(l.src) - 1 : SubSeq(l.src, i, i + 1) = "*/"

RECURSIVE scanToken(_)
scanToken(l0) ==
  LET w == skipWhitespace(l0)
      l == [w EXCEPT !.start = w.at]
      c == peek(l)
      m == advance(l)
  IN  CASE c = ""           -> makeToken(l, "eof")
        [] c = "\n"         -> makeToken(Newline(l), ";")
        [] c \in Letters    -> identifier(m)
        [] c \in Digits     -> number(m)
        [] c = "\""         -> string(m)
        [] c = "/"          ->
             CASE peek(m) = "/" -> scanToken(Until(m, {"\n"}))
               [] peek(m) = "*" -> IF ClosedComment(advance(m)) THEN scanToken(EndOfComment(advance(m)))
                                   ELSE errorToken([m EXCEPT !.at = Len(m.src) + 1])
               [] OTHER         -> makeToken(m, "/")
        [] OTHER            -> operator(m, c)

\* Every token of a source, the end left out.
RECURSIVE Scanned(_)
Scanned(l) == LET t == scanToken(l) IN IF t.kind = "eof" THEN <<>> ELSE <<t>> \o Scanned(t.l)
Scan(s) == Scanned(initLexer(s))
=============================================================================
