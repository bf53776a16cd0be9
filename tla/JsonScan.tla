------------------------------ MODULE JsonScan ------------------------------
(***************************************************************************)
(* The scanner of the json package (tua_json.c): it finds the value of a   *)
(* key, or of a path of keys, in a text it never builds a tree of, and     *)
(* reads strings, whole numbers, booleans, and the tables of a tokenizer.  *)
(* A text is a sequence of bytes, a position is 0 when a function has      *)
(* failed, and an answer is a record: `err` is 0, 1 (the text or the type  *)
(* is wrong) or 2 (there is no such key).  A path is the sequence of its   *)
(* segments.                                                               *)
(*                                                                         *)
(* First the text functions of the runtime's strings (tua_str.c): a string *)
(* is a sequence of bytes whose length and substrings count code points,   *)
(* best effort where the bytes are not UTF-8.                              *)
(***************************************************************************)
EXTENDS Integers, Sequences, SequencesExt, Functions

CONSTANTS MaxDepth, \* the depth skip_value gives up at, 512 in the source
          MaxLong   \* INT64_MAX

Panic == <<-1>>
Rest(s, i) == SubSeq(s, i, Len(s))

\* How many bytes the first byte of a character announces, 1 when it is none.
Announced(b) ==
  CASE b >= 192 /\ b < 224 -> 2
    [] b >= 224 /\ b < 240 -> 3
    [] b >= 240 /\ b < 248 -> 4
    [] OTHER -> 1

utf8_advance(s) == IF Len(s) >= Announced(Head(s)) THEN Announced(Head(s)) ELSE 1

Continues(b) == b >= 128 /\ b < 192

\* Mutant of utf8_validate_advance: the bytes after the first are not looked at.
TrustAdvance(s) == IF Head(s) < 128 THEN 1 ELSE IF Announced(Head(s)) > 1 THEN utf8_advance(s) ELSE 0

utf8_validate_advance(s) ==
  LET b == Head(s)  need == Announced(b)
  IN  IF b < 128 THEN 1
      ELSE IF need > 1 /\ Len(s) >= need /\ \A i \in 2 .. need : Continues(s[i]) THEN need ELSE 0

RECURSIVE count_codepoints_best_effort(_)
count_codepoints_best_effort(s) ==
  IF s = <<>> THEN 0 ELSE 1 + count_codepoints_best_effort(Rest(s, utf8_advance(s) + 1))

RECURSIVE Skipped(_, _)
Skipped(s, n) == IF n = 0 \/ s = <<>> THEN s ELSE Skipped(Rest(s, utf8_advance(s) + 1), n - 1)

\* tua_str_substring: a negative index counts from the end.
tua_str_substring(s, i) ==
  LET n   == count_codepoints_best_effort(s)
      idx == IF i < 0 THEN n + i ELSE i
  IN  IF n = 0 \/ idx < 0 \/ idx >= n THEN Panic ELSE Skipped(s, idx)

Replacement == <<239, 191, 189>>

RECURSIVE tua_str_from_utf8_bytes_replace(_)
tua_str_from_utf8_bytes_replace(s) ==
  IF s = <<>> THEN <<>>
  ELSE LET n == utf8_validate_advance(s)
       IN  (IF n > 0 THEN SubSeq(s, 1, n) ELSE Replacement)
           \o tua_str_from_utf8_bytes_replace(Rest(s, (IF n > 0 THEN n ELSE 1) + 1))

-----------------------------------------------------------------------------
(* Of json                                                                  *)

\* A code point's bytes; Fail for what is none.
Fail == Panic

utf8_encode(cp) ==
  CASE cp > 1114111 \/ (cp >= 55296 /\ cp <= 57343) -> Fail
    [] cp <= 127 -> <<cp>>
    [] cp > 127 /\ cp <= 2047 -> <<192 + (cp \div 64), 128 + (cp % 64)>>
    [] cp > 2047 /\ cp <= 65535 -> <<224 + (cp \div 4096), 128 + ((cp \div 64) % 64), 128 + (cp % 64)>>
    [] cp > 65535 -> <<240 + (cp \div 262144), 128 + ((cp \div 4096) % 64), 128 + ((cp \div 64) % 64), 128 + (cp % 64)>>

Quote == 34
Backslash == 92
Comma == 44
Colon == 58
Minus == 45
Dot == 46
LBrace == 123
RBrace == 125
LBracket == 91
RBracket == 93
None == -1

Byte(p, i) == IF i \in DOMAIN p THEN p[i] ELSE None

is_ws(c) == c \in {32, 10, 13, 9}
is_digit(c) == c \in 48 .. 57
hex_val(c) == CASE c \in 48 .. 57 -> c - 48 [] c \in 65 .. 70 -> c - 55 [] c \in 97 .. 102 -> c - 87 [] OTHER -> None

RECURSIVE skip_ws(_, _)
skip_ws(p, i) == IF is_ws(Byte(p, i)) THEN skip_ws(p, i + 1) ELSE i

RECURSIVE SkipDigits(_, _)
SkipDigits(p, i) == IF is_digit(Byte(p, i)) THEN SkipDigits(p, i + 1) ELSE i
-----------------------------------------------------------------------------
(* Strings.                                                                 *)

\* The closing quote of the string whose content goes on at i.
RECURSIVE ClosingQuote(_, _)
ClosingQuote(p, i) ==
  CASE i > Len(p) -> 0
    [] Byte(p, i) = Backslash -> IF i + 1 > Len(p) THEN 0 ELSE ClosingQuote(p, i + 2)
    [] Byte(p, i) = Quote -> i
    [] i <= Len(p) /\ p[i] \notin {Backslash, Quote} -> IF p[i] <= 31 THEN 0 ELSE ClosingQuote(p, i + 1)

parse_string_end(p, q) == IF Byte(p, q) = Quote THEN ClosingQuote(p, q + 1) ELSE 0

\* The unit `\uXXXX` at i, before the closing quote.
HexUnit(p, i, end) ==
  IF i + 6 > end \/ Byte(p, i) # Backslash \/ Byte(p, i + 1) # 117 \/ \E k \in 2 .. 5 : hex_val(p[i + k]) = None
  THEN None
  ELSE hex_val(p[i + 2]) * 4096 + hex_val(p[i + 3]) * 256 + hex_val(p[i + 4]) * 16 + hex_val(p[i + 5])

High(u) == u \in 55296 .. 56319
Low(u)  == u \in 56320 .. 57343

\* A code point and where the text goes on; a lone surrogate is an error.
CodePoint(p, i, end) ==
  LET u == HexUnit(p, i, end)
      l == HexUnit(p, i + 6, end)
  IN  CASE u = None \/ Low(u) -> [cp |-> None, next |-> i]
        [] High(u) -> [cp |-> IF Low(l) THEN 65536 + (u - 55296) * 1024 + (l - 56320) ELSE None, next |-> i + 12]
        [] OTHER -> [cp |-> u, next |-> i + 6]

Short == [c \in {Quote, Backslash, 47, 98, 102, 110, 114, 116} |->
            CASE c = 98 -> 8 [] c = 102 -> 12 [] c = 110 -> 10 [] c = 114 -> 13 [] c = 116 -> 9 [] OTHER -> c]

RECURSIVE Decoded(_, _, _)
Decoded(p, i, end) ==
  LET Then(bytes, next) == LET more == Decoded(p, next, end) IN IF more = Fail THEN Fail ELSE bytes \o more
      e == Byte(p, i + 1)
      u == CodePoint(p, i, end)
  IN  CASE i >= end -> <<>>
        [] i < end /\ p[i] # Backslash -> Then(<<p[i]>>, i + 1)
        [] i < end /\ p[i] = Backslash ->
             IF i + 1 >= end THEN Fail
             ELSE IF e \in DOMAIN Short THEN Then(<<Short[e]>>, i + 2)
             ELSE IF e # 117 \/ u.cp = None THEN Fail
             ELSE Then(utf8_encode(u.cp), u.next)

\* decode_string_alloc, and tua_str_from_bytes_copy for a string without escapes.
decode_string_alloc(p, start, end) ==
  LET s == Decoded(p, start, end) IN IF s = Fail THEN Fail ELSE tua_str_from_utf8_bytes_replace(s)

\* A key that does not decode is no match, and no error either.
string_equals_key_span(p, q, end, key) == Decoded(p, q + 1, end) = key
-----------------------------------------------------------------------------
(* Values that are passed over.                                             *)

\* What must be a digit, and those after it.
SomeDigits(p, i) == IF i # 0 /\ is_digit(Byte(p, i)) THEN SkipDigits(p, i) ELSE 0

skip_number(p, i) ==
  LET start == IF Byte(p, i) = Minus THEN i + 1 ELSE i
      whole == IF Byte(p, start) = 48 THEN start + 1 ELSE SomeDigits(p, start)
      frac  == IF whole # 0 /\ Byte(p, whole) = Dot THEN SomeDigits(p, whole + 1) ELSE whole
      sign  == IF Byte(p, frac + 1) \in {43, Minus} THEN frac + 2 ELSE frac + 1
  IN  IF frac # 0 /\ Byte(p, frac) \in {101, 69} THEN SomeDigits(p, sign) ELSE frac

Word(p, i, w) == IF i + Len(w) - 1 <= Len(p) /\ SubSeq(p, i, i + Len(w) - 1) = w THEN i + Len(w) ELSE 0
True == <<116, 114, 117, 101>>
False == <<102, 97, 108, 115, 101>>
Null == <<110, 117, 108, 108>>

RECURSIVE skip_value(_, _, _), SkipMembers(_, _, _), SkipElements(_, _, _)
skip_value(p, from, depth) ==
  LET i == skip_ws(p, from)
      j == skip_ws(p, i + 1)
      c == Byte(p, i)
  IN  CASE depth > MaxDepth -> 0
        [] depth <= MaxDepth /\ c = Quote -> LET q == parse_string_end(p, i) IN IF q = 0 THEN 0 ELSE q + 1
        [] depth <= MaxDepth /\ c = LBrace -> IF Byte(p, j) = RBrace THEN j + 1 ELSE SkipMembers(p, j, depth)
        [] depth <= MaxDepth /\ c = LBracket -> IF Byte(p, j) = RBracket THEN j + 1 ELSE SkipElements(p, j, depth)
        [] depth <= MaxDepth /\ c = 116 -> Word(p, i, True)
        [] depth <= MaxDepth /\ c = 102 -> Word(p, i, False)
        [] depth <= MaxDepth /\ c = 110 -> Word(p, i, Null)
        [] depth <= MaxDepth /\ (c = Minus \/ is_digit(c)) -> skip_number(p, i)
        [] OTHER -> 0

\* A key's colon is followed by its value, a value by a comma or the end.
AfterKey(p, q) ==
  LET colon == skip_ws(p, q + 1) IN IF q # 0 /\ Byte(p, colon) = Colon THEN colon + 1 ELSE 0

SkipMembers(p, from, depth) ==
  LET value == AfterKey(p, parse_string_end(p, skip_ws(p, from)))
      after == IF value = 0 THEN 0 ELSE skip_value(p, value, depth + 1)
      i     == skip_ws(p, after)
  IN  CASE after = 0 -> 0
        [] after # 0 /\ Byte(p, i) = Comma -> SkipMembers(p, i + 1, depth)
        [] after # 0 /\ Byte(p, i) = RBrace -> i + 1
        [] OTHER -> 0

SkipElements(p, from, depth) ==
  LET after == skip_value(p, from, depth + 1)
      i     == skip_ws(p, after)
  IN  CASE after = 0 -> 0
        [] after # 0 /\ Byte(p, i) = Comma -> SkipElements(p, i + 1, depth)
        [] after # 0 /\ Byte(p, i) = RBracket -> i + 1
        [] OTHER -> 0
-----------------------------------------------------------------------------
(* Finding a key.                                                           *)

At(i) == [err |-> IF i = 0 THEN 1 ELSE 0, pos |-> i]
Wrong == [err |-> 1, pos |-> 0]
NotThere == [err |-> 2, pos |-> 0]

RECURSIVE FindMember(_, _, _)
FindMember(p, from, key) ==
  LET q     == skip_ws(p, from)
      end   == parse_string_end(p, q)
      value == IF end = 0 \/ AfterKey(p, end) = 0 THEN 0 ELSE skip_ws(p, AfterKey(p, end))
      i     == skip_ws(p, skip_value(p, value, 0))
  IN  CASE value = 0 \/ value > Len(p) -> Wrong
        [] OTHER ->
             IF string_equals_key_span(p, q, end, key) THEN At(value)
             ELSE IF skip_value(p, value, 0) = 0 THEN Wrong
             ELSE IF Byte(p, i) = Comma THEN FindMember(p, i + 1, key)
             ELSE IF Byte(p, i) = RBrace THEN NotThere ELSE Wrong

scan_object_find_value_pos_span(p, objPos, key) ==
  LET i == skip_ws(p, objPos)
      j == skip_ws(p, i + 1)
  IN  IF Byte(p, i) # LBrace \/ j > Len(p) THEN Wrong
      ELSE IF p[j] = RBrace THEN NotThere ELSE FindMember(p, j, key)

scan_top_level_find_value_pos(p, key) == scan_object_find_value_pos_span(p, 1, key)

RECURSIVE FollowPath(_, _, _)
FollowPath(p, objPos, path) ==
  LET found == scan_object_find_value_pos_span(p, objPos, Head(path))
  IN  IF Head(path) = <<>> THEN Wrong
      ELSE IF found.err # 0 \/ Len(path) = 1 THEN found
      ELSE IF Byte(p, found.pos) # LBrace THEN Wrong
      ELSE FollowPath(p, found.pos, Tail(path))

scan_key_path_find_value_pos(p, path) ==
  LET i == skip_ws(p, 1) IN IF Byte(p, i) # LBrace THEN Wrong ELSE FollowPath(p, i, path)
-----------------------------------------------------------------------------
(* Reading the value that was found.                                        *)

Answer(v) == [err |-> 0, value |-> v]
Error(e)  == [err |-> e, value |-> <<>>]

\* parse_int64_strict: [ok, val, end].
RECURSIVE Accumulate(_, _, _, _)
Accumulate(p, i, acc, negative) ==
  LET d == p[i] - 48
  IN  IF ~is_digit(Byte(p, i)) THEN [ok |-> Byte(p, i) \notin {Dot, 101, 69}, val |-> acc, end |-> i]
      ELSE IF negative THEN IF acc < -((MaxLong + 1 - d) \div 10) THEN [ok |-> FALSE, val |-> 0, end |-> i]
                            ELSE Accumulate(p, i + 1, acc * 10 - d, TRUE)
      ELSE IF acc > (MaxLong - d) \div 10 THEN [ok |-> FALSE, val |-> 0, end |-> i]
           ELSE Accumulate(p, i + 1, acc * 10 + d, FALSE)

parse_int64_strict(p, pos) ==
  LET negative == Byte(p, pos) = Minus
      start == IF negative THEN pos + 1 ELSE pos
  IN  IF is_digit(Byte(p, start)) THEN Accumulate(p, start, 0, negative) ELSE [ok |-> FALSE, val |-> 0, end |-> pos]

\* Mutant of check_object_value_boundary: the end of the text will do.
BoundaryOrEnd(p, end) == Byte(p, skip_ws(p, end)) \in {Comma, RBrace, None}

check_object_value_boundary(p, end) == Byte(p, skip_ws(p, end)) \in {Comma, RBrace}
check_array_value_boundary(p, end)  == Byte(p, skip_ws(p, end)) \in {Comma, RBracket}

\* A string at pos, and where the text goes on.
parse_string_value_at(p, pos) ==
  LET end == parse_string_end(p, pos)
      s   == decode_string_alloc(p, pos + 1, end)
  IN  IF end = 0 \/ s = Fail THEN [ok |-> FALSE, val |-> <<>>, end |-> pos] ELSE [ok |-> TRUE, val |-> s, end |-> end + 1]

ReadBool(p, pos) ==
  LET t == Word(p, pos, True)  f == Word(p, pos, False)
  IN  [ok |-> t # 0 \/ f # 0, val |-> t # 0, end |-> IF t # 0 THEN t ELSE f]

\* The scan functions differ in how they find the value and in what they read.
Scan(p, found, kind) ==
  LET read == CASE kind = "string" -> parse_string_value_at(p, found.pos)
                [] kind = "long"   -> parse_int64_strict(p, found.pos)
                [] kind = "bool"   -> ReadBool(p, found.pos)
  IN  IF found.err # 0 THEN Error(found.err)
      ELSE IF read.ok /\ check_object_value_boundary(p, read.end) THEN Answer(read.val) ELSE Error(1)

tua_json_scan_top_level(p, key, kind) == Scan(p, scan_top_level_find_value_pos(p, key), kind)
tua_json_scan_key_path(p, path, kind) == Scan(p, scan_key_path_find_value_pos(p, path), kind)
-----------------------------------------------------------------------------
(* The tables of a tokenizer.  Each is read by a loop that looks at what    *)
(* follows an element: a comma, or the closing bracket.                     *)

Put(m, k, v) == [x \in DOMAIN m \cup {k} |-> IF x = k THEN v ELSE m[x]]
Empty == [x \in {} |-> 0]
Stuck(acc, i) == [ok |-> FALSE, acc |-> acc, end |-> i]

\* Reads the elements from i on, up to the closing bracket, with Element(acc, i);
\* both answer [ok, acc, end].
RECURSIVE Elements(_, _, _, _, _)
Elements(p, from, close, Element(_, _), acc) ==
  LET e == Element(acc, skip_ws(p, from))
      i == skip_ws(p, e.end)
  IN  IF ~e.ok THEN Stuck(acc, i)
      ELSE IF Byte(p, i) = Comma THEN Elements(p, i + 1, close, Element, e.acc)
      ELSE [ok |-> Byte(p, i) = close, acc |-> e.acc, end |-> i + 1]

Bracketed(p, from, open, close, Element(_, _), acc) ==
  LET i == skip_ws(p, from + 1)
  IN  IF Byte(p, from) # open \/ i > Len(p) THEN Stuck(acc, from)
      ELSE IF p[i] = close THEN [ok |-> TRUE, acc |-> acc, end |-> i + 1]
      ELSE Elements(p, i, close, Element, acc)

Table(p, found, open, close, Element(_, _), acc) ==
  LET table == Bracketed(p, found.pos, open, close, Element, acc)
  IN  IF found.err # 0 THEN Error(found.err) ELSE IF table.ok THEN Answer(table.acc) ELSE Error(1)

tua_json_parse_key_path_string_long_map(p, path) ==
  LET Member(m, i) ==
        LET k     == parse_string_value_at(p, i)
            colon == AfterKey(p, parse_string_end(p, i))
            v     == parse_int64_strict(p, skip_ws(p, colon))
        IN  IF k.ok /\ colon # 0 /\ v.ok /\ check_object_value_boundary(p, v.end)
            THEN [ok |-> TRUE, acc |-> Put(m, k.val, v.val), end |-> v.end] ELSE Stuck(m, i)
  IN  Table(p, scan_key_path_find_value_pos(p, path), LBrace, RBrace, Member, Empty)

tua_json_parse_key_path_string_array(p, path) ==
  LET Item(a, i) ==
        LET s == parse_string_value_at(p, i)
        IN  IF s.ok /\ check_array_value_boundary(p, s.end)
            THEN [ok |-> TRUE, acc |-> Append(a, s.val), end |-> s.end] ELSE Stuck(a, i)
  IN  Table(p, scan_key_path_find_value_pos(p, path), LBracket, RBracket, Item, <<>>)

\* Pairs of strings: both and their concatenation are in the vocabulary.  The
\* tables are by the pair of ids; in `count` is the rank of the next pair.
tua_json_parse_key_path_bpe_merges_pair_maps(p, path, vocab) ==
  LET Pair(t, i) ==
        LET a == parse_string_value_at(p, skip_ws(p, i + 1))
            c == skip_ws(p, a.end)
            b == parse_string_value_at(p, skip_ws(p, c + 1))
            e == skip_ws(p, b.end)
        IN  IF Byte(p, i) = LBracket /\ a.ok /\ Byte(p, c) = Comma /\ b.ok /\ Byte(p, e) = RBracket
               /\ {a.val, b.val, a.val \o b.val} \subseteq DOMAIN vocab
            THEN LET key == <<vocab[a.val], vocab[b.val]>>
                 IN  [ok |-> TRUE, end |-> e + 1,
                      acc |-> [rank |-> Put(t.rank, key, t.count), count |-> t.count + 1,
                               merge |-> Put(t.merge, key, vocab[a.val \o b.val])]]
            ELSE Stuck(t, i)
  IN  Table(p, scan_key_path_find_value_pos(p, path), LBracket, RBracket, Pair,
                [rank |-> Empty, merge |-> Empty, count |-> 0])

KeyId      == <<105, 100>>
KeyContent == <<99, 111, 110, 116, 101, 110, 116>>
KeyAdded   == <<97, 100, 100, 101, 100, 95, 116, 111, 107, 101, 110, 115>>

\* Objects, of which the members id and content count.  A key with an escape is
\* not compared.
tua_json_parse_top_level_added_tokens_content_id_map(p) ==
  LET Field(o, i) ==
        LET end   == parse_string_end(p, i)
            colon == AfterKey(p, end)
            value == skip_ws(p, colon)
            raw   == SubSeq(p, i + 1, end - 1)
            n     == parse_int64_strict(p, value)
            s     == parse_string_value_at(p, value)
            after == skip_value(p, value, 0)
        IN  IF colon = 0 \/ value > Len(p) THEN Stuck(o, i)
            ELSE IF raw = KeyId THEN [ok |-> n.ok, acc |-> [o EXCEPT !.id = <<n.val>>], end |-> n.end]
            ELSE IF raw = KeyContent THEN [ok |-> s.ok, acc |-> [o EXCEPT !.content = <<s.val>>], end |-> s.end]
            ELSE [ok |-> after # 0, acc |-> o, end |-> after]
      Token(m, i) ==
        LET o == Bracketed(p, i, LBrace, RBrace, Field, [id |-> <<>>, content |-> <<>>])
        IN  [ok |-> o.ok, end |-> o.end,
             acc |-> IF o.acc.id \notin {<<>>, <<-(MaxLong + 1)>>} /\ o.acc.content # <<>>
                     THEN Put(m, o.acc.content[1], o.acc.id[1]) ELSE m]
  IN  Table(p, scan_top_level_find_value_pos(p, KeyAdded), LBracket, RBracket, Token, Empty)
=============================================================================
