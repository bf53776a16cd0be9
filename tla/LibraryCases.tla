---------------------------- MODULE LibraryCases ----------------------------
(***************************************************************************)
(* The pure algorithms of the runtime and of the json package, one input   *)
(* at a time, as CompilerCases does it for the compiler's.                 *)
(***************************************************************************)
EXTENDS Integers, Sequences, FiniteSets, SequencesExt

\* The first two are JsonScan's, the last is Buffers'.
CONSTANTS MaxDepth, MaxLong, SizeBits

VARIABLE case

J == INSTANCE JsonScan
B == INSTANCE Buffers

Idle == [algorithm |-> "none"]
-----------------------------------------------------------------------------
(* JSON documents, as trees, and their texts.                               *)

\* Code points and their UTF-8: letters of one to four bytes.
Encoded(cp) == CASE cp = 233 -> <<195, 169>> [] cp = 8364 -> <<226, 130, 172>>
                 [] cp = 128512 -> <<240, 159, 152, 128>> [] cp < 128 -> <<cp>>
Utf(cps) == FlattenSeq([i \in DOMAIN cps |-> Encoded(cps[i])])

HexDigit(d) == IF d < 10 THEN 48 + d ELSE 87 + d
Unit(u) == <<92, 117, HexDigit(u \div 4096), HexDigit((u \div 256) % 16), HexDigit((u \div 16) % 16), HexDigit(u % 16)>>

Written(cp, style) ==
  CASE style = "hex" -> IF cp = 128512 THEN Unit(55357) \o Unit(56832) ELSE Unit(cp)
    [] style # "hex" /\ cp = 34 -> <<92, 34>>
    [] style # "hex" /\ cp = 10 -> <<92, 110>>
    [] OTHER -> Encoded(cp)

Digits(n) == IF n < 10 THEN <<48 + n>> ELSE IF n < 100 THEN <<48 + n \div 10, 48 + (n % 10)>>
             ELSE <<48 + n \div 100, 48 + ((n \div 10) % 10), 48 + (n % 10)>>

Quoted(cps, style) == <<34>> \o FlattenSeq([i \in DOMAIN cps |-> Written(cps[i], style)]) \o <<34>>

Listed(parts, style) ==
  LET gap == IF style = "spaced" THEN <<32>> ELSE <<>>
  IN  gap \o FlattenSeq([i \in DOMAIN parts |-> parts[i] \o gap \o (IF i = Len(parts) THEN <<>> ELSE <<44>> \o gap)])

RECURSIVE Text(_, _)
Text(t, style) ==
  CASE t[1] = "str"  -> Quoted(t[2], style)
    [] t[1] = "num"  -> IF t[2] < 0 THEN <<45>> \o Digits(-t[2]) ELSE Digits(t[2])
    [] t[1] = "frac" -> <<45, 49, 46, 53, 101, 43, 49>>
    [] t[1] = "bool" -> IF t[2] THEN J!True ELSE J!False
    [] t[1] = "null" -> J!Null
    [] t[1] = "arr"  -> <<91>> \o Listed([i \in DOMAIN t[2] |-> Text(t[2][i], style)], style) \o <<93>>
    [] t[1] = "obj"  -> <<123>> \o Listed([i \in DOMAIN t[2] |->
                          Quoted(t[2][i][1], style) \o (IF style = "spaced" THEN <<32, 58, 10>> ELSE <<58>>)
                          \o Text(t[2][i][2], style)], style) \o <<125>>

Str(cps) == <<"str", cps>>
Num(n)   == <<"num", n>>
Arr(ts)  == <<"arr", ts>>
Obj(ms)  == <<"obj", ms>>

Leaves == {Str(<<>>), Str(<<34, 10>>), Str(<<97, 128512, 233>>), Num(7), Num(MaxLong), Num(-MaxLong - 1), Num(MaxLong + 1),
           Num(-MaxLong - 2), <<"frac">>, <<"bool", TRUE>>, <<"bool", FALSE>>, <<"null">>}
Values == Leaves
  \cup {Arr(<<>>), Obj(<<>>), Arr(<<Arr(<<Arr(<<>>)>>)>>), Arr(<<Arr(<<Arr(<<Num(7)>>)>>)>>), Arr(<<Obj(<<<<<<97>>, Arr(<<Num(7)>>)>>>>)>>),
        Arr(<<Str(<<97>>), Str(<<34>>)>>), Arr(<<Str(<<97>>), Num(7)>>),
        Obj(<<<<<<97>>, Num(7)>>, <<<<8364>>, Num(-3)>>, <<<<97>>, Num(0)>>>>),
        Obj(<<<<<<98>>, Str(<<8364>>)>>, <<<<97>>, <<"bool", TRUE>>>>>>),
        Arr(<<Arr(<<Str(<<97>>), Str(<<98>>)>>), Arr(<<Str(<<98>>), Str(<<97>>)>>)>>),
        Arr(<<Arr(<<Str(<<97>>), Str(<<98>>)>>), Arr(<<Str(<<97>>), Str(<<97>>)>>)>>)}

Documents ==
  {Obj(<<<<k[1], v>>, <<k[2], w>>>>) : k \in {<<<<97>>, <<97>>>>, <<<<97>>, <<98>>>>, <<<<34>>, <<97>>>>}, v \in Values,
                                      w \in {Num(7), Obj(<<<<<<97>>, Str(<<97>>)>>>>)}}
  \cup Values
  \cup {Obj(<<<<J!KeyAdded, Arr(ts)>>>>) :
          ts \in {<<>>, <<Num(7)>>, <<Obj(<<>>), Obj(<<<<J!KeyId, Num(3)>>>>)>>,
                  <<Obj(<<<<J!KeyContent, Str(<<97>>)>>, <<<<97>>, Arr(<<Num(1)>>)>>, <<J!KeyId, Num(3)>>>>),
                    Obj(<<<<J!KeyId, Num(4)>>, <<J!KeyContent, Str(<<233>>)>>>>)>>}}

Plain(t) == t[1] = "obj" /\ \E i \in DOMAIN t[2] : t[2][i][1] = J!KeyAdded

PickDocument ==
  /\ case = Idle
  /\ \E t \in Documents, style \in {"raw", "spaced", "hex"} :
       /\ Plain(t) => style = "spaced"
       /\ case' = [algorithm |-> "json", tree |-> t, style |-> style]
-----------------------------------------------------------------------------
(* What a tree says of a path.                                              *)

RECURSIVE Depth(_)
Depth(t) == IF t[1] \notin {"arr", "obj"} \/ t[2] = <<>> THEN 0
            ELSE 1 + CHOOSE d \in 0 .. 9 :
                       LET ds == {Depth(IF t[1] = "arr" THEN t[2][i] ELSE t[2][i][2]) : i \in DOMAIN t[2]}
                       IN  d \in ds /\ \A e \in ds : e <= d

RECURSIVE Lookup(_, _)
Lookup(t, path) ==
  LET hits == {i \in DOMAIN t[2] : t[2][i][1] = Head(path)}
      i    == CHOOSE j \in hits : \A k \in hits : j <= k
      last == IF hits = {} THEN Len(t[2]) ELSE i - 1
  IN  IF t[1] # "obj" \/ \E k \in 1 .. last : Depth(t[2][k][2]) > MaxDepth THEN J!Error(1)
      ELSE IF hits = {} THEN J!Error(2)
      ELSE IF Len(path) = 1 THEN J!Answer(t[2][i][2]) ELSE Lookup(t[2][i][2], Tail(path))

Fits(t) == t[1] = "num" /\ -MaxLong - 1 <= t[2] /\ t[2] <= MaxLong

Vocabulary == [w \in {<<97>>, <<98>>, <<97, 98>>, <<98, 97>>} |-> CASE w = <<97>> -> 1 [] w = <<98>> -> 2 [] w = <<97, 98>> -> 3 [] OTHER -> 4]

\* The last value of each key.
LastOf(ms) == [k \in {Utf(ms[i][1]) : i \in DOMAIN ms} |->
                 LET hits == {i \in DOMAIN ms : Utf(ms[i][1]) = k} IN ms[CHOOSE i \in hits : \A j \in hits : j <= i][2][2]]

IsPair(t) == t[1] = "arr" /\ Len(t[2]) = 2 /\ t[2][1][1] = "str" /\ t[2][2][1] = "str"
             /\ {Utf(t[2][1][2]), Utf(t[2][2][2]), Utf(t[2][1][2] \o t[2][2][2])} \subseteq DOMAIN Vocabulary
IdsOf(t) == <<Vocabulary[Utf(t[2][1][2])], Vocabulary[Utf(t[2][2][2])]>>
Merges(ps) ==
  [count |-> Len(ps), rank |-> [k \in {IdsOf(ps[i]) : i \in DOMAIN ps} |-> (CHOOSE i \in DOMAIN ps : IdsOf(ps[i]) = k) - 1],
   merge |-> [k \in {IdsOf(ps[i]) : i \in DOMAIN ps} |->
                LET t == ps[CHOOSE i \in DOMAIN ps : IdsOf(ps[i]) = k] IN Vocabulary[Utf(t[2][1][2] \o t[2][2][2])]]]

Read(t, kind) ==
  LET all(P(_)) == \A i \in DOMAIN t[2] : P(t[2][i])
      pairs(m) == Fits(m[2])
      strs(s) == s[1] = "str"
  IN  CASE kind = "string" /\ t[1] = "str" -> J!Answer(Utf(t[2]))
        [] kind = "long" /\ Fits(t) -> J!Answer(t[2])
        [] kind = "bool" /\ t[1] = "bool" -> J!Answer(t[2])
        [] kind = "longs" /\ t[1] = "obj" /\ all(pairs) -> J!Answer(LastOf(t[2]))
        [] kind = "strings" /\ t[1] = "arr" /\ all(strs) -> J!Answer([i \in DOMAIN t[2] |-> Utf(t[2][i][2])])
        [] kind = "merges" /\ t[1] = "arr" /\ all(IsPair) -> J!Answer(Merges(t[2]))
        [] OTHER -> J!Error(1)

Scanned(p, path, kind) ==
  LET key == [i \in DOMAIN path |-> Utf(path[i])]
  IN  CASE kind = "longs"   -> J!tua_json_parse_key_path_string_long_map(p, key)
        [] kind = "strings" -> J!tua_json_parse_key_path_string_array(p, key)
        [] kind = "merges"  -> J!tua_json_parse_key_path_bpe_merges_pair_maps(p, key, Vocabulary)
        [] OTHER -> IF Len(path) = 1 THEN J!tua_json_scan_top_level(p, key[1], kind)
                    ELSE J!tua_json_scan_key_path(p, key, kind)

Queries == ({<<<<97>>>>, <<<<97>>, <<98>>>>} \X {"string", "long", "bool", "longs", "strings", "merges"})
           \cup {<<<<<<98>>, <<97>>>>, "string">>, <<<<<<34>>>>, "long">>}

AddedTokens(t) ==
  LET found == Lookup(t, <<J!KeyAdded>>)
      Of(o, k) == {i \in DOMAIN o[2] : o[2][i][1] = k}
      ts == {i \in DOMAIN found.value[2] : \A k \in {J!KeyId, J!KeyContent} : Of(found.value[2][i], k) # {}}
      Field(o, k) == o[2][CHOOSE i \in Of(o, k) : TRUE][2][2]
  IN  IF found.err # 0 THEN found
      ELSE IF \E i \in DOMAIN found.value[2] : found.value[2][i][1] # "obj" THEN J!Error(1)
      ELSE J!Answer([w \in {Utf(Field(found.value[2][i], J!KeyContent)) : i \in ts} |->
                       LET i == CHOOSE j \in ts : Utf(Field(found.value[2][j], J!KeyContent)) = w
                       IN  Field(found.value[2][i], J!KeyId)])

Same(r, s) == r.err = s.err /\ (r.err = 0 => r.value = s.value)

ScanOn(c) ==
  c.algorithm = "json" =>
    LET p == Text(c.tree, c.style)
        Agrees(Of(_), said) ==
          LET full == Of(p)
          IN  Same(full, said) /\ \A n \in 0 .. Len(p) - 1 : LET r == Of(SubSeq(p, 1, n)) IN r.err = 1 \/ Same(r, full)
    IN  /\ \A q \in Queries :
             LET found == Lookup(c.tree, q[1])
                 Cut(r) == Scanned(r, q[1], q[2])
             IN  Agrees(Cut, IF found.err # 0 THEN found ELSE Read(found.value, q[2]))
        /\ LET Cut(r) == J!tua_json_parse_top_level_added_tokens_content_id_map(r)
           IN  Agrees(Cut, AddedTokens(c.tree))
-----------------------------------------------------------------------------
(* Buffers: every combination of small lengths and of offsets and counts at *)
(* the ends of their range.                                                 *)

Ends == {-1, 0, 1, 2, 3, 8} \cup {B!Half(SizeBits) \div 4, B!Half(SizeBits) \div 2, B!Half(SizeBits) - 1}
Lengths == {0, 1, 2, 8}

PickBuffers ==
  /\ case = Idle
  /\ \E l, k \in Lengths, r \in BOOLEAN, n \in Ends :
       case' = [algorithm |-> "buffers", dst |-> [len |-> l, readonly |-> r], src |-> [len |-> k, readonly |-> FALSE], n |-> n]

\* The sums of an offset and a count, and the products, that 64 bits hold.
Holds(off, n, size) == n * size + off < B!Half(SizeBits) /\ n * size < B!Half(SizeBits)

InBoundsOn(c) ==
  c.algorithm = "buffers" =>
    LET In(a, b) == \A i \in a : 0 <= i /\ i < b.len
        Ops(i, j) == {<<B!tua_bytes_copy(c.dst, i, c.src, j, c.n), 1, 1>>, <<B!Widen(c.dst, i, c.src, j, c.n), 2, 4>>,
                      <<B!Narrow(c.dst, i, c.src, j, c.n), 4, 2>>}
        Room(b, off, bytes) == off >= 0 /\ off + bytes <= b.len
    IN  /\ \A i, j \in Ends : \A op \in Ops(i, j) :
             Holds(j, c.n, op[2]) /\ Holds(i, c.n, op[3]) =>
               /\ In(op[1].reads, c.src) /\ In(op[1].writes, c.dst)
               /\ op[1].writes # {} => ~c.dst.readonly /\ Cardinality(op[1].writes) = c.n * op[3]
               /\ (op[1].err = "OK" /\ c.n # 0) <=>
                    (~c.dst.readonly /\ c.n > 0 /\ Room(c.src, j, c.n * op[2]) /\ Room(c.dst, i, c.n * op[3]))
        /\ \A i \in Ends :
             LET t == B!tua_str_from_bytes_copy(c.src, i, c.n)
                 g == B!tua_bytes_get_u8(c.src, i)
                 w == B!tua_bytes_set_u8(c.dst, i, c.n)
             IN  /\ Holds(i, c.n, 1) => In(t.reads, c.src) /\ (t.err = "OK" => Cardinality(t.reads) = c.n)
                 /\ In(g.reads, c.src) /\ In(w.writes, c.dst)
-----------------------------------------------------------------------------
(* The 16-bit floats: the numbers next to those of one exponent, and next   *)
(* to the points halfway between two of them.                               *)

Sample == {0, 1, 2, 3, 255, 256, 510, 511, 512, 767, 1021, 1022, 1023}

PickHalves ==
  /\ case = Idle
  /\ \E s \in {0, 1}, e \in 0 .. 31 : case' = [algorithm |-> "halves", sign |-> s, exp |-> e]

Inf == 31 * 1024
Wide(s, a) == B!tua_f16_to_f32([sign |-> s, mag |-> a]).mag

\* Halfway from the half a to the next: the floats' encodings are linear
\* between two neighbours, but for those next to 0 and to infinity.
Midpoint(a) ==
  CASE a = 0 -> 102 * 2 ^ 23
    [] a = Inf - 1 -> Wide(0, a) + 4096
    [] a \in 1 .. Inf - 2 -> Wide(0, a) + ((Wide(0, a + 1) - Wide(0, a)) \div 2)

NearestHalf(m, r) ==
  /\ r < Inf => m < Midpoint(r) \/ (m = Midpoint(r) /\ r % 2 = 0)
  /\ r > 0 => m > Midpoint(r - 1) \/ (m = Midpoint(r - 1) /\ r % 2 = 0)

Around(x, high) == {x + d : d \in {-2, -1, 0, 1, 2, 700}} \cap 0 .. high

HalvesOn(c) ==
  c.algorithm = "halves" =>
    \A a \in {c.exp * 1024 + m : m \in Sample} :
      LET h == [sign |-> c.sign, mag |-> a]
          F(m) == [sign |-> c.sign, mag |-> m]
      IN  /\ B!tua_f32_to_f16(B!tua_f16_to_f32(h)) = h
          /\ B!tua_f32_to_bf16(B!tua_bf16_to_f32(h)) = h
          /\ a < Inf =>
               /\ \A m \in Around(Wide(0, a), 255 * 2 ^ 23) \cup Around(Midpoint(a), 255 * 2 ^ 23) :
                    LET r == B!tua_f32_to_f16(F(m)) IN r.sign = c.sign /\ NearestHalf(m, r.mag)
               /\ \A m \in Around(a * 65536, 255 * 2 ^ 23) \cup Around(a * 65536 + 32768, 255 * 2 ^ 23) :
                    LET r == B!tua_f32_to_bf16(F(m))
                        d == (r.mag - (m \div 65536)) * 65536 - (m % 65536)
                    IN  /\ r.sign = c.sign
                        /\ -32768 <= d /\ d <= 32768 /\ (d \in {-32768, 32768} => r.mag % 2 = 0)
          /\ a > Inf => B!tua_f32_to_f16(F(Wide(0, a) + 1)).mag > Inf
-----------------------------------------------------------------------------
(* Text: every sequence of up to four of these bytes, an ASCII letter, a    *)
(* byte that continues a character and first bytes of each kind.            *)

PickText ==
  /\ case = Idle
  /\ \E n \in 0 .. 4 : \E s \in [1 .. n -> {65, 128, 195, 226, 240, 255}] : case' = [algorithm |-> "text", bytes |-> s]

IsCharacter(s) ==
  \/ Len(s) = 1 /\ s[1] < 128
  \/ Len(s) > 1 /\ s[1] \in (CASE Len(s) = 2 -> 192 .. 223 [] Len(s) = 3 -> 224 .. 239 [] Len(s) = 4 -> 240 .. 247)
     /\ \A i \in 2 .. Len(s) : s[i] \in 128 .. 191

RECURSIVE Characters(_)
Characters(s) == \* how many, or -1 when s is no sequence of characters
  IF s = <<>> THEN 0
  ELSE LET ns == {n \in 1 .. 4 : n <= Len(s) /\ IsCharacter(SubSeq(s, 1, n))}
           rest == IF ns = {} THEN -1 ELSE Characters(J!Rest(s, (CHOOSE n \in ns : TRUE) + 1))
       IN  IF rest = -1 THEN -1 ELSE 1 + rest

TextOn(c) ==
  c.algorithm = "text" =>
    LET s == c.bytes
        r == J!tua_str_from_utf8_bytes_replace(s)
        n == J!count_codepoints_best_effort(s)
        Ascii(b) == b < 128
    IN  /\ Characters(r) = J!count_codepoints_best_effort(r)
        /\ Characters(s) # -1 => r = s
        /\ SelectSeq(r, Ascii) = SelectSeq(s, Ascii)
        /\ \A i \in -5 .. 4 :
             LET t == J!tua_str_substring(s, i)
             IN  IF i >= n \/ i < -n THEN t = J!Panic
                 ELSE J!count_codepoints_best_effort(t) = (IF i < 0 THEN -i ELSE n - i) /\ IsSuffix(t, s)
-----------------------------------------------------------------------------
Pick == PickDocument \/ PickBuffers \/ PickHalves \/ PickText

LibraryExactOn(c) == InBoundsOn(c) /\ HalvesOn(c) /\ TextOn(c)
=============================================================================
