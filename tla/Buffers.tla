------------------------------ MODULE Buffers -------------------------------
(***************************************************************************)
(* Buffers of bytes (tua_bytes.c): the checks that keep every access       *)
(* inside a buffer, and the conversions between arrays of 32-bit floats    *)
(* and of the two 16-bit formats.                                          *)
(*                                                                         *)
(* A buffer is [len, readonly]; an operation answers [err, reads, writes], *)
(* the offsets it touches in its source and its destination.  Lengths and  *)
(* offsets are integers of 64 bits, here of SizeBits, whose sums and       *)
(* products wrap around.  A float is [sign, mag], its magnitude the other  *)
(* bits.                                                                   *)
(***************************************************************************)
EXTENDS Integers

CONSTANT SizeBits

Half(b) == 2 ^ (b - 1)
Wrap(x) == ((x + Half(SizeBits)) % 2 ^ SizeBits) - Half(SizeBits)

Untouched(e) == [err |-> e, reads |-> {}, writes |-> {}]
Touched(r, w) == [err |-> "OK", reads |-> r, writes |-> w]
Span(off, n) == off .. off + n - 1

tua_bytes_get_u8(b, idx) ==
  IF idx < 0 \/ idx >= b.len THEN Untouched("INVALID") ELSE Touched({idx}, {})

tua_bytes_set_u8(b, idx, v) ==
  CASE b.readonly -> Untouched("ACCESS")
    [] ~b.readonly /\ (idx < 0 \/ idx >= b.len \/ v < 0 \/ v > 255) -> Untouched("INVALID")
    [] OTHER -> Touched({}, {idx})

\* What the copying and converting functions check alike, of sizes in bytes
\* per element in the source and in the destination.
Transfer(dst, dstOff, src, srcOff, n, from, to) ==
  LET s == Wrap(n * from)  d == Wrap(n * to)
  IN  CASE dst.readonly -> Untouched("ACCESS")
        [] ~dst.readonly /\ n = 0 -> Untouched("OK")
        [] ~dst.readonly /\ n # 0 ->
             IF \/ n < 0 \/ dst.len = 0 \/ src.len = 0 \* an empty buffer has no data
                \/ dstOff < 0 \/ srcOff < 0 \/ dstOff > dst.len \/ srcOff > src.len
                \/ s < 0 \/ d < 0
                \/ Wrap(dstOff + d) > dst.len \/ Wrap(srcOff + s) > src.len
             THEN Untouched("INVALID")
             ELSE Touched(Span(srcOff, n * from), Span(dstOff, n * to))

tua_bytes_copy(dst, dstOff, src, srcOff, n) == Transfer(dst, dstOff, src, srcOff, n, 1, 1)
Widen(dst, dstOff, src, srcOff, n)  == Transfer(dst, dstOff, src, srcOff, n, 2, 4)
Narrow(dst, dstOff, src, srcOff, n) == Transfer(dst, dstOff, src, srcOff, n, 4, 2)

tua_str_from_bytes_copy(b, off, len) ==
  CASE len = 0 -> Untouched("OK")
    [] len < 0 \/ (len > 0 /\ (b.len = 0 \/ off < 0 \/ off > b.len \/ Wrap(off + len) > b.len)) -> Untouched("INVALID")
    [] OTHER -> Touched(Span(off, len), {})
-----------------------------------------------------------------------------
(* The conversions of one number.                                           *)

Float(sign, exp, mant) == [sign |-> sign, mag |-> exp * 2 ^ 23 + mant]

\* The exponent of a subnormal half once its mantissa has been shifted up.
RECURSIVE Normalized(_, _)
Normalized(exp, mant) == IF mant >= 1024 THEN [exp |-> exp, mant |-> mant % 1024] ELSE Normalized(exp - 1, 2 * mant)

tua_f16_to_f32(h) ==
  LET exp  == h.mag \div 1024
      mant == h.mag % 1024
      n    == Normalized(1, mant)
  IN  CASE exp = 0 /\ mant = 0 -> Float(h.sign, 0, 0)
        [] exp = 0 /\ mant # 0 -> Float(h.sign, n.exp + 112, n.mant * 8192)
        [] exp = 31 -> Float(h.sign, 255, mant * 8192)
        [] exp \in 1 .. 30 -> Float(h.sign, exp + 112, mant * 8192)

\* Mutant of Shifted: ties go up.
ShiftedUp(m, s) == (m + 2 ^ (s - 1)) \div 2 ^ s

\* m without its last s bits, rounded to the nearest, ties to even.
Shifted(m, s) ==
  LET q == m \div 2 ^ s  rem == m % 2 ^ s  mid == 2 ^ (s - 1)
  IN  IF rem > mid \/ (rem = mid /\ q % 2 = 1) THEN q + 1 ELSE q

tua_f32_to_f16(f) ==
  LET exp  == (f.mag \div 2 ^ 23) - 112
      mant == f.mag % 2 ^ 23
      m    == Shifted(mant, 13)
      nan  == IF mant \div 8192 = 0 THEN 1 ELSE mant \div 8192
      up   == IF m = 1024 THEN exp + 1 ELSE exp
      mag  == CASE exp < -10 -> 0
                [] exp \in -10 .. 0 -> Shifted(mant + 2 ^ 23, 14 - exp)
                [] exp >= 31 -> 31 * 1024 + (IF mant = 0 THEN 0 ELSE nan)
                [] exp \in 1 .. 30 -> IF up >= 31 THEN 31 * 1024 ELSE up * 1024 + (m % 1024)
  IN  [sign |-> f.sign, mag |-> mag]

tua_bf16_to_f32(h) == [sign |-> h.sign, mag |-> h.mag * 65536]

\* A carry out of the magnitude turns the sign.
tua_f32_to_bf16(f) ==
  LET q   == f.mag \div 65536
      low == f.mag % 65536
      u   == q + ((low + 32767 + (q % 2)) \div 65536)
  IN  IF u = 32768 THEN [sign |-> 1 - f.sign, mag |-> 0] ELSE [sign |-> f.sign, mag |-> u]
=============================================================================
