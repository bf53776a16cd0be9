---------------------------- MODULE Conversions ----------------------------
(***************************************************************************)
(* Numeric kinds in the compiler: what the analyzer infers and allows      *)
(* (src/tua/src/analyzer.c) and what the code generator emits for it       *)
(* (src/tua/src/llvm/llvm_expr.c, llvm_var.c, llvm_call.c, compiler.c).    *)
(* The two are written apart, each with its own tables and promotions.     *)
(*                                                                         *)
(* Widths are scaled down and keep their order.  An integer value is its   *)
(* bit pattern, a number in 0 .. 2^w - 1; a floating-point value is a      *)
(* number of halves, rounded to the mantissa of its type, without          *)
(* overflow.  Undefined results of LLVM's instructions are Poison.         *)
(***************************************************************************)
EXTENDS Integers

CONSTANTS
  Width,       \* LLVM integer type -> bits
  Mantissa,    \* LLVM floating-point type -> bits of its mantissa
  NaN          \* a number of halves that stands for not-a-number

IntTypes   == {"i1", "i8", "i16", "i32", "i64"}
FloatTypes == {"half", "bfloat", "float", "double"}

Val(ty, x) == [ty |-> ty, x |-> x, tag |-> ""]
Any(tag, x) == [ty |-> "any", x |-> x, tag |-> tag]
Poison == Val("poison", 0)
Nothing == Val("error", 0)          \* NULL: the compiler reports an error

-----------------------------------------------------------------------------
(* Kinds *)

SignedKinds   == {"i8", "i16", "int", "long", "isize"}
UnsignedKinds == {"u8", "u16", "u32", "u64", "usize"}
IntKinds      == SignedKinds \cup UnsignedKinds
FloatKinds    == {"f16", "bf16", "float", "double"}
Fp8Kinds      == {"f8", "bf8"}
NumericKinds  == IntKinds \cup FloatKinds \cup Fp8Kinds

\* Pointers are as wide as i64.
llvmNumericTypeFromKind(k) ==
  CASE k = "bool" -> "i1"
    [] k \in {"i8", "u8", "f8", "bf8"} -> "i8"
    [] k \in {"i16", "u16"} -> "i16"
    [] k \in {"int", "u32"} -> "i32"
    [] k \in {"long", "u64", "isize", "usize"} -> "i64"
    [] k = "f16" -> "half"
    [] k = "bf16" -> "bfloat"
    [] k \in {"float", "double"} -> k
    [] OTHER -> "any"

\* The bits of an integer kind as each of the two programs sees them.
atIntBits(k) == Width[llvmNumericTypeFromKind(k)]
typeKindIntBits(k) == Width[llvmNumericTypeFromKind(k)]

Wider(a, b) == IF a > b THEN a ELSE b

-----------------------------------------------------------------------------
(* LLVM's conversions *)

Signed(v) == IF v.x >= 2 ^ (Width[v.ty] - 1) THEN v.x - 2 ^ Width[v.ty] ELSE v.x

Abs(n) == IF n < 0 THEN -n ELSE n

\* n halves rounded to p significant bits, ties to even.
Round(n, p) ==
  IF n = NaN THEN NaN ELSE
  LET k    == CHOOSE k \in 0..24 : Abs(n) < 2 ^ (p + k) /\ (k = 0 \/ Abs(n) >= 2 ^ (p + k - 1))
      unit == 2 ^ k
      q    == Abs(n) \div unit
      rest == 2 * (Abs(n) % unit)
      up   == rest > unit \/ (rest = unit /\ q % 2 = 1)
      m    == IF up THEN (q + 1) * unit ELSE q * unit
  IN  IF n < 0 THEN -m ELSE m

Trunc(v, ty)  == Val(ty, v.x % 2 ^ Width[ty])
ZExt(v, ty)   == Val(ty, v.x)
SExt(v, ty)   == Val(ty, Signed(v) % 2 ^ Width[ty])
SIToFP(v, ty) == Val(ty, Round(2 * Signed(v), Mantissa[ty]))
UIToFP(v, ty) == Val(ty, Round(2 * v.x, Mantissa[ty]))
FPCast(v, ty) == Val(ty, Round(v.x, Mantissa[ty]))

TowardZero(n) == IF n < 0 THEN -((-n) \div 2) ELSE n \div 2

IntRange(ty, signed) ==
  IF signed THEN -(2 ^ (Width[ty] - 1)) .. 2 ^ (Width[ty] - 1) - 1 ELSE 0 .. 2 ^ Width[ty] - 1

FPToInt(v, ty, signed) ==
  IF v.x = NaN \/ TowardZero(v.x) \notin IntRange(ty, signed) THEN Poison
  ELSE Val(ty, TowardZero(v.x) % 2 ^ Width[ty])

-----------------------------------------------------------------------------
(* The code generator's casts between LLVM types *)

\* Boxing into `any`: the payload of an integer is sign-extended.
tuaValueFromValue(v) ==
  CASE v.ty = "any" -> v
    [] v.ty = "i1"  -> Any("BOOL", ZExt(v, "i64").x)
    [] v.ty = "i32" -> Any("INT", SExt(v, "i64").x)
    [] v.ty = "i64" -> Any("LONG", v.x)
    [] v.ty \in {"i8", "i16"} -> Any("LONG", SExt(v, "i64").x)
    [] v.ty = "double" -> Any("DOUBLE", v.x)
    [] v.ty = "float"  -> Any("DOUBLE", FPCast(v, "double").x)
    [] OTHER -> Nothing

\* The run time's side of unboxing; the wrong tag ends the program.
tua_value_to_int(v)  == IF v.tag \in {"INT", "LONG"} THEN Trunc(Val("i64", v.x), "i32") ELSE Nothing
tua_value_to_long(v) ==
  CASE v.tag = "LONG" -> Val("i64", v.x)
    [] v.tag = "INT"  -> SExt(Trunc(Val("i64", v.x), "i32"), "i64")
    [] OTHER -> Nothing
tua_value_to_double(v) ==
  CASE v.tag = "DOUBLE" -> Val("double", v.x)
    [] v.tag = "INT"    -> SIToFP(Trunc(Val("i64", v.x), "i32"), "double")
    [] v.tag = "LONG"   -> SIToFP(Val("i64", v.x), "double")
    [] OTHER -> Nothing
tua_value_to_bool(v) == Val("i32", IF v.tag = "BOOL" THEN (IF v.x = 0 THEN 0 ELSE 1)
                                   ELSE IF v.tag = "NIL" THEN 0 ELSE 1)

castFromTuaValue(v, ty) ==
  CASE v.ty # "any" -> v
    [] ty = "i1"  -> Trunc(tua_value_to_bool(v), ty)
    [] ty \in {"i8", "i16", "i32"} ->
         LET n == tua_value_to_int(v) IN IF n = Nothing \/ ty = "i32" THEN n ELSE Trunc(n, ty)
    [] ty = "i64"    -> tua_value_to_long(v)
    [] ty = "double" -> tua_value_to_double(v)
    [] ty = "float"  -> LET d == tua_value_to_double(v) IN IF d = Nothing THEN d ELSE FPCast(d, ty)
    [] OTHER -> v

\* Reading an element whose kind is known straight out of the payload.
decodeScalarFromTuaValueUnchecked(v, k) ==
  LET ty == llvmNumericTypeFromKind(k)
  IN  CASE k \in IntKinds -> IF ty = "i64" THEN Val(ty, v.x) ELSE Trunc(Val("i64", v.x), ty)
        [] k = "bool"     -> Trunc(Val("i64", v.x), "i1")
        [] k = "double"   -> Val(ty, v.x)
        [] k = "float"    -> FPCast(Val("double", v.x), ty)
        [] OTHER -> castFromTuaValue(v, ty)

\* The casts that know LLVM types only take every integer for a signed one;
\* floats are the floating-point types they know.
LegacyCast(v, ty, floats) ==
  CASE v.ty = ty -> v
    [] v.ty \in IntTypes /\ ty \in IntTypes ->
         IF Width[v.ty] < Width[ty] THEN SExt(v, ty) ELSE Trunc(v, ty)
    [] v.ty \in IntTypes /\ ty \in floats -> SIToFP(v, ty)
    [] v.ty \in floats /\ ty \in IntTypes -> FPToInt(v, ty, TRUE)
    [] v.ty \in floats /\ ty \in floats ->
         IF {v.ty, ty} = {"half", "bfloat"} THEN FPCast(FPCast(v, "float"), ty) ELSE FPCast(v, ty)
    [] OTHER -> v

castToType(v, ty) ==
  IF v.ty = ty THEN v
  ELSE IF ty = "any" THEN tuaValueFromValue(v)
  ELSE LET u == castFromTuaValue(v, ty) IN IF u = Nothing THEN u ELSE LegacyCast(u, ty, FloatTypes)

\* The cast of declarations is the same but for half and bfloat out of `any`.
castIfNeeded(v, ty) ==
  IF v.ty = "any" /\ ty \in {"half", "bfloat"}
  THEN LET d == tua_value_to_double(v) IN IF d = Nothing THEN d ELSE FPCast(d, ty)
  ELSE castToType(v, ty)

\* The cast of arguments, fields of a new struct and returned values.
castValueToType(v, ty) ==
  IF v.ty = ty THEN v
  ELSE LET u == castFromTuaValue(v, ty) IN IF u = Nothing THEN u ELSE LegacyCast(u, ty, {"float", "double"})

-----------------------------------------------------------------------------
(* The casts that know kinds *)

Fp8Move(sk, dk) == (sk \in Fp8Kinds \/ sk = "u8") /\ (dk \in Fp8Kinds \/ dk = "u8")

castNumericToKind(v, sk, dk) ==
  LET ty == llvmNumericTypeFromKind(dk)
  IN  IF sk = "any" \/ dk = "any" THEN castToType(v, ty)
      ELSE IF {sk, dk} \cap Fp8Kinds # {} THEN IF Fp8Move(sk, dk) THEN castToType(v, "i8") ELSE Nothing
      ELSE LET u == IF v.ty = "any" THEN castFromTuaValue(v, llvmNumericTypeFromKind(sk)) ELSE v
           IN  CASE u.ty = ty -> u
                 [] u.ty \in IntTypes /\ ty \in IntTypes ->
                      IF Width[u.ty] > Width[ty] THEN Trunc(u, ty)
                      ELSE IF Width[u.ty] = Width[ty] THEN u
                      ELSE IF sk \in UnsignedKinds THEN ZExt(u, ty) ELSE SExt(u, ty)
                 [] u.ty \in IntTypes /\ ty \in FloatTypes ->
                      IF sk \in UnsignedKinds THEN UIToFP(u, ty) ELSE SIToFP(u, ty)
                 [] u.ty \in FloatTypes /\ ty \in IntTypes -> FPToInt(u, ty, dk \notin UnsignedKinds)
                 [] OTHER -> castToType(u, ty)

\* The bounds of the checked casts, as 64-bit integers.
smaxBits(bits) == 2 ^ (bits - 1) - 1
sminBits(bits) == -(2 ^ (bits - 1))
umaxBits(bits) == 2 ^ bits - 1

\* Mutant of IntFits: of a signed number only the sign is looked at.
IntFitsSign(v, sk, dk) == sk \in UnsignedKinds \/ dk \in SignedKinds \/ Signed(v) >= 0

\* Which integers `expr as T` accepts, by the signedness of the two kinds.
IntFits(v, sk, dk) ==
  LET sb == Width[v.ty]
      db == typeKindIntBits(dk)
      srcU == sk \in UnsignedKinds
      dstU == dk \in UnsignedKinds
  IN  CASE db >= sb /\ srcU = dstU -> TRUE
        [] ~srcU /\ ~dstU -> Signed(v) >= sminBits(db) /\ Signed(v) <= smaxBits(db)
        [] srcU /\ dstU   -> v.x <= umaxBits(db)
        [] ~srcU /\ dstU  -> Signed(v) >= 0 /\ (db < sb => Signed(v) <= umaxBits(db))
        [] srcU /\ ~dstU  -> db >= sb + 1 \/ v.x <= smaxBits(db)

\* The bounds are compared as doubles.
FloatFits(v, dk) ==
  LET db == typeKindIntBits(dk)
      AsDouble(n) == Round(2 * n, Mantissa["double"])
      lo == IF dk \in UnsignedKinds THEN 0 ELSE AsDouble(sminBits(db))
      hi == IF dk \in UnsignedKinds THEN AsDouble(umaxBits(db)) ELSE AsDouble(smaxBits(db))
  IN  v.x # NaN /\ v.x >= lo /\ v.x <= hi

Some(v) == [ok |-> TRUE, v |-> v]
None(ty) == [ok |-> FALSE, v |-> Val(ty, 0)]

checkedCastToOption(v, sk, dk) ==
  LET ty   == llvmNumericTypeFromKind(dk)
      cast == castNumericToKind(v, sk, dk)
  IN  CASE sk \in IntKinds /\ dk \in IntKinds -> IF IntFits(v, sk, dk) THEN Some(cast) ELSE None(ty)
        [] sk \in FloatKinds /\ dk \in IntKinds ->
             IF FloatFits(castToType(v, "double"), dk) THEN Some(cast) ELSE None(ty)
        [] OTHER -> IF cast = Nothing THEN None(ty) ELSE Some(cast)

\* `(T)expr`
emitCastExpr(v, sk, dk) ==
  LET ty == llvmNumericTypeFromKind(dk)
  IN  IF sk = "bool" THEN IF ty \in IntTypes THEN ZExt(v, ty) ELSE UIToFP(v, ty)
      ELSE castNumericToKind(v, sk, dk)

-----------------------------------------------------------------------------
(* Which implicit conversions the analyzer allows *)

atAssignable(to, from) ==
  CASE to = "any" \/ from = "any" \/ to = from -> TRUE
    [] ~({to, from} \subseteq NumericKinds) -> FALSE
    [] to \in Fp8Kinds -> from = "u8"
    [] to = "u8" /\ from \in Fp8Kinds -> TRUE
    [] to \in FloatKinds -> TRUE
    [] to \in IntKinds /\ from \in IntKinds ->
         (to \in SignedKinds <=> from \in SignedKinds) /\ atIntBits(from) <= atIntBits(to)
    [] OTHER -> FALSE

\* The places where a value is converted to a declared kind.
Sites == {"declare", "assign", "argument", "field", "return"}
ImplicitCast(site, v, sk, dk) ==
  LET ty == llvmNumericTypeFromKind(dk)
      known == {sk, dk} \subseteq NumericKinds
  IN  CASE site \in {"declare", "assign"} /\ known -> castNumericToKind(v, sk, dk)
        [] site = "declare" -> castIfNeeded(v, ty)
        [] site \in {"assign", "field"} -> castToType(v, ty)
        [] OTHER -> castValueToType(v, ty)

-----------------------------------------------------------------------------
(* Binary operators *)

Arith == {"+", "-", "*", "/"}
Order == {"<", "<="}
Shift == {"<<", ">>"}
Bits  == {"&"}
Ops   == Arith \cup Order \cup {"=="} \cup Shift \cup Bits

Rejected == "rejected"
SameSign(lk, rk) == lk \in SignedKinds <=> rk \in SignedKinds

\* The analyzer's promotion of two integers that make n bits.
AtPromoted(lk, rk, n) ==
  LET bits == Wider(n, Width["i32"])
      size == {lk, rk} \cap {"isize", "usize"} # {}
  IN  IF lk \in SignedKinds
      THEN IF bits = Width["i64"] /\ size THEN "isize" ELSE IF bits >= Width["i64"] THEN "long" ELSE "int"
      ELSE IF bits = Width["i64"] /\ size THEN "usize" ELSE IF bits >= Width["i64"] THEN "u64" ELSE "u32"

\* Both programs promote floats alike.
FloatPromoted(lk, rk) ==
  LET has(k) == k \in {lk, rk}
  IN  IF has("double") THEN "double"
      ELSE IF has("float") \/ (has("f16") /\ has("bf16")) THEN "float"
      ELSE IF has("f16") THEN "f16" ELSE "bf16"

\* The kind of `l op r`, or Rejected.
inferBinary(op, lk, rk) ==
  LET both == {lk, rk}
      n    == IF op \in Shift THEN atIntBits(lk) ELSE Wider(atIntBits(lk), atIntBits(rk))
  IN  CASE op = "==" -> "bool"
        [] op \in Shift \cup Bits ->
             IF ~(both \subseteq IntKinds) \/ (op \in Bits /\ ~SameSign(lk, rk)) THEN Rejected
             ELSE AtPromoted(lk, rk, n)
        [] both \cap Fp8Kinds # {} -> Rejected
        [] both \cap FloatKinds # {} -> IF op \in Order THEN "bool" ELSE FloatPromoted(lk, rk)
        [] OTHER -> IF ~SameSign(lk, rk) THEN Rejected
                    ELSE IF op \in Order THEN "bool" ELSE AtPromoted(lk, rk, n)

\* The code generator's promotion: signedness comes from the left operand.
PromotedKind(lk, rk, n) ==
  LET bits == Wider(n, Width["i32"])
  IN  IF lk \in UnsignedKinds
      THEN IF bits = Width["i64"] /\ "usize" \in {lk, rk} THEN "usize"
           ELSE IF bits >= Width["i64"] THEN "u64" ELSE "u32"
      ELSE IF bits = Width["i64"] /\ "isize" \in {lk, rk} THEN "isize"
           ELSE IF bits >= Width["i64"] THEN "long" ELSE "int"

Bool(b) == Val("i1", IF b THEN 1 ELSE 0)

\* a \div b rounded toward zero, as sdiv does.
Quotient(a, b) == IF (a < 0) = (b < 0) THEN Abs(a) \div Abs(b) ELSE -(Abs(a) \div Abs(b))

\* The bits of a & b.
RECURSIVE BitAnd(_, _)
BitAnd(a, b) ==
  IF a = 0 \/ b = 0 THEN 0
  ELSE 2 * BitAnd(a \div 2, b \div 2) + (IF a % 2 = 1 /\ b % 2 = 1 THEN 1 ELSE 0)

IntOp(op, l, r, unsigned) ==
  LET a == IF unsigned THEN l.x ELSE Signed(l)
      b == IF unsigned THEN r.x ELSE Signed(r)
      Wrap(n) == Val(l.ty, n % 2 ^ Width[l.ty])
  IN  CASE op = "+"  -> Wrap(a + b)
        [] op = "-"  -> Wrap(a - b)
        [] op = "*"  -> Wrap(a * b)
        [] op = "/"  -> IF b = 0 \/ Quotient(a, b) \notin IntRange(l.ty, ~unsigned) THEN Poison
                        ELSE Wrap(Quotient(a, b))
        [] op = "<"  -> Bool(a < b)
        [] op = "<=" -> Bool(a <= b)
        [] op = "==" -> Bool(l.x = r.x)

\* Mutant of ShiftOp: the distance is not masked.
ShiftUnmasked(op, l, r, unsigned) ==
  LET w == Width[l.ty]
  IN  IF op = "<<" THEN Val(l.ty, (l.x * 2 ^ r.x) % 2 ^ w)
      ELSE Val(l.ty, ((IF unsigned THEN l.x ELSE Signed(l)) \div 2 ^ r.x) % 2 ^ w)

ShiftOp(op, l, r, unsigned) ==
  LET w  == Width[l.ty]
      sh == BitAnd(r.x, w - 1)
  IN  IF op = "<<" THEN Val(l.ty, (l.x * 2 ^ sh) % 2 ^ w)
      ELSE Val(l.ty, ((IF unsigned THEN l.x ELSE Signed(l)) \div 2 ^ sh) % 2 ^ w)

FloatOp(op, l, r) ==
  CASE op \in Order \cup {"=="} ->
         Bool(/\ NaN \notin {l.x, r.x}
              /\ CASE op = "<" -> l.x < r.x [] op = "<=" -> l.x <= r.x [] OTHER -> l.x = r.x)
    [] op = "+" -> Val(l.ty, IF NaN \in {l.x, r.x} THEN NaN ELSE Round(l.x + r.x, Mantissa[l.ty]))
    [] op = "-" -> Val(l.ty, IF NaN \in {l.x, r.x} THEN NaN ELSE Round(l.x - r.x, Mantissa[l.ty]))
    [] OTHER -> Val(l.ty, NaN)        \* the value of * and / is not modelled

emitBinaryExpr(op, l, lk, r, rk) ==
  LET n  == IF op \in Shift THEN typeKindIntBits(lk) ELSE Wider(typeKindIntBits(lk), typeKindIntBits(rk))
      ck == IF {lk, rk} \cap FloatKinds # {} THEN FloatPromoted(lk, rk) ELSE PromotedKind(lk, rk, n)
      a  == castNumericToKind(l, lk, ck)
      b  == castNumericToKind(r, rk, ck)
  IN  CASE {lk, rk} \cap Fp8Kinds # {} -> Nothing
        [] op \in Shift -> ShiftOp(op, a, b, lk \in UnsignedKinds)
        [] op \in Bits  -> Val(a.ty, BitAnd(a.x, b.x))
        [] ck \in FloatKinds -> FloatOp(op, a, b)
        [] OTHER -> IntOp(op, a, b, lk \in UnsignedKinds)
=============================================================================
