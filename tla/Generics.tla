------------------------------ MODULE Generics ------------------------------
(***************************************************************************)
(* Generic functions: what a call infers, how instances are made and named *)
(* (compiler.c, llvm/llvm_call.c, tuac_codegen.c).                         *)
(*                                                                         *)
(* A type is <<kind>>, <<"named", name, args>>, <<"ref", t>>,              *)
(* <<"array", t, length>> (-1 is dynamic) or <<"fn", ps, rs>>.  A program  *)
(* has modules, in the order they are compiled, with the aliases their     *)
(* imports made and their declarations; compiling gathers a table w of it. *)
(* ctx is what the compiler's fields say while it compiles a call: the     *)
(* module, what the type parameters stand for and the types of the         *)
(* parameters in scope.                                                    *)
(***************************************************************************)
EXTENDS Integers, Sequences, SequencesExt, TLC

Unknown == <<"unknown">>
AnyType == <<"any">>
Named(n) == <<"named", n, <<>>>>
Option(t) == <<"named", "Option", <<t>>>>

IsNamed(t) == t[1] = "named"
IsPlainName(t) == IsNamed(t) /\ t[3] = <<>>

isBuiltinNamedTypeToken(n) == n \in {"map", "Option", "ptr", "bytes", "Slice"}

\* How many instances may be in the making, 64 in the code.
MaxInstances == 4

-----------------------------------------------------------------------------
(* Names *)

AliasOf(w, ctx, n, kind) == {a \in w.aliases[ctx.module] : a.local = n /\ a.kind = kind}
Qualify(ctx, n) == ctx.module \o "__" \o n

\* An alias hides what the module declares; then the name as it is.
ResolveByToken(w, ctx, n, kind, all) ==
  LET as == {a.qualified : a \in AliasOf(w, ctx, n, kind)}
  IN  IF as # {} THEN CHOOSE a \in as : TRUE
      ELSE IF Qualify(ctx, n) \in all THEN Qualify(ctx, n)
      ELSE IF n \in all THEN n ELSE ""

compilerResolveStructByToken(w, ctx, n) == ResolveByToken(w, ctx, n, "struct", w.structs)
compilerResolveTraitByToken(w, ctx, n)  == ResolveByToken(w, ctx, n, "trait", w.traits)

compilerResolveGenericType(ctx, t) ==
  IF IsPlainName(t) /\ t[2] \in DOMAIN ctx.substs \ {"map", "Option", "ptr"} THEN ctx.substs[t[2]] ELSE t

RECURSIVE canonicalizeTypeForGenericArg(_, _, _)
canonicalizeTypeForGenericArg(w, ctx, t) ==
  LET src == compilerResolveGenericType(ctx, t)
      All(ts) == [i \in DOMAIN ts |-> canonicalizeTypeForGenericArg(w, ctx, ts[i])]
      struct == compilerResolveStructByToken(w, ctx, src[2])
  IN  CASE src[1] = "ref"   -> <<"ref", canonicalizeTypeForGenericArg(w, ctx, src[2])>>
        [] src[1] = "array" -> <<"array", canonicalizeTypeForGenericArg(w, ctx, src[2]), src[3]>>
        [] src[1] = "fn"    -> <<"fn", All(src[2]), All(src[3])>>
        [] IsNamed(src) ->
             <<"named",
               IF isBuiltinNamedTypeToken(src[2]) THEN src[2] ELSE IF struct # "" THEN struct ELSE Qualify(ctx, src[2]),
               All(src[3])>>
        [] OTHER -> src

\* Kinds without a spelling of their own are spelled any.
Spelled == [k \in {"bool", "string", "i8", "i16", "int", "long", "isize", "u8", "u16", "u32", "u64", "usize", "byte", "f16", "ptr"} |-> k]
           @@ ("float" :> "f32") @@ ("double" :> "f64")

RECURSIVE sbAppendTypeMangle(_)
sbAppendTypeMangle(t) ==
  CASE t[1] = "ref"   -> "Ref_" \o sbAppendTypeMangle(t[2])
    [] t[1] = "array" -> "Arr_" \o sbAppendTypeMangle(t[2]) \o (IF t[3] < 0 THEN "_dyn" ELSE "_N" \o ToString(t[3]))
    [] t[1] = "fn"    -> "Fn"
    [] IsNamed(t)     -> FoldLeft(LAMBDA s, a : s \o "_" \o sbAppendTypeMangle(a), t[2], t[3])
    [] OTHER          -> IF t[1] \in DOMAIN Spelled THEN Spelled[t[1]] ELSE "any"

\* Mutant of mangleGenericInstanceName: only the first argument is spelled.
MangleFirst(base, args) == base \o "__G__" \o sbAppendTypeMangle(args[1])

mangleGenericInstanceName(base, args) ==
  FoldLeft(LAMBDA s, i : s \o (IF i > 1 THEN "_" ELSE "") \o sbAppendTypeMangle(args[i]), base \o "__G__", [i \in DOMAIN args |-> i])

-----------------------------------------------------------------------------
(* Inference *)

\* The type of an argument as far as it is known.
RECURSIVE inferTypeFromValueExpr(_, _, _)
inferTypeFromValueExpr(w, ctx, e) ==
  LET Or(t) == IF t = Unknown THEN AnyType ELSE t
      S == compilerResolveStructByToken(w, ctx, e[2])
  IN  CASE e[1] = "literal"   -> e[2]
        [] e[1] = "variable"  -> e[2]
        [] e[1] = "param"     -> ctx.params[e[2]]
        [] e[1] = "some"      -> Option(Or(inferTypeFromValueExpr(w, ctx, e[2])))
        [] e[1] = "none"      -> Option(AnyType)
        [] e[1] = "slice"     -> <<"named", "Slice", <<IF e[2][1] = "array" THEN e[2][2] ELSE <<"byte">>>>>>
        [] e[1] = "construct" -> IF S = "" THEN Unknown ELSE Named(S)
        [] OTHER              -> Unknown

RECURSIVE astTypeEqualsDeep(_, _)
astTypeEqualsDeep(a, b) ==
  /\ a[1] = b[1]
  /\ IsNamed(a) => /\ a[2] = b[2] /\ Len(a[3]) = Len(b[3])
                   /\ \A i \in DOMAIN a[3] : astTypeEqualsDeep(a[3][i], b[3][i])
  /\ a[1] = "ref" => astTypeEqualsDeep(a[2], b[2])
  /\ a[1] = "array" => a[3] = b[3] /\ astTypeEqualsDeep(a[2], b[2])

\* Where a parameter's type can name a type parameter, and what an argument of
\* type t tells of it.
TypeParamIn(pt) ==
  CASE IsNamed(pt) /\ pt[2] \in {"Option", "Slice"} /\ Len(pt[3]) = 1 /\ IsPlainName(pt[3][1]) -> pt[3][1][2]
    [] pt[1] \in {"array", "ref"} /\ IsNamed(pt[2]) -> IF pt[1] = "array" /\ pt[2][3] # <<>> THEN "" ELSE pt[2][2]
    [] IsNamed(pt) -> pt[2]
    [] OTHER -> ""
Wrapped(pt) == (IsNamed(pt) /\ pt[2] \in {"Option", "Slice"}) \/ pt[1] = "array"
Told(pt, t) ==
  CASE ~Wrapped(pt) -> t
    [] pt[1] = "array" -> IF t[1] = "array" THEN t[2] ELSE Unknown
    [] Wrapped(pt) /\ IsNamed(pt) -> IF IsNamed(t) /\ t[2] = pt[2] /\ Len(t[3]) = 1 THEN t[3][1] ELSE Unknown

IsTraitObject(w, ctx, t) ==
  \/ IsNamed(t) /\ compilerResolveTraitByToken(w, ctx, t[2]) # ""
  \/ t[1] = "ref" /\ IsNamed(t[2]) /\ compilerResolveTraitByToken(w, ctx, t[2][2]) # ""

\* A type is kept against any and any gives way to it.
Kept(was, t) ==
  CASE t = Unknown -> was
    [] t # Unknown /\ was \in {Unknown, AnyType} -> t
    [] OTHER -> was

\* One type for each parameter of the template, or <<>>.
inferTypeArgsForGenericCall(w, ctx, tmpl, args) ==
  LET Step(known, i) ==
        LET pt == compilerResolveGenericType(ctx, tmpl.types[i])
            at == inferTypeFromValueExpr(w, ctx, args[i])
            js == {j \in DOMAIN tmpl.params : tmpl.params[j].name = TypeParamIn(pt)}
            t  == Told(pt, at)
        IN  IF known = <<>> \/ js = {} \/ t = Unknown THEN known
            ELSE LET j == CHOOSE j \in js : \A k \in js : j <= k
                     conflict == known[j] \notin {Unknown, AnyType} /\ t # AnyType /\ ~astTypeEqualsDeep(known[j], t)
                 IN  IF conflict \/ (~Wrapped(pt) /\ IsTraitObject(w, ctx, at)) THEN <<>>
                     ELSE [known EXCEPT ![j] = Kept(@, t)]
      known == FoldLeft(Step, [j \in DOMAIN tmpl.params |-> Unknown], [i \in DOMAIN tmpl.types |-> i])
  IN  IF Len(args) # Len(tmpl.types) \/ Unknown \in ToSet(known) THEN <<>> ELSE known

-----------------------------------------------------------------------------
(* What a module declares.                                                 *)

ModuleContext(m) == [module |-> m.prefix, params |-> <<>>, substs |-> <<>>]

compilerRegisterGenericFuncTemplate(w, m, name, params, types, body) ==
  IF name \in DOMAIN w.templates THEN [w EXCEPT !.err = TRUE]
  ELSE [w EXCEPT !.templates = (name :> [module |-> m.prefix, params |-> params, types |-> types, body |-> body]) @@ @]

\* A function with parameters of trait types is a template too, with a bounded
\* type parameter for each of them.
IsTraitType(w, m, t) == IsNamed(t) /\ compilerResolveTraitByToken(w, ModuleContext(m), t[2]) # ""
AutoGeneric(w, m, f) ==
  LET at   == SelectSeq([i \in DOMAIN f.types |-> i], LAMBDA i : IsTraitType(w, m, f.types[i]))
      T(k) == "T" \o ToString(k - 1)
  IN  [f EXCEPT !.params = [k \in DOMAIN at |-> [name |-> T(k), bound |-> f.types[at[k]][2]]],
                !.types = [i \in DOMAIN @ |-> IF i \in ToSet(at) THEN Named(T(CHOOSE k \in DOMAIN at : at[k] = i)) ELSE @[i]]]

RegisterFunction(w, m, f) ==
  LET g == IF f.params = <<>> THEN AutoGeneric(w, m, f) ELSE f
  IN  IF g.params = <<>> THEN w
      ELSE compilerRegisterGenericFuncTemplate(w, m, Qualify(ModuleContext(m), f.name), g.params, g.types, f.body)

\* A method of `impl<T> Option<T>` is a template of its type's name, with `this`.
RegisterImpl(w, m, i) ==
  LET builtin == i.target[1] = "array" \/ i.target[2] \in {"Option", "Slice"}
      base    == IF i.target[1] = "array" THEN "array" ELSE i.target[2]
      Add(u, f) == compilerRegisterGenericFuncTemplate(u, m, base \o "__" \o f.name, i.params, <<i.target>> \o f.types, f.body)
  IN  CASE i.params = <<>> \/ i.methods = <<>> -> w
        [] i.params # <<>> /\ i.methods # <<>> /\ builtin /\ (IsNamed(i.target) => i.target[3] # <<>>) -> FoldLeft(Add, w, i.methods)
        [] OTHER -> [w EXCEPT !.err = TRUE]

RecordTraitImpl(w, m, i) ==
  LET NameOf(n, kind) == LET as == {a.qualified : a \in AliasOf(w, ModuleContext(m), n, kind)}
                         IN  IF as # {} THEN CHOOSE a \in as : TRUE ELSE Qualify(ModuleContext(m), n)
  IN  [w EXCEPT !.impls = @ \cup {<<NameOf(i.trait, "trait"), NameOf(i.target, "struct")>>}]

\* Before a module's functions are compiled.
PrePass(w, m) ==
  LET Own(kind) == {Qualify(ModuleContext(m), n) : n \in kind}
      types     == [w EXCEPT !.aliases = (m.prefix :> m.aliases) @@ @, !.structs = @ \cup Own(m.structs), !.traits = @ \cup Own(m.traits)]
      templates == FoldLeft(LAMBDA u, f : RegisterFunction(u, m, f), types, m.functions)
      methods   == FoldLeft(LAMBDA u, i : RegisterImpl(u, m, i), templates, m.impls)
      pairs     == FoldLeft(LAMBDA u, i : RecordTraitImpl(u, m, i), methods, m.traitImpls)
  IN  [pairs EXCEPT !.functions = @ \cup Own({f.name : f \in {g \in ToSet(m.functions) : g.params = <<>>}})]

-----------------------------------------------------------------------------
(* Instances.  s holds the table of the program, the functions by name with *)
(* what they are instances of, the instances in the making, whether an      *)
(* error was reported, and the calls that were compiled.                    *)

Begin(w) ==
  [w |-> w, stack |-> <<>>, err |-> w.err, calls |-> {},
   fns |-> [n \in w.functions |-> [template |-> "", types |-> <<>>]]]

NoFunction == ""
Result(s, fn) == [s |-> s, fn |-> fn]
Failed(s) == Result([s EXCEPT !.err = TRUE], NoFunction)

\* The context of a template's body.
BodyContext(w, tmpl, canon) ==
  LET outer == [module |-> tmpl.module, params |-> <<>>,
                substs |-> [n \in {p.name : p \in ToSet(tmpl.params)} |->
                              canon[CHOOSE i \in DOMAIN canon : tmpl.params[i].name = n]]]
  IN  [outer EXCEPT !.params = [i \in DOMAIN tmpl.types |-> compilerResolveGenericType(outer, tmpl.types[i])]]

\* A bound is met by the structs that have an impl of the trait.
BoundMet(w, ctx, bound, t) ==
  bound # "" => /\ IsPlainName(t)
                /\ <<compilerResolveTraitByToken(w, ctx, bound), t[2]>> \in w.impls

RECURSIVE compilerInstantiateGenericFunc(_, _, _, _), ResolveGenericCall(_, _, _)

compilerInstantiateGenericFunc(s, ctx, name, typeArgs) ==
  LET w     == s.w
      tmpl  == w.templates[name]
      canon == [i \in DOMAIN typeArgs |-> canonicalizeTypeForGenericArg(w, ctx, typeArgs[i])]
      inst  == mangleGenericInstanceName(name, canon)
      inner == BodyContext(w, tmpl, canon)
      bounds == \A i \in DOMAIN tmpl.params : BoundMet(w, inner, tmpl.params[i].bound, canon[i])
      made  == [s EXCEPT !.stack = Append(@, <<name, canon>>), !.fns = (inst :> [template |-> name, types |-> canon]) @@ @]
      t     == FoldLeft(LAMBDA u, call : ResolveGenericCall(u, inner, call).s, made, tmpl.body)
  IN  IF Len(typeArgs) # Len(tmpl.params) \/ Len(s.stack) >= MaxInstances THEN Failed(s)
      ELSE IF inst \in DOMAIN s.fns THEN Result(s, inst)
      ELSE IF <<name, canon>> \in ToSet(s.stack) \/ ~bounds \/ s.err THEN Failed(s)
      ELSE Result([t EXCEPT !.stack = s.stack], inst)

\* The functions a name can stand for: the module's, an imported one, that name.
Candidates(w, ctx, callee) ==
  <<Qualify(ctx, callee)>> \o SetToSeq({a.qualified : a \in AliasOf(w, ctx, callee, "fn")}) \o <<callee>>

\* A call with type arguments, or without (<<>>).
ResolveGenericCall(s, ctx, call) ==
  LET w     == s.w
      names == SelectSeq(Candidates(w, ctx, call.callee), LAMBDA n : n \in DOMAIN w.templates)
      found == IF call.typeArgs # <<>> THEN call.typeArgs
               ELSE inferTypeArgsForGenericCall(w, ctx, w.templates[Head(names)], call.args)
      r     == IF names = <<>> \/ found = <<>> THEN Result(s, NoFunction)
               ELSE compilerInstantiateGenericFunc(s, ctx, Head(names), found)
      plain == SelectSeq(Candidates(w, ctx, call.callee), LAMBDA n : n \in DOMAIN s.fns)
      fn    == CASE r.fn # NoFunction -> r.fn
                 [] r.fn = NoFunction /\ ~r.s.err /\ call.typeArgs = <<>> /\ plain # <<>> -> Head(plain)
                 [] OTHER -> NoFunction
  IN  IF fn = NoFunction THEN Failed(r.s)
      ELSE Result([r.s EXCEPT !.calls = @ \cup {[ctx |-> ctx, call |-> call, fn |-> fn]}], fn)

\* A program's modules, and then the calls of its last one.
NoTable == [templates |-> <<>>, functions |-> {}, impls |-> {}, structs |-> {}, traits |-> {}, aliases |-> <<>>, err |-> FALSE]
CompileProgram(p) ==
  FoldLeft(LAMBDA s, call : ResolveGenericCall(s, ModuleContext(Last(p.modules)), call).s,
           Begin(FoldLeft(PrePass, NoTable, p.modules)), p.calls)
=============================================================================
