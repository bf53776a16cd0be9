---------------------------- MODULE GenericCases ----------------------------
(***************************************************************************)
(* Programs of two modules with generic functions, and the instances that  *)
(* the language says they have.                                            *)
(***************************************************************************)
EXTENDS Integers, Sequences, FiniteSets, SequencesExt, TLC

VARIABLE case

G == INSTANCE Generics

Idle == [algorithm |-> "none"]

IntType == <<"int">>
S   == G!Named("S")
T   == G!Named("T")
Tr  == G!Named("Tr")
Array(t) == <<"array", t, -1>>
Slice(t) == <<"named", "Slice", <<t>>>>

Param(n, bound) == [name |-> n, bound |-> bound]
Call(f, types, args) == [callee |-> f, typeArgs |-> types, args |-> args]
Func(name, params, types, body) == [name |-> name, params |-> params, types |-> types, body |-> body]

X == <<"param", 1>>

\* What f(x: P) does with x.
Bodies ==
  { <<>>, <<Call("g", <<>>, <<X>>)>>, <<Call("g", <<T>>, <<X>>)>>, <<Call("g", <<>>, <<<<"some", X>>>>)>>,
    <<Call("g", <<>>, <<<<"construct", "S">>>>), Call("h", <<>>, <<X, <<"construct", "S">>>>)>>, <<Call("f", <<T>>, <<X>>)>>,
    <<Call("f", <<G!Option(T)>>, <<<<"some", X>>>>)>>, <<Call("g", <<S>>, <<X>>), Call("g", <<T, T>>, <<X>>)>> }

Args ==
  { <<"literal", IntType>>, <<"variable", S>>, <<"variable", G!Option(S)>>, <<"variable", G!Option(G!Option(IntType))>>,
    <<"variable", Array(IntType)>>, <<"variable", Tr>>, <<"some", <<"literal", IntType>>>>, <<"some", <<"construct", "S">>>>, <<"none">>,
    <<"construct", "S">>, <<"slice", Array(S)>>, <<"slice", <<"bytes">>>>, <<"other">> }

\* Module lib, which main imports.  h is declared with the types hs, g with a
\* bound, or of a trait: then it is a template too.
Imported == {[local |-> n, kind |-> "fn", qualified |-> "lib__" \o n] : n \in {"f", "g", "h"}}
            \cup {[local |-> "Tr", kind |-> "trait", qualified |-> "lib__Tr"]}
Lib(P, body, bound, trait, hs) ==
  [prefix |-> "lib", aliases |-> {}, structs |-> {"S"}, traits |-> {"Tr"}, traitImpls |-> <<>>,
   functions |-> <<Func("f", <<Param("T", "")>>, <<P>>, body),
                   IF trait THEN Func("g", <<>>, <<Tr>>, <<>>) ELSE Func("g", <<Param("U", bound)>>, <<G!Named("U")>>, <<>>),
                   Func("h", <<Param("V", ""), Param("W", "")>>, hs, <<>>)>>,
   impls |-> <<[params |-> <<Param("Z", "")>>, target |-> G!Option(G!Named("Z")),
                methods |-> <<Func("m", <<>>, <<G!Named("Z")>>, <<>>)>>]>>]
Main ==
  [prefix |-> "main", aliases |-> Imported, structs |-> {"S"}, traits |-> {}, functions |-> <<Func("main", <<>>, <<>>, <<>>)>>,
   impls |-> <<>>, traitImpls |-> <<[trait |-> "Tr", target |-> "S"]>>]
Program(P, body, bound, trait, hs, calls) == [modules |-> <<Lib(P, body, bound, trait, hs), Main>>, calls |-> calls]

TypesOfH == { <<G!Named("V"), G!Named("W")>>, <<Array(G!Named("W")), G!Named("V")>>, <<G!Named("V"), G!Named("V")>> }

\* A variable's type is as it was declared and a construction's as the module
\* names it; arguments that meet in one type parameter are of one kind.
Declared == {<<"variable", S>>, <<"variable", G!Option(S)>>, <<"slice", Array(S)>>}
Built    == {<<"construct", "S">>, <<"some", <<"construct", "S">>>>}
Meet(a, b) == ~(a \in Declared /\ b \in Built) /\ ~(a \in Built /\ b \in Declared)

PickProgram ==
  /\ case = Idle
  /\ \/ \E P \in {T, <<"ref", T>>, G!Option(T), Slice(T), Array(T), IntType, G!Option(G!Option(T))}, body \in Bodies,
           bound \in {<<"", FALSE>>, <<"Tr", FALSE>>, <<"Tr", TRUE>>}, types \in {<<>>, <<IntType>>, <<S>>}, a \in Args :
           case' = [algorithm |-> "generic",
                    program |-> Program(P, body, bound[1], bound[2], <<G!Named("V"), G!Named("W")>>, <<Call("f", types, <<a>>)>>)]
     \/ \E hs \in TypesOfH, a, b \in Args, c \in Args \cup {<<"again">>} :
           /\ Meet(a, b) /\ Meet(c, b)
           /\ case' = [algorithm |-> "generic",
                    program |-> Program(T, <<>>, "", FALSE, hs,
                                        <<Call("h", <<>>, <<a, b>>),
                                          IF c = <<"again">> THEN Call("h", <<S, IntType>>, <<a, b>>) ELSE Call("h", <<>>, <<c, b>>)>>)]
     \/ \E o \in {e \in Args : e[1] \in {"some", "none"}}, a \in Args, trait \in BOOLEAN :
           /\ Meet(o, a)
           /\ case' = [algorithm |-> "generic",
                    program |-> Program(T, <<>>, "Tr", trait, <<T, T>>, <<Call("Option__m", <<>>, <<o, a>>), Call("g", <<>>, <<a>>)>>)]
-----------------------------------------------------------------------------
(* What the language says: a generic function has an instance for each list *)
(* of types it is called with.                                              *)

\* A type as every module can say it.
RECURSIVE Said(_, _, _)
Said(module, env, t) ==
  CASE t[1] = "ref"   -> <<"ref", Said(module, env, t[2])>>
    [] t[1] = "array" -> Array(Said(module, env, t[2]))
    [] t[1] = "named" ->
         CASE t[2] \in DOMAIN env -> env[t[2]]
           [] t[2] \in {"Option", "Slice"} -> <<"named", t[2], <<Said(module, env, t[3][1])>>>>
           [] t[2] = "S" -> G!Named(module \o "__S")
           [] t[2] = "Tr" -> G!Named("lib__Tr")
           [] OTHER -> t
    [] OTHER -> t

RECURSIVE TypeOf(_, _, _, _)
TypeOf(module, env, params, e) ==
  CASE e[1] = "param"     -> Said(module, env, params[e[2]])
    [] e[1] = "some"      -> G!Option(TypeOf(module, env, params, e[2]))
    [] e[1] = "none"      -> G!Option(G!AnyType)
    [] e[1] = "construct" -> G!Named(module \o "__S")
    [] e[1] = "slice"     -> Slice(IF e[2][1] = "array" THEN Said(module, env, e[2][2]) ELSE <<"byte">>)
    [] e[1] = "other"     -> G!Unknown
    [] OTHER              -> Said(module, env, e[2])

\* An argument of type a is what a parameter of type p says when its type
\* parameters stand for env.
RECURSIVE Fits(_, _, _)
Fits(tmpl, env, pa) ==
  LET p == pa[1]
      a == pa[2]
      Inside(i, j) == Fits(tmpl, env, <<i, j>>)
  IN  CASE a \in {G!AnyType, G!Unknown} -> TRUE
        [] a \notin {G!AnyType, G!Unknown} /\ p[1] = "named" /\ p[2] \in DOMAIN env -> env[p[2]] = a
        [] p[1] = "named" /\ p[2] \in {"Option", "Slice"} -> a[1] = "named" /\ a[2] = p[2] /\ Inside(p[3][1], a[3][1])
        [] p[1] = "array" -> a[1] = "array" /\ Inside(p[2], a[2])
        [] p[1] = "ref" -> Inside(p[2], a)
        [] OTHER -> TRUE

\* The parameters that an argument shows: T, &T, Option<T>, Slice<T>, T[].
Shows(p, a, n) ==
  /\ a # G!Unknown
  /\ p \in {G!Named(n), <<"ref", G!Named(n)>>, G!Option(G!Named(n)), Slice(G!Named(n)), Array(G!Named(n))}

Parts(t) == IF t[1] = "named" /\ Len(t[3]) = 1 THEN {t, t[3][1]} ELSE IF t[1] = "array" THEN {t, t[2]} ELSE {t}

\* The types a call without type arguments stands for, <<>> if they are unclear.
Inferred(tmpl, as) ==
  LET env(ts)  == [n \in {tmpl.params[i].name : i \in DOMAIN ts} |-> ts[CHOOSE i \in DOMAIN ts : tmpl.params[i].name = n]]
      universe == UNION {Parts(as[i]) : i \in DOMAIN as}
      fitting  == {ts \in [DOMAIN tmpl.params -> universe] :
                     \A i \in DOMAIN as : Fits(tmpl, env(ts), <<tmpl.types[i], as[i]>>)}
      plain    == {ts \in fitting : G!Unknown \notin ToSet(ts)}
      exact(ts) == {i \in DOMAIN as : Said(tmpl.module, env(ts), tmpl.types[i]) = as[i]}
      known    == {ts \in plain : ~\E us \in plain : exact(us) # exact(ts) /\ exact(ts) \subseteq exact(us)}
      only(j)  == LET vs == {ts[j] : ts \in known} IN IF Cardinality(vs) = 1 THEN CHOOSE v \in vs : TRUE ELSE G!AnyType
  IN  IF known = {} \/ \E p \in ToSet(tmpl.params) : ~\E i \in DOMAIN as : Shows(tmpl.types[i], as[i], p.name) THEN <<>>
      ELSE [j \in DOMAIN tmpl.params |-> only(j)]

Plain == <<"plain", <<>>>>
Wrong == <<"wrong", <<>>>>

\* The generic functions of a program; one that takes a trait is of any type
\* that has the trait.
Generic(p) ==
  LET lib == p.modules[1]
      Of(f) == LET free == f.params = <<>>
               IN  [module |-> "lib", params |-> IF free THEN <<Param("T0", "Tr")>> ELSE f.params,
                    types |-> IF free THEN <<G!Named("T0")>> ELSE f.types, body |-> f.body, plain |-> free]
      m == lib.impls[1]
  IN  [n \in {"lib__" \o f.name : f \in ToSet(lib.functions)} |-> Of(CHOOSE f \in ToSet(lib.functions) : n = "lib__" \o f.name)]
      @@ ("Option__m" :> [module |-> "lib", params |-> m.params, types |-> <<m.target>> \o m.methods[1].types, body |-> <<>>, plain |-> FALSE])
TemplateOf(w, callee) == IF "lib__" \o callee \in DOMAIN w THEN "lib__" \o callee ELSE callee

\* What a call leads to.
LeadsTo(w, module, env, params, call) ==
  LET name == TemplateOf(w, call.callee)
      tmpl == w[name]
      as   == [i \in DOMAIN call.args |-> TypeOf(module, env, params, call.args[i])]
      ts   == IF call.typeArgs # <<>> THEN [i \in DOMAIN call.typeArgs |-> Said(module, env, call.typeArgs[i])]
              ELSE IF G!Named("lib__Tr") \in ToSet(as) THEN <<>>
              ELSE Inferred(tmpl, as)
      bounded == \A i \in DOMAIN ts : tmpl.params[i].bound # "" => ts[i] = G!Named("main__S")
  IN  CASE ts = <<>> -> IF tmpl.plain /\ call.typeArgs = <<>> THEN Plain ELSE Wrong
        [] ts # <<>> -> IF Len(ts) = Len(tmpl.params) /\ bounded THEN <<name, ts>> ELSE Wrong

\* All that a program comes to, some levels down.
RECURSIVE Reached(_, _, _)
Reached(w, insts, n) ==
  LET Env(i) == LET ps == w[i[1]].params
                IN  [x \in {ps[j].name : j \in DOMAIN ps} |-> i[2][CHOOSE j \in DOMAIN ps : ps[j].name = x]]
      Next(i) == IF i \in {Plain, Wrong} THEN {}
                 ELSE LET t == w[i[1]] IN {LeadsTo(w, t.module, Env(i), t.types, c) : c \in ToSet(t.body)}
      more == insts \cup UNION {Next(i) : i \in insts}
  IN  IF more = insts THEN insts ELSE IF n = 0 THEN {Wrong} ELSE Reached(w, more, n - 1)

InstancesOn(c) ==
  c.algorithm = "generic" =>
    LET p == c.program
        s == G!CompileProgram(p)
        own == {n \in DOMAIN s.fns : s.fns[n].template = ""}
        fns == {s.fns[n] : n \in DOMAIN s.fns \ own}
        all == LET w == Generic(p) IN Reached(w, {LeadsTo(w, "main", <<>>, <<>>, call) : call \in ToSet(p.calls)}, G!MaxInstances)
    IN  /\ s.err <=> Wrong \in all
        /\ s.stack = <<>>
        /\ ~s.err => /\ {<<f.template, f.types>> : f \in fns} = all \ {Plain}
                     /\ Cardinality(fns) = Cardinality(DOMAIN s.fns \ own)
                     /\ Plain \in all <=> \E r \in s.calls : r.fn \in own
=============================================================================
