--------------------------- MODULE DispatchCases ---------------------------
(***************************************************************************)
(* Programs of structs in structs with methods and traits, and what the    *)
(* language says each access and call in them reaches.                     *)
(***************************************************************************)
EXTENDS Integers, Sequences, FiniteSets, SequencesExt, TLC

VARIABLE case

D == INSTANCE Dispatch

Idle == [algorithm |-> "none"]

Field(n, t) == [name |-> n, type |-> t, embedded |-> FALSE, const |-> FALSE, initialized |-> FALSE]
Embedded(n, t) == [Field(n, t) EXCEPT !.embedded = TRUE]
Lower(T) == D!LowerCamel[T]

\* ...T, ...T as e, const base: T, base: T = v, and one of another name; base: T
\* alone is left out, see the README for what happens then.
Constant(T) == [Field(Lower(T), T) EXCEPT !.const = TRUE]
FieldsOf(T) ==
  {Embedded(Lower(T), T), Embedded("e" \o T, T), Constant(T), [Field(Lower(T), T) EXCEPT !.initialized = TRUE], Field("p" \o T, T)}
Seen(T)   == {Embedded(Lower(T), T), Constant(T)}
Embeds(T) == Seen(T) \cup {Field("p" \o T, T)}

Struct(n, fields, methods) == [kind |-> "struct", name |-> n, fields |-> fields, methods |-> methods]
Impl(n, methods) == [kind |-> "impl", target |-> n, methods |-> methods]
TraitImpl(t, n, methods) == [kind |-> "trait impl", trait |-> t, target |-> n, methods |-> methods]
Use(kind, n, member) == [kind |-> kind, trait |-> "Tr", struct |-> n, member |-> member]
Method(m) == [name |-> m, params |-> <<[mode |-> "const", type |-> "int"], [mode |-> "const", type |-> "A"]>>, returns |-> <<"int">>]
Others(m) ==
  {[Method(m) EXCEPT !.params = Tail(@)], [Method(m) EXCEPT !.params[1].mode = "move"], [Method(m) EXCEPT !.params[2].type = "B"],
   [Method(m) EXCEPT !.returns = <<"int", "int">>], [Method(m) EXCEPT !.returns = <<"A">>]}
Other(m) == [Method(m) EXCEPT !.params[2].type = "B"]

If(c, fields) == IF c THEN fields ELSE <<>>
Program(traits, body) == [algorithm |-> "dispatch", program |-> [traits |-> ("Tr" :> traits), body |-> body]]
M == <<Method("m")>>

\* Fields x of A, B, C and D, of which later ones have earlier ones inside.
FieldPrograms ==
  {Program(<<>>, <<Struct("A", If(1 \in own, <<Field("x", "int")>>), <<>>),
                   Struct("B", <<fb>> \o If(2 \in own, <<Field("x", "int")>>), <<>>),
                   Struct("C", If(3 \in own, <<Field("x", "int")>>) \o <<fa, fc>>, <<>>),
                   Struct("D", <<Embedded("c", "C")>>, <<>>), Use("field", n, f)>>) :
     own \in SUBSET (1 .. 3), fb \in FieldsOf("A"), fa \in Embeds("A"), fc \in Embeds("B"), n \in {"C", "D"}, f \in {"x", "a"}}

\* The statements after the structs: impls of m, of the trait, and early uses.
Later ==
  LET impl  == {Impl(n, M) : n \in {"A", "B", "C"}}
      trait == {TraitImpl("Tr", "C", ms) : ms \in {<<>>, M}}
      early == {Use(k, "C", "m") : k \in {"call", "bound"}}
  IN  {<<t>> : t \in trait} \cup {<<a, b>> : a \in impl \cup early \cup trait, b \in trait} \cup {<<t, a>> : t \in trait, a \in impl}
      \cup {<<e, a, t>> : e \in early, a \in impl, t \in trait} \cup {<<t, e, a>> : e \in early, a \in impl, t \in trait}
      \cup {<<a, t, b>> : a, b \in impl, t \in trait}

UsesOfC == <<Use("call", "C", "m"), Use("bound", "C", "m"), Use("object", "C", "m")>>
MethodPrograms ==
  {Program(M, <<Struct("A", <<Field("x", "string")>>, If("A" \in own, M)), Struct("B", <<fb, Field("y", "map")>>, If("B" \in own, M)),
                Struct("C", If(fa.name # "none", <<fa>>) \o <<fc>>, If("C" \in own, M))>>
              \o later \o uses) :
     own \in {{}, {"A"}, {"B"}, {"A", "B"}, {"C"}}, fb \in Seen("A"), fa \in Seen("A") \cup {Field("none", "int")}, fc \in Seen("B"),
     later \in Later, uses \in {<<>>, UsesOfC}}

\* Traits of two methods, of other signatures, impls that do not fit.
Impls ==
  {<<TraitImpl("Tr", "B", <<d>>)>> : d \in Others("m")}
  \cup {<<TraitImpl("Tr", "B", ms)>> : ms \in {M, <<Method("m"), Method("n")>>, <<Method("n"), Method("n")>>, <<Method("o")>>}}
  \cup {<<TraitImpl("Tr", "B", ms)>> \o again : ms \in {<<>>, <<Method("n")>>}, again \in {<<>>, <<TraitImpl("Tr", "B", M)>>, <<TraitImpl("U", "B", <<>>)>>}}
TraitPrograms ==
  {Program(tr, <<Struct("A", <<>>, as), Struct("B", <<Embedded("a", "A")>>, bs)>> \o impl \o traits
              \o [i \in 1 .. 4 |-> Use(<<"ref", "bound", "object", "call">>[i], "B", m)]) :
     tr \in {<<Method("m"), Method("n")>>, <<Method("n"), Other("m")>>, <<Method("m"), Method("m")>>}, as \in {<<>>, <<Method("m"), Method("n")>>, <<Other("m"), Method("n")>>},
     bs \in {<<>>, M}, impl \in {<<>>, <<Impl("B", M)>>, <<Impl("B", <<Other("m")>>)>>}, traits \in Impls, m \in {"m", "n", "o"}}

\* Values of all kinds inside structs.
DropPrograms ==
  {Program(M, <<Struct("A", <<Field("x", ka), Field("y", kb)>>, <<>>), Struct("B", <<f, Field("z", kc)>>, M),
                Struct("C", <<Field("s", "B"), Embedded("a", "A"), Field("t", "Tr")>>, M), TraitImpl("Tr", "B", <<>>), TraitImpl("Tr", "C", <<>>),
                Use("object", "C", "m"), Use("object", "B", "m")>>) :
     ka \in D!Owning \cup {"int", "Tr"}, kb \in {"int", "string", "Tr"}, kc \in {"int", "map"}, f \in {Embedded("a", "A"), Field("p", "A"), Field("n", "int")}}

-----------------------------------------------------------------------------
(* What the language says.  T.f is T's own f; if T has none, the only f in  *)
(* what T embeds, at any depth below one that has an f; if there are more,  *)
(* it is unclear, and if there is none, wrong.  At the k-th statement of a  *)
(* program there is what the statements before it have declared.            *)

StructOf(p, S) == CHOOSE st \in ToSet(p.body) : st.kind = "struct" /\ st.name = S
IsStruct(p, S) == \E st \in ToSet(p.body) : st.kind = "struct" /\ st.name = S

\* Where a struct's methods of a name are declared before the k-th statement.
Declarations(p, k, S, m) ==
  {<<j, i>> \in (1 .. k - 1) \X (1 .. 2) :
     LET st == p.body[j]
     IN  /\ (st.kind = "struct" /\ st.name = S) \/ (st.kind = "impl" /\ st.target = S)
         /\ i \in DOMAIN st.methods /\ st.methods[i].name = m}
SigsOf(p, k, S, m) ==
  {<<p.body[d[1]].methods[d[2]].params, p.body[d[1]].methods[d[2]].returns>> : d \in Declarations(p, k, S, m)}

\* Programs in which no method is declared twice: see the README for what
\* happens then, and with a method called drop.
PickProgram ==
  /\ case = Idle
  /\ \E c \in FieldPrograms \cup MethodPrograms \cup TraitPrograms \cup DropPrograms :
       /\ \A S \in {"A", "B", "C"}, m \in {"m", "n"} :
            Cardinality(Declarations(c.program, Len(c.program.body) + 1, S, m)) <= 1
       /\ case' = c

\* The paths through fields, and where they end: the struct, or the kind of
\* value, or no type.
EndOf(p, S, path) ==
  LET Step(T, i) == IF ~IsStruct(p, T) THEN "" ELSE IF i \in DOMAIN StructOf(p, T).fields THEN StructOf(p, T).fields[i].type ELSE ""
  IN  FoldLeft(Step, S, path)
FieldAt(p, S, path) == StructOf(p, EndOf(p, S, Front(path))).fields[Last(path)]
AllPaths(p, S) ==
  {path \in UNION {[1 .. n -> 1 .. 3] : n \in 0 .. D!MaxPath} : EndOf(p, S, path) # ""}
Before(path) == Prefixes(path) \ {path}
\* Those through embedded fields.
Walks(p, S) ==
  {path \in AllPaths(p, S) : /\ Len(path) < D!MaxPath /\ IsStruct(p, EndOf(p, S, path))
                             /\ \A q \in Prefixes(path) : q # <<>> => FieldAt(p, S, q).embedded}

\* What is nearest on each walk that has it, if it is one.
Only(p, S, Count(_)) ==
  LET walks == Walks(p, S)
      Has(q) == Count(EndOf(p, S, q)) > 0
      near  == {path \in walks : Has(path) /\ \A q \in Before(path) : ~Has(q)}
  IN  CASE near = {} -> D!Nothing
        [] Cardinality(near) = 1 /\ (\A q \in near : Count(EndOf(p, S, q)) = 1) ->
             LET path == CHOOSE q \in near : TRUE IN D!Path(<<EndOf(p, S, path)>>, path)
        [] OTHER -> D!Ambiguous

FieldSaid(p, S, f) == Only(p, S, LAMBDA T : Cardinality({i \in DOMAIN StructOf(p, T).fields : StructOf(p, T).fields[i].name = f}))
MethodSaid(p, k, S, m) == Only(p, S, LAMBDA T : Cardinality(Declarations(p, k, T, m)))

\* The methods an impl of a trait brings, and the impls of one pair before k.
Brings(st, m) == \E d \in ToSet(st.methods) : d.name = m
ImplsBefore(p, k, Tr, S) == {j \in 1 .. k - 1 : p.body[j].kind = "trait impl" /\ p.body[j].trait = Tr /\ p.body[j].target = S}
Brought(p, k, Tr, S, m) == \E j \in ImplsBefore(p, k, Tr, S) : Brings(p.body[j], m)

\* An impl brings methods of the trait, once each, and the rest are there.
ImplFits(p, k) ==
  LET st  == p.body[k]
      tr  == p.traits[st.trait]
      Fits(d) == \E req \in ToSet(tr) : req.name = d.name /\ req.params = d.params /\ req.returns = d.returns
      There(req) == LET r == MethodSaid(p, k, st.target, req.name) IN r.found /\ SigsOf(p, k, Head(r.to), req.name) = {<<req.params, req.returns>>}
  IN  /\ st.trait \in DOMAIN p.traits
      /\ \A d \in ToSet(st.methods) : Fits(d) /\ ~Brought(p, k, st.trait, st.target, d.name)
      /\ Cardinality({d.name : d \in ToSet(st.methods)}) = Len(st.methods)
      /\ \A req \in ToSet(tr) : Brings(st, req.name) \/ There(req)

\* A trait's method of a struct is the impl's, or else the struct's.
Bound(p, k, Tr, S, m) ==
  IF Brought(p, k, Tr, S, m) THEN D!Path(<<S, Tr, m>>, <<>>) ELSE D!Member(MethodSaid(p, k, S, m), m)

\* The first use of a pair's method in a function with a bound, the first impl.
SmallestOf(js) == CHOOSE j \in js : \A i \in js : j <= i
FirstBound(p, k) == SmallestOf({j \in 1 .. k : p.body[j] = p.body[k]})

\* The values inside a struct that a drop releases.
Releases(p, S) == {path \in AllPaths(p, S) : EndOf(p, S, path) \in D!Owning \cup DOMAIN p.traits}

\* What a use says, found or not.
Said(p, k) ==
  LET u == p.body[k]
      known == \E d \in ToSet(p.traits[u.trait]) : d.name = u.member
      impls == ImplsBefore(p, k, u.trait, u.struct)
      first == SmallestOf(impls)
      slot  == IF Brings(p.body[first], u.member) THEN D!Path(<<u.struct, u.trait, u.member>>, <<>>)
               ELSE D!Member(MethodSaid(p, first, u.struct, u.member), u.member)
  IN  CASE u.kind = "field" -> D!Member(FieldSaid(p, u.struct, u.member), u.member)
        [] u.kind = "call" -> D!Member(MethodSaid(p, k, u.struct, u.member), u.member)
        [] u.kind = "bound" -> IF known /\ ImplsBefore(p, Len(p.body) + 1, u.trait, u.struct) # {}
                               THEN Bound(p, FirstBound(p, k), u.trait, u.struct, u.member) ELSE D!Nothing
        [] u.kind \in {"object", "ref"} -> IF known /\ impls # {} THEN slot ELSE D!Nothing

Uses(p) == SelectSeq([k \in DOMAIN p.body |-> k], LAMBDA k : p.body[k].kind \notin {"struct", "impl", "trait impl"})
WrongAt(p, k) == IF p.body[k].kind \in {"struct", "impl"} THEN FALSE
                 ELSE IF p.body[k].kind = "trait impl" THEN ~ImplFits(p, k) ELSE ~Said(p, k).found

\* A program in which every method of a pair stands before its only impl.
Tidy(p) ==
  /\ \A j, k \in DOMAIN p.body : p.body[j].kind = "trait impl" /\ j < k => p.body[k].kind \notin {"struct", "impl", "trait impl"}
  /\ \A k \in DOMAIN p.body : p.body[k].kind = "bound" => \E j \in 1 .. k : p.body[j].kind = "trait impl"

DispatchedOn(c) ==
  c.algorithm = "dispatch" =>
    LET p == c.program
        s == D!CompileProgram(p)
        uses  == Uses(p)
        wrong == {k \in DOMAIN p.body : WrongAt(p, k)} \cup {0 : t \in {u \in DOMAIN p.traits : D!Repeats(p.traits[u])}}
        until == IF wrong = {} THEN Len(p.body) ELSE SmallestOf(wrong)
        Agrees(r, k) ==
          /\ [r EXCEPT !.released = <<>>] = Said(p, k)
          /\ IsInjective(r.released)
          /\ ToSet(r.released) = IF p.body[k].kind = "object" /\ r.found THEN Releases(p, p.body[k].struct) ELSE {}
    IN  /\ s.err <=> wrong # {}
        /\ \A i \in DOMAIN uses : uses[i] <= until => Agrees(s.reached[i], uses[i])
        /\ Tidy(p) /\ ~s.err => \A i, j \in DOMAIN uses :
             /\ p.body[uses[i]].kind = "bound" /\ p.body[uses[j]].kind = "object"
             /\ p.body[uses[i]].struct = p.body[uses[j]].struct /\ p.body[uses[i]].member = p.body[uses[j]].member
             => s.reached[i] = [s.reached[j] EXCEPT !.released = <<>>]
=============================================================================
