------------------------------ MODULE Dispatch ------------------------------
(***************************************************************************)
(* Structs that embed structs, and traits: what a member access or a call  *)
(* reaches (compiler.c, llvm/llvm_expr.c, llvm/llvm_call.c).               *)
(*                                                                         *)
(* A program is a sequence of statements, compiled in that order: a struct *)
(* with fields and methods, an impl of a struct, an impl of a trait for a  *)
(* struct, and uses in functions.  A field has a name, a type (a struct, a *)
(* trait or a kind of value), and is embedded, const or initialized.  A    *)
(* method has a name, the modes and types of its parameters and the types  *)
(* of its results, all resolved.  A function is named <<struct, method>>   *)
(* or <<struct, trait, method>>.  w says what the passes before found: the *)
(* traits with their methods and the impls of traits.                      *)
(***************************************************************************)
EXTENDS Integers, Sequences, SequencesExt, TLC

\* A path goes through fewer embedded fields than this; 16 in the code.
MaxPath == 3

LowerCamel == [A |-> "a", B |-> "b", C |-> "c", D |-> "d"]

Begin == [structs |-> <<>>, fns |-> {}, drops |-> <<>>, vtables |-> <<>>, instances |-> <<>>, err |-> FALSE, reached |-> <<>>]

\* Where a name leads: to the member of a struct at the end of a path of
\* embedded fields, to nothing, or to several.  When a trait object is dropped
\* after that, also what this releases.
Nothing   == [found |-> FALSE, ambiguous |-> FALSE, to |-> <<>>, path |-> <<>>, released |-> <<>>]
Ambiguous == [Nothing EXCEPT !.ambiguous = TRUE]
Path(to, path) == [Nothing EXCEPT !.found = TRUE, !.to = to, !.path = path]
Member(p, m)   == IF p.found THEN [p EXCEPT !.to = Append(@, m)] ELSE p

-----------------------------------------------------------------------------
(* Embedded fields *)

\* Mutant of fieldLooksEmbedded: a const field passes for an embedded one.
LooksByName(f) == f.embedded \/ (f.type \in DOMAIN LowerCamel /\ ~f.initialized /\ f.name = LowerCamel[f.type])

\* A plain field `base: Base` passes for an embedded one.
fieldLooksEmbedded(f) ==
  \/ f.embedded
  \/ f.type \in DOMAIN LowerCamel /\ ~f.const /\ ~f.initialized /\ f.name = LowerCamel[f.type]

\* The search goes down where a struct has no such member itself; a second
\* find, or two members of one struct, ends it.  members[S] counts those of
\* S, inside[S] are its fields to go through.
RECURSIVE Search(_, _, _, _, _)
Search(s, how, S, path, best) ==
  LET n == how.members[S]
      Down(b, i) == Search(s, how, s.structs[S].fields[i].type, Append(path, i), b)
  IN  IF best.ambiguous \/ Len(path) >= MaxPath THEN best
      ELSE IF n > 1 \/ (n = 1 /\ best.found) THEN Ambiguous
      ELSE IF n = 1 THEN Path(<<S>>, path)
      ELSE FoldLeft(Down, best, how.inside[S])

FieldsWhere(s, S, declaredOnly) ==
  LET fs == s.structs[S].fields
      Goes(f) == IF declaredOnly THEN f.embedded ELSE fieldLooksEmbedded(f)
  IN  SelectSeq([i \in DOMAIN fs |-> i], LAMBDA i : Goes(fs[i]) /\ fs[i].type \in DOMAIN s.structs)

promotedFieldSearch(s, S, f) ==
  LET Named(T) == IF \E g \in ToSet(s.structs[T].fields) : g.name = f THEN 1 ELSE 0
      how == [members |-> [T \in DOMAIN s.structs |-> Named(T)],
              inside  |-> [T \in DOMAIN s.structs |-> FieldsWhere(s, T, FALSE)]]
  IN  Search(s, how, S, <<>>, Nothing)

\* By the functions that have been compiled.
promotedMethodSearch(s, S, m) ==
  LET how == [members |-> [T \in DOMAIN s.structs |-> IF <<T, m>> \in s.fns THEN 1 ELSE 0],
              inside  |-> [T \in DOMAIN s.structs |-> FieldsWhere(s, T, FALSE)]]
  IN  Search(s, how, S, <<>>, Nothing)

\* By the methods that have been declared, through embedded fields only.
structFindDirectMethodByName(s, S, m) == SelectSeq(s.structs[S].methods, LAMBDA d : d.name = m)
promotedMethodSigSearch(s, S, m) ==
  LET how == [members |-> [T \in DOMAIN s.structs |-> Len(structFindDirectMethodByName(s, T, m))],
              inside  |-> [T \in DOMAIN s.structs |-> FieldsWhere(s, T, TRUE)]]
  IN  Search(s, how, S, <<>>, Nothing)

-----------------------------------------------------------------------------
(* Structs and their methods *)

compileStructStmt(s, st) ==
  [s EXCEPT !.structs = (st.name :> [fields |-> st.fields, methods |-> st.methods]) @@ @,
            !.fns = @ \cup {<<st.name, d.name>> : d \in ToSet(st.methods)}]

\* A method defined a second time, or an unknown target, is reported, which
\* does not stop the compilation: the method is not compiled but declared it is.
compileImplStmt(s, st) ==
  IF st.target \notin DOMAIN s.structs THEN s
  ELSE [s EXCEPT !.structs[st.target].methods = @ \o st.methods,
                 !.fns = @ \cup {<<st.target, d.name>> : d \in ToSet(st.methods)}]

\* The kinds of values a drop releases, besides trait objects and structs.
Owning == {"string", "map", "bytes", "array", "closure"}

\* A struct's drop releases its fields in their order.  It is named like a
\* method and a method of that name is taken for it.
RECURSIVE compilerGetOrCreateStructDrop(_, _, _)
compilerGetOrCreateStructDrop(w, s, S) ==
  LET fields  == s.structs[S].fields
      dropped == SelectSeq([i \in DOMAIN fields |-> i],
                           LAMBDA i : fields[i].type \in Owning \cup DOMAIN w.traits \cup DOMAIN s.structs)
      made == [s EXCEPT !.fns = @ \cup {<<S, "drop">>}, !.drops = (S :> dropped) @@ @]
      Inner(u, f) == IF f.type \in DOMAIN u.structs THEN compilerGetOrCreateStructDrop(w, u, f.type) ELSE u
  IN  IF <<S, "drop">> \in s.fns THEN s ELSE FoldLeft(Inner, made, fields)

\* What the drop of the S at a path releases, when it runs.
RECURSIVE Released(_, _, _)
Released(s, S, path) ==
  LET Field(i) == s.structs[S].fields[i].type
      One(i)   == IF Field(i) \in DOMAIN s.structs THEN Released(s, Field(i), Append(path, i)) ELSE <<Append(path, i)>>
  IN  IF S \notin DOMAIN s.drops THEN <<Append(path, "drop")>>
      ELSE FoldLeft(LAMBDA r, i : r \o One(i), <<>>, s.drops[S])
-----------------------------------------------------------------------------
(* Traits *)

traitFindMethodDeclByName(w, Tr, m) == SelectSeq(w.traits[Tr], LAMBDA d : d.name = m)

paramListEquals(r, i) == Len(r) = Len(i) /\ \A n \in DOMAIN r : r[n].mode = i[n].mode /\ r[n].type = i[n].type
returnTypesEquals(r, i) == Len(r) = Len(i) /\ \A n \in DOMAIN r : r[n] = i[n]

traitMethodMatchesFunc(req, d) == paramListEquals(req.params, d.params) /\ returnTypesEquals(req.returns, d.returns)

Failed(s) == [s EXCEPT !.err = TRUE]

\* A trait with two methods of one name is refused, and the program with it.
Repeats(ms) == \E i, j \in DOMAIN ms : i < j /\ ms[i].name = ms[j].name
compileTraitStmt(s, methods) == IF Repeats(methods) THEN Failed(s) ELSE s

\* The methods in an impl of a trait become functions of their own.
CompileTraitMethods(w, s, st) ==
  LET One(u, d) ==
        LET req == traitFindMethodDeclByName(w, st.trait, d.name)
            fn  == <<st.target, st.trait, d.name>>
        IN  IF req = <<>> \/ fn \in u.fns THEN Failed(u)
            ELSE IF ~traitMethodMatchesFunc(Head(req), d) THEN Failed(u)
            ELSE [u EXCEPT !.fns = @ \cup {fn}]
  IN  FoldLeft(One, IF Repeats(st.methods) THEN Failed(s) ELSE s, st.methods)

\* Mutant of Satisfied: an ambiguous method passes.
SatisfiedSomehow(s, st, req) ==
  LET p == promotedMethodSigSearch(s, st.target, req.name)
      d == Last(structFindDirectMethodByName(s, Head(p.to), req.name))
  IN  (\E m \in ToSet(st.methods) : m.name = req.name) \/ p.ambiguous \/ (p.found /\ traitMethodMatchesFunc(req, d))

\* The target of an impl has a trait's method, in the impl, of its own or
\* promoted.
Satisfied(s, st, req) ==
  LET p == promotedMethodSigSearch(s, st.target, req.name)
      d == Last(structFindDirectMethodByName(s, Head(p.to), req.name))
  IN  (\E m \in ToSet(st.methods) : m.name = req.name) \/ (p.found /\ traitMethodMatchesFunc(req, d))

\* The slots of a vtable after the drop, one for each of the trait's methods,
\* are filled once, with what there is by then.
getOrCreateTraitVtableGlobal(w, s, Tr, S) ==
  LET t == compilerGetOrCreateStructDrop(w, s, S)
      Slot(i) == LET m == w.traits[Tr][i].name
                 IN  IF <<S, Tr, m>> \in t.fns THEN Path(<<S, Tr, m>>, <<>>) ELSE Member(promotedMethodSigSearch(t, S, m), m)
  IN  IF <<Tr, S>> \in DOMAIN s.vtables THEN s
      ELSE [t EXCEPT !.vtables = (<<Tr, S>> :> [i \in DOMAIN w.traits[Tr] |-> Slot(i)]) @@ @]

compileTraitImplStmt(w, s, st) ==
  LET t == CompileTraitMethods(w, s, st)
      u == IF \A i \in DOMAIN w.traits[st.trait] : Satisfied(t, st, w.traits[st.trait][i]) THEN t ELSE Failed(t)
  IN  IF st.trait \notin DOMAIN w.traits \/ st.target \notin DOMAIN s.structs THEN Failed(s)
      ELSE IF st.methods # <<>> /\ t.err THEN t
      ELSE IF u.err THEN u
      ELSE getOrCreateTraitVtableGlobal(w, u, st.trait, st.target)

-----------------------------------------------------------------------------
(* Uses.  Each notes what it reaches; what reaches nothing is an error.     *)

Reaches(s, p) == [s EXCEPT !.reached = Append(@, p), !.err = @ \/ ~p.found]

\* x.f, and x.f = v in the same way.
emitGetExpr(s, u) == Reaches(s, Member(promotedFieldSearch(s, u.struct, u.member), u.member))

\* x.m() for an x of a struct type.
CallMethod(s, u) == Reaches(s, Member(promotedMethodSearch(s, u.struct, u.member), u.member))

\* Mutant of CallBound: the struct's own methods come before the impl's.
CallOwnFirst(w, s, u) ==
  LET own == <<u.struct, u.trait, u.member>>
      p   == Member(promotedMethodSearch(s, u.struct, u.member), u.member)
  IN  Reaches(s, IF ~p.found /\ own \in s.fns THEN Path(own, <<>>) ELSE p)

\* x.m() where x is of a type parameter bounded by a trait, in the instance
\* for a struct, which is compiled where it is first called.
CallBound(w, s, u) ==
  LET key == <<u.trait, u.member, u.struct>>
      own == <<u.struct, u.trait, u.member>>
      p   == IF key \in DOMAIN s.instances THEN s.instances[key]
             ELSE IF own \in s.fns THEN Path(own, <<>>)
             ELSE Member(promotedMethodSearch(s, u.struct, u.member), u.member)
  IN  IF <<u.trait, u.struct>> \notin w.pairs \/ traitFindMethodDeclByName(w, u.trait, u.member) = <<>> THEN Reaches(s, Nothing)
      ELSE [Reaches(s, p) EXCEPT !.instances = (key :> p) @@ @]

traitMethodIndex(w, Tr, m) ==
  LET is == {i \in DOMAIN w.traits[Tr] : w.traits[Tr][i].name = m}
  IN  IF is = {} THEN 0 ELSE CHOOSE i \in is : \A j \in is : i <= j

\* let x: Trait = a struct's value: the slots of its vtable, if there is one.
BoxedTrait(s, u) ==
  LET key == <<u.trait, u.struct>> IN IF key \in DOMAIN s.vtables THEN s.vtables[key] ELSE <<>>

\* r.m() for a reference r to such an x.
CallThroughRef(w, s, u) ==
  LET slots == BoxedTrait(s, u)
      i     == traitMethodIndex(w, u.trait, u.member)
  IN  Reaches(s, IF slots = <<>> \/ i = 0 THEN Nothing ELSE slots[i])

\* x.m() for such an x, which goes out of scope: the drop in its vtable
\* releases the value in the box.
CallObject(w, s, u) ==
  LET slots == BoxedTrait(s, u)
      i     == traitMethodIndex(w, u.trait, u.member)
  IN  Reaches(s, IF slots = <<>> \/ i = 0 THEN Nothing ELSE [slots[i] EXCEPT !.released = Released(s, u.struct, <<>>)])

-----------------------------------------------------------------------------
(* Programs *)

Compile(w, s, st) ==
  CASE st.kind = "struct"     -> compileStructStmt(s, st)
    [] st.kind = "impl"       -> compileImplStmt(s, st)
    [] st.kind = "trait impl" -> compileTraitImplStmt(w, s, st)
    [] st.kind = "field"      -> emitGetExpr(s, st)
    [] st.kind = "call"       -> CallMethod(s, st)
    [] st.kind = "bound"      -> CallBound(w, s, st)
    [] st.kind = "object"     -> CallObject(w, s, st)
    [] st.kind = "ref"        -> CallThroughRef(w, s, st)

\* The traits and the impls of traits are known from the start.
CompileProgram(p) ==
  LET impls == {st \in ToSet(p.body) : st.kind = "trait impl"}
      w     == [traits |-> p.traits, pairs |-> {<<st.trait, st.target>> : st \in impls}]
      t     == FoldLeft(LAMBDA s, Tr : compileTraitStmt(s, p.traits[Tr]), Begin, SetToSeq(DOMAIN p.traits))
  IN  IF t.err THEN t ELSE FoldLeft(LAMBDA s, st : Compile(w, s, st), t, p.body)
=============================================================================
