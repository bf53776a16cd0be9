----------------------------- MODULE LoaderCases -----------------------------
(***************************************************************************)
(* Programs of three modules, a standard library of three and a package, and *)
(* what the language says of their names.                                  *)
(***************************************************************************)
EXTENDS Integers, Sequences, FiniteSets, SequencesExt, TLC

VARIABLE case

M == INSTANCE ModuleLoader

Idle == [algorithm |-> "none"]

Main == <<"app", "main">>
A    == <<"app", "a">>
B    == <<"app", "b">>
Io   == <<"std", "io">>
Fs   == <<"std", "fs", "async">>
Time == <<"std", "time">>
Json == <<"pkg", "json", "json">>

\* The files that import paths stand for.
Target(raw) ==
  CASE Last(raw) = "main"  -> Main
    [] Last(raw) = "a"     -> A
    [] Last(raw) = "b"     -> B
    [] Last(raw) = "io"    -> Io
    [] Last(raw) = "async" -> Fs
    [] Last(raw) = "json"  -> Json
    [] OTHER               -> <<>>

Fn(name)      == <<"fn", name, FALSE>>
Private(name) == <<"fn", name, TRUE>>
Struct(name)  == <<"struct", name, FALSE>>
Import(raw, alias) == <<"import", raw, alias>>
From(raw, names)   == <<"from", raw, names>>

MainImports ==
  { Import(<<".", "a">>, ""), Import(<<"a">>, "x"), From(<<"a">>, <<<<"f", "">>>>), From(<<"a">>, <<<<"f", "k">>, <<"S", "">>>>),
    From(<<".", "a">>, <<<<"hidden", "">>, <<"f", "">>>>), From(<<"a">>, <<<<"nothing", "">>>>),
    Import(<<"..", "app", "b">>, ""), Import(<<"b">>, "x"), Import(<<"std", "io">>, ""), Import(<<"json">>, ""),
    Import(<<"packages", "json">>, "k"), Import(<<"std", "json">>, ""), Import(<<"std", "none">>, "x") }

World(order, own, imports, ofA, ofB) ==
  [files |->
     (Main :> [parses |-> TRUE, stmts |-> imports \o own \o <<Fn("main")>>]
      @@ A :> [parses |-> TRUE, stmts |-> ofA \o <<Private("hidden"), Fn("f"), Struct("S")>>]
      @@ B :> [parses |-> TRUE, stmts |-> ofB]
      @@ Io :> [parses |-> TRUE, stmts |-> <<Import(<<"std", "fs", "async">>, "later"), Struct("Cursor"), Private("copy"), <<"object", "Io", FALSE>>>>]
      @@ Fs :> [parses |-> TRUE, stmts |-> <<<<"extern", "tua_stat">>, From(<<"std", "io">>, <<<<"Cursor", "">>>>), Fn("copy"), Fn("h")>>]
      @@ Time :> [parses |-> TRUE, stmts |-> <<Fn("now"), Fn("h")>>]
      @@ Json :> [parses |-> TRUE, stmts |-> <<Fn("parse"), Fn("h")>>]),
   std |-> order, packages |-> <<<<"none">>, <<"pkg">>>>, entry |-> Main]

Orders     == {<<<<"io">>, <<"fs", "async">>, <<"time">>>>, <<<<"time">>, <<"fs", "async">>, <<"io">>>>}
Own        == {<<>>, <<Fn("f"), Fn("now")>>, <<Struct("S"), Private("h")>>}
ImportsOfA == {<<>>, <<Import(<<"b">>, "y")>>, <<From(<<".", "b">>, <<<<"g", "">>>>)>>, <<Import(<<".", "main">>, "y")>>}
PlainB == <<Fn("g"), Fn("f")>>
OfB    == {PlainB, <<Fn("g"), Import(<<"a">>, "")>>, Append(PlainB, From(<<"std", "fs", "async">>, <<>>))}

\* Any one import among modules that import each other, or any two.
Worlds ==
  {World(order, own, i, ofA, ofB) :
     order \in Orders, own \in Own, i \in {<<>>} \cup {<<j>> : j \in MainImports}, ofA \in ImportsOfA, ofB \in OfB}
  \cup {World(order, own, <<i, j>>, <<>>, PlainB) : order \in Orders, own \in Own, i, j \in MainImports}

-----------------------------------------------------------------------------
(* What the language says.                                                  *)

Stmts(w, p)   == w.files[p].stmts
Imports(w, p) == SelectSeq(Stmts(w, p), LAMBDA s : s[1] \in {"import", "from"})
Declares(w, p, private) ==
  SelectSeq(Stmts(w, p), LAMBDA s : s[1] \in {"fn", "struct", "object"} /\ s[3] \in {private, FALSE})
DeclaredNames(w, p, private) == {Declares(w, p, private)[i][2] : i \in DOMAIN Declares(w, p, private)}

Imported(w, p) == {Target(i[2]) : i \in ToSet(Imports(w, p))} \ {<<>>}

RECURSIVE Reached(_, _)
Reached(w, ps) == LET more == ps \cup UNION {Imported(w, p) : p \in ps} IN IF more = ps THEN ps ELSE Reached(w, more)
Reaches(w, p, q) == q \in Reached(w, Imported(w, p))

\* Each name an import binds, with the module and the name there ("" for a namespace).
BoundBy(w, i) ==
  LET t == Target(i[2])
      public == DeclaredNames(w, t, FALSE)
  IN  CASE t = <<>> -> {}
        [] t # <<>> /\ i[1] = "import" /\ i[3] # "" -> {<<i[3], t, "">>}
        [] t # <<>> /\ i[1] = "import" /\ i[3] = "" -> {<<Last(i[2]), t, "">>} \cup {<<n, t, n>> : n \in public}
        [] t # <<>> /\ i[1] = "from" ->
             {<<IF n[2] = "" THEN n[1] ELSE n[2], t, n[1]>> : n \in {m \in ToSet(i[3]) : m[1] \in public}}

Explicit(w, p) == UNION {BoundBy(w, i) : i \in ToSet(Imports(w, p))}
Locals(bs)     == {b[1] : b \in bs}

\* An import binds a name that the module declares.
Clashes(w, p) == Locals(Explicit(w, p)) \cap DeclaredNames(w, p, TRUE) # {}

Wrong(w, p) ==
  \/ Clashes(w, p)
  \/ \E i \in DOMAIN Imports(w, p) :
       LET imp == Imports(w, p)[i] IN
       \/ Target(imp[2]) = <<>>
       \/ imp[1] = "from" /\ \E n \in ToSet(imp[3]) : n[1] \notin DeclaredNames(w, Target(imp[2]), FALSE)
       \/ \E j \in 1 .. i - 1 : Locals(BoundBy(w, imp)) \cap Locals(BoundBy(w, Imports(w, p)[j])) # {}

\* The names of the library, those of the module readdir returned first.
StdPaths(w) == [i \in DOMAIN w.std |-> <<"std">> \o w.std[i]]
Prelude(w, p) ==
  LET offered(i) == {<<n, StdPaths(w)[i], n>> : n \in DeclaredNames(w, StdPaths(w)[i], FALSE)}
                    \cup (IF Len(w.std[i]) = 1 THEN {<<Last(w.std[i]), StdPaths(w)[i], "">>} ELSE {})
      from == {i \in DOMAIN w.std : StdPaths(w)[i] # p}
  IN  {b \in UNION {offered(i) : i \in from} :
         /\ b[1] \notin Locals(Explicit(w, p))
         /\ \A i, j \in from : i < j /\ b \in offered(j) => b[1] \notin Locals(offered(i))}

\* Worlds without a clash: see the README for what happens then.
PickWorld ==
  /\ case = Idle
  /\ \E w \in Worlds :
       /\ \A p \in DOMAIN w.files : ~Clashes(w, p)
       /\ case' = [algorithm |-> "load", world |-> w]

Meaning(b) == IF b[3] = "" THEN M!sanitizeModulePrefix(b[2]) ELSE M!Qualified(b[2], b[3])

LoadsOn(c) ==
  c.algorithm = "load" =>
    LET w == c.world
        s == M!LoadProgram(w)
        At(p) == CHOOSE i \in DOMAIN s.order : s.order[i] = p
        loaded == ToSet(s.order)
        own == DeclaredNames(w, Main, TRUE)
        names == Explicit(w, Main) \cup Prelude(w, Main)
    IN  /\ ~s.exit
        /\ loaded = DOMAIN s.modules /\ Cardinality(loaded) = Len(s.order)
        /\ \A p \in loaded : \A q \in Imported(w, p) \cap loaded : At(q) < At(p) \/ Reaches(w, q, p)
        /\ s.err <=> \E p \in loaded : Wrong(w, p)
        /\ ~s.err =>
             /\ loaded = Reached(w, {Main} \cup ToSet(StdPaths(w)))
             /\ \A p \in loaded :
                  /\ {<<a.local, a.qualified>> : a \in ToSet(s.modules[p].aliases)}
                       = {<<b[1], Meaning(b)>> : b \in Explicit(w, p) \cup Prelude(w, p)}
                  /\ Len(s.modules[p].aliases) = Cardinality(Explicit(w, p) \cup Prelude(w, p))
             /\ ~M!CompiledUpTo(s, Main).err
             /\ \A n \in own \ {"main"} :
                  {M!ResolveCall(s, Main, n), M!compilerResolveStructByToken(s, Main, n)} \ {M!Undefined} = {M!Qualified(Main, n)}
             /\ \A b \in names : b[1] \notin own /\ b[3] \notin {"", "Io"} => M!ResolveCall(s, Main, b[1]) = Meaning(b)
             /\ \A b \in names : b[3] = "" =>
                  \A n \in DeclaredNames(w, b[2], FALSE) \ {"Io", "main"} :
                    M!ResolveMember(s, Main, b[1], n) = M!Qualified(b[2], n)
=============================================================================
