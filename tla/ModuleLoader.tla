---------------------------- MODULE ModuleLoader ----------------------------
(***************************************************************************)
(* The module system (src/tua/src/tuac_frontend.c, tuac_fs.c, tuac_cli.c,  *)
(* tuac_codegen.c) and how names are looked up in compiler.c and           *)
(* llvm_call.c.  A path is a sequence of segments without the suffix .tua. *)
(*                                                                         *)
(* A world w is what a compilation finds: the statements of each file, the *)
(* order in which readdir returns the standard library, and the package    *)
(* directories.  Statements are <<"import", raw, alias>>,                  *)
(* <<"from", raw, <<<<name, alias>>, ...>>>> and                           *)
(* <<kind, name, private>>; an alias "" is none.                           *)
(***************************************************************************)
EXTENDS Integers, Sequences, SequencesExt, TLC

LOCAL X == INSTANCE Lexer

StdDir == <<"std">>

Join(ss) == FoldLeft(LAMBDA a, b : a \o b, "", ss)
Identifier(s) == LET cs == X!Chars(s) IN Join([i \in DOMAIN cs |-> IF cs[i] \in X!Letters \cup X!Digits THEN cs[i] ELSE "_"])
Underscored(s) == IF SubSeq(s, 1, 1) \in X!Digits THEN "_" \o s ELSE s

\* A path with "." and ".." taken out.
canonicalizePath(path) ==
  FoldLeft(LAMBDA p, x : CASE x = "." -> p [] x = ".." /\ p # <<>> -> Front(p) [] OTHER -> Append(p, x), <<>>, path)

sanitizeModulePrefix(path) ==
  Underscored(Join([i \in DOMAIN path |-> (IF i = 1 THEN "" ELSE "_") \o Identifier(path[i])]))

Qualified(path, name) == sanitizeModulePrefix(path) \o "__" \o name

\* The lexer's keywords as the driver knows them, without "in" and with "main".
isKeywordIdent(s) == s \in (X!Keywords \ {"in"}) \cup {"boolean", "func", "let", "not", "main"}

defaultNamespaceFromImportRaw(raw) ==
  LET id == Underscored(Identifier(Last(raw))) IN IF isKeywordIdent(id) THEN "_" \o id ELSE id

-----------------------------------------------------------------------------
(* Paths *)

fileExists(w, path) == canonicalizePath(path) \in DOMAIN w.files

NotFound == <<>>

FirstExisting(w, paths) ==
  LET some == SelectSeq(paths, LAMBDA p : fileExists(w, p)) IN IF some = <<>> THEN NotFound ELSE Head(some)

tryResolveFromPackageDirs(w, raw) ==
  FirstExisting(w, FlattenSeq([i \in DOMAIN w.packages |->
                                <<w.packages[i] \o raw, w.packages[i] \o <<Last(raw), Last(raw)>>>>]))

resolveImportPath(w, path, raw) ==
  LET found == tryResolveFromPackageDirs(w, raw)
  IN  CASE Head(raw) = "std" -> IF fileExists(w, StdDir \o Tail(raw)) THEN StdDir \o Tail(raw) ELSE found
        [] Head(raw) \in {".", ".."} -> Front(path) \o raw
        [] OTHER -> IF found # NotFound THEN found ELSE Front(path) \o raw

-----------------------------------------------------------------------------
(* What modules export and the names they bind *)

Kinds == {"fn", "struct", "trait", "enum", "object"}      \* and "extern", which is not exported

moduleComputeExports(path, stmts) ==
  LET decls == SelectSeq(stmts, LAMBDA s : s[1] \in Kinds)
  IN  [i \in DOMAIN decls |-> [kind |-> decls[i][1], name |-> decls[i][2], private |-> decls[i][3],
                               qualified |-> Qualified(path, decls[i][2])]]

findExport(m, name) == {i \in DOMAIN m.exports : m.exports[i].name = name /\ ~\E j \in 1 .. i - 1 : m.exports[j].name = name}

Alias(local, kind, qualified) == [local |-> local, kind |-> kind, qualified |-> qualified]
ModuleAlias(local, path) == Alias(local, "module", sanitizeModulePrefix(path))

moduleHasAliasFor(aliases, local) == \E i \in DOMAIN aliases : aliases[i].local = local

PublicAliases(m) ==
  LET es == SelectSeq(m.exports, LAMBDA e : ~e.private)
  IN  [i \in DOMAIN es |-> Alias(es[i].name, es[i].kind, es[i].qualified)]

\* What an import of a whole module binds.
ImportAliases(m, path, raw, alias) ==
  IF alias # "" THEN <<ModuleAlias(alias, path)>>
  ELSE <<ModuleAlias(defaultNamespaceFromImportRaw(raw), path)>> \o PublicAliases(m)

\* The names of a named import that the module has and shows, and what they bind.
Shown(m, names) == SelectSeq(names, LAMBDA n : \E i \in findExport(m, n[1]) : ~m.exports[i].private)
FromAliases(m, names) ==
  LET some == Shown(m, names)
  IN  [i \in DOMAIN some |->
         LET e == m.exports[CHOOSE j \in findExport(m, some[i][1]) : TRUE]
         IN  Alias(IF some[i][2] = "" THEN e.name ELSE some[i][2], e.kind, e.qualified)]

\* Aliases are bound in order up to the first whose name is taken.
Bound(aliases, wanted) ==
  FoldLeft(LAMBDA b, a : IF b.conflict \/ moduleHasAliasFor(b.aliases, a.local) THEN [b EXCEPT !.conflict = TRUE]
                         ELSE [b EXCEPT !.aliases = Append(@, a)],
           [aliases |-> aliases, conflict |-> FALSE], wanted)

-----------------------------------------------------------------------------
(* Loading.  s holds the modules by path, the order they are compiled in,  *)
(* whether an error was reported, whether a missing file ended the         *)
(* compiler, and the standard prelude.                                     *)

NewSystem(w) == [w |-> w, modules |-> <<>>, order |-> <<>>, err |-> FALSE, exit |-> FALSE,
                 prelude |-> <<>>, built |-> FALSE, building |-> FALSE]

\* What a prelude entry offers: a namespace when it is right under std/, its names.
Offered(s, e) ==
  (IF e.top THEN <<ModuleAlias(defaultNamespaceFromImportRaw(e.raw), e.path)>> ELSE <<>>)
  \o PublicAliases(s.modules[e.path])

\* Names already bound stay what they are.
moduleApplyStdPreludeToModule(s, path) ==
  IF s.modules[path].applied THEN s
  ELSE LET others == SelectSeq(s.prelude, LAMBDA e : e.path # path)
           offers == FlattenSeq([i \in DOMAIN others |-> Offered(s, others[i])])
       IN  [s EXCEPT !.modules[path].applied = s.prelude # <<>>,
                     !.modules[path].aliases =
                       FoldLeft(LAMBDA b, a : IF moduleHasAliasFor(b, a.local) THEN b ELSE Append(b, a), @, offers)]

\* Mutant of Prepared: a module is given what the prelude has while it is built.
PreparedEarly(s, path) == IF s.built THEN moduleApplyStdPreludeToModule(s, path) ELSE s

Prepared(s, path) == IF s.built /\ ~s.building THEN moduleApplyStdPreludeToModule(s, path) ELSE s

\* A module is found from here on, also by the modules it imports.
Registered(s, path, m) == [s EXCEPT !.modules = (path :> m) @@ @]

RECURSIVE moduleLoad(_, _), moduleScanImports(_, _, _)

moduleLoad(s, path) ==
  LET p     == canonicalizePath(path)
      file  == s.w.files[p]
      stmts == IF file.parses THEN file.stmts ELSE <<>>
      m     == [stmts |-> stmts, exports |-> moduleComputeExports(p, stmts), aliases |-> <<>>, applied |-> FALSE]
  IN  IF s.exit \/ p \in DOMAIN s.modules THEN s
      ELSE IF ~fileExists(s.w, p) THEN [s EXCEPT !.exit = TRUE]
      ELSE LET t == moduleScanImports(Registered([s EXCEPT !.err = @ \/ ~file.parses], p, m), p, stmts)
               u == Prepared(t, p)
           IN  IF t.exit THEN t ELSE [u EXCEPT !.order = Append(@, p)]

\* An import that cannot be resolved and one that binds a taken name end the scan.
moduleScanImports(s, path, stmts) ==
  IF s.exit \/ stmts = <<>> THEN s
  ELSE IF Head(stmts)[1] \notin {"import", "from"} THEN moduleScanImports(s, path, Tail(stmts))
  ELSE LET imp  == Head(stmts)
           full == resolveImportPath(s.w, path, imp[2])
           dep  == canonicalizePath(full)
           t    == moduleLoad(s, full)
           m    == t.modules[dep]
           b    == Bound(t.modules[path].aliases,
                         IF imp[1] = "import" THEN ImportAliases(m, dep, imp[2], imp[3]) ELSE FromAliases(m, imp[3]))
           refused == imp[1] = "from" /\ Len(Shown(m, imp[3])) < Len(imp[3])
           u    == [t EXCEPT !.modules[path].aliases = b.aliases, !.err = @ \/ b.conflict \/ refused]
       IN  IF full = NotFound THEN [s EXCEPT !.err = TRUE]
           ELSE IF t.exit THEN t
           ELSE IF b.conflict THEN u ELSE moduleScanImports(u, path, Tail(stmts))

moduleSystemEnsureStdPrelude(s) ==
  LET Loaded(t, rel) ==
        LET p == StdDir \o rel
            u == moduleLoad(t, p)
        IN  [u EXCEPT !.prelude = Append(@, [raw |-> p, top |-> Len(rel) = 1, path |-> p])]
      t == FoldLeft(Loaded, [s EXCEPT !.built = TRUE, !.building = TRUE], s.w.std)
  IN  FoldLeft(moduleApplyStdPreludeToModule, [t EXCEPT !.building = FALSE], t.order)

LoadProgram(w) == moduleLoad(moduleSystemEnsureStdPrelude(NewSystem(w)), w.entry)

-----------------------------------------------------------------------------
(* Compiling, in the order of loading.  c holds the functions and the types *)
(* the LLVM module and the compiler have so far.                            *)

compileModuleIntoMain(s, c, path) ==
  LET m == s.modules[path]
      Names(ks) == {Qualified(path, m.stmts[i][2]) : i \in {j \in DOMAIN m.stmts : m.stmts[j][1] \in ks}}
      Extern == {m.stmts[i][2] : i \in {j \in DOMAIN m.stmts : m.stmts[j][1] = "extern"}}
  IN  [functions |-> c.functions \cup Names({"fn"}) \cup Extern, types |-> c.types \cup Names({"struct"}),
       err |-> c.err \/ Names({"fn"}) \cap c.functions # {}]

\* What is there when the last function of a module is compiled.
CompiledUpTo(s, path) ==
  LET n == CHOOSE i \in DOMAIN s.order : s.order[i] = path
  IN  FoldLeft(LAMBDA c, p : compileModuleIntoMain(s, c, p), [functions |-> {}, types |-> {}, err |-> FALSE],
               SubSeq(s.order, 1, n))

compilerFindAlias(s, path, name) ==
  LET as == s.modules[path].aliases IN {as[i] : i \in {j \in DOMAIN as : as[j].local = name}}

Undefined == "undefined"
\* The first of some names that a set has.
FirstOf(names, set) ==
  LET some == SelectSeq(names, LAMBDA n : n \in set) IN IF some = <<>> THEN Undefined ELSE Head(some)

AliasedAs(s, path, name, kind) ==
  LET as == {a \in compilerFindAlias(s, path, name) : a.kind = kind} IN {a.qualified : a \in as}

\* An imported struct hides one of the module's own.
compilerResolveStructByToken(s, path, name) ==
  LET as == AliasedAs(s, path, name, "struct")
      c  == CompiledUpTo(s, path)
  IN  IF as # {} THEN FirstOf(SetToSeq(as), c.types) ELSE FirstOf(<<Qualified(path, name), name>>, c.types)

\* A function of the module hides an imported one.
ResolveCall(s, path, name) ==
  LET c  == CompiledUpTo(s, path)
      fn == FirstOf(<<Qualified(path, name)>> \o SetToSeq(AliasedAs(s, path, name, "fn")) \o <<name>>, c.functions)
  IN  IF fn # Undefined THEN fn ELSE compilerResolveStructByToken(s, path, name)

ResolveMember(s, path, ns, name) ==
  LET ms == AliasedAs(s, path, ns, "module")
      c  == CompiledUpTo(s, path)
      q  == (CHOOSE m \in ms : TRUE) \o "__" \o name
  IN  IF ms = {} THEN Undefined ELSE FirstOf(<<q>>, c.functions \cup c.types)
=============================================================================
