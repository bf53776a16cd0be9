----------------------------- MODULE Ownership -----------------------------
(***************************************************************************)
(* The memory operations the code generator emits for a function           *)
(* (src/tua/src/compiler.c, src/tua/src/llvm/llvm_var.c, llvm_expr.c,      *)
(* llvm_call.c), run on an abstract heap.  A behaviour writes a program    *)
(* statement by statement, as long as the borrow checker (BorrowCheck)     *)
(* accepts it, and executes each statement as it is written: a prefix of   *)
(* an accepted program is accepted, and what is emitted for a statement    *)
(* depends on what comes later in one way only, whether a lambda captures  *)
(* the variable (then it lives in a box); Declare guesses that.            *)
(*                                                                         *)
(* Strings are counted.  Maps have one owner and move.  A closure owns an  *)
(* environment, a counted box that counts the boxes of what it captures.   *)
(***************************************************************************)
EXTENDS BorrowCheck, TLC

CONSTANTS
  Families,    \* the families of programs, see OwnershipAssumption
  MaxVars      \* variables of a program

\* The last six are forms the compiler accepts and gets wrong (README).
AllForms == {"ref", "move", "lambda", "if", "block", "while", "pass", "return",
             "refcopy", "group", "strmove", "constclo", "capcopy", "capmove"}

\* A family bounds its programs: the types of fresh values, the forms used,
\* the number of statements, the times the body of a while runs.
ASSUME OwnershipAssumption ==
  /\ MaxVars \in Nat
  /\ Families \subseteq [types : SUBSET {"str", "map"}, forms : SUBSET AllForms,
                         stmts : Nat, rounds : Nat \ {0}]

VARIABLES
  family,      \* the family of the program
  prog,        \* the statements written so far
  vars,        \* name -> what the code generator knows of the variable
  slot,        \* name -> what its stack slot holds: 0 or an object
  heap,        \* the objects allocated so far
  blocks,      \* the open blocks: their variables, and whether they execute
  faults,      \* what went wrong at run time
  returned,    \* whether the function has returned
  ret          \* the object it has returned, or 0

state == <<family, prog, vars, slot, heap, blocks, faults, returned, ret>>

NoVar == [t |-> "none", boxed |-> FALSE, view |-> FALSE, to |-> 0]

\* rc is 0 once the object is freed; cell is what a box holds, caps the
\* boxes an environment captures, code the body of its lambda.
Object(k, t, cell, caps, code) ==
  [k |-> k, t |-> t, rc |-> 1, cell |-> cell, caps |-> caps, code |-> code]

\* The part of the state that generated code works on.
Machine == [vars |-> vars, slot |-> slot, heap |-> heap, faults |-> faults]

-----------------------------------------------------------------------------
(* The run-time operations *)

Fault(m, what) == [m EXCEPT !.faults = @ \cup {what}]

\* Every access to an object goes through here.
Touch(m, o, then) == IF o = 0 THEN m ELSE IF m.heap[o].rc = 0 THEN Fault(m, "freed") ELSE then

StrRetain(m, o)  == Touch(m, o, [m EXCEPT !.heap[o].rc = @ + 1])
StrRelease(m, o) == Touch(m, o, [m EXCEPT !.heap[o].rc = @ - 1])
MapFree(m, o)    == Touch(m, o, [m EXCEPT !.heap[o].rc = 0])

\* A box frees the map it owns; it has no drop function for a string.
ValueBoxDec(m, o) ==
  LET n == [m EXCEPT !.heap[o].rc = @ - 1]
  IN  Touch(m, o, IF m.heap[o].rc = 1 /\ m.heap[o].t = "map" THEN MapFree(n, m.heap[o].cell) ELSE n)

\* An environment counts down the boxes it captured; none has a closure (Lambdas).
EnvDec(m, o) ==
  LET n == [m EXCEPT !.heap[o].rc = @ - 1]
  IN  Touch(m, o, IF m.heap[o].rc = 1 THEN FoldLeft(ValueBoxDec, n, m.heap[o].caps) ELSE n)

\* A closure, or a box of any kind: a box with a closure owns it.
BoxDec(m, o) ==
  LET n   == [m EXCEPT !.heap[o].rc = @ - 1]
      obj == m.heap[o]
  IN  IF o = 0 \/ obj.k = "env" THEN EnvDec(m, o)
      ELSE IF obj.t = "clo" THEN Touch(m, o, IF obj.rc = 1 THEN EnvDec(n, obj.cell) ELSE n)
      ELSE ValueBoxDec(m, o)

Alloc(m, obj) == [m EXCEPT !.heap = Append(@, obj)]
Newest(m) == Len(m.heap)

\* Reading and writing a variable, through its box if it has one.
Load(m, x) == IF m.vars[x].boxed THEN m.heap[m.slot[x]].cell ELSE m.slot[x]
Store(m, x, v) ==
  IF m.vars[x].boxed THEN [m EXCEPT !.heap[m.slot[x]].cell = v] ELSE [m EXCEPT !.slot[x] = v]

\* A variable gets its slot.
Bind(m, x, v, var) == [m EXCEPT !.slot[x] = v, !.vars[x] = var]

\* The program looks at a value: a moved variable reads as null.
Look(m, o) == IF o = 0 THEN Fault(m, "moved") ELSE Touch(m, o, m)

\* Mutant of BorrowedStringSource: a bare variable is taken for a fresh string.
OnlyGroupedSource(init) == init.k = "group"

\* Strings are copied, and need a retain, when they come from a variable.
BorrowedStringSource(init) == init.k \in {"var", "group"}
IsMoved(v) == v.t \in {"map", "clo"} /\ v.to = 0

\* Compiling an initialiser: the machine after it, and the value.
Compile(m, init) ==
  LET y    == init.y
      code == [do |-> init.t, y |-> m.slot[y], z |-> IF init.z = 0 THEN 0 ELSE m.slot[init.z],
               t |-> m.vars[y].t]
      caps == IF init.z = 0 THEN <<m.slot[y]>> ELSE <<m.slot[y], m.slot[init.z]>>
      counted == FoldLeft(LAMBDA h, c : [h EXCEPT !.heap[c].rc = @ + 1], m, caps)
      new  == Alloc(m, Object("val", init.t, 0, <<>>, <<>>))
      env  == Alloc(counted, Object("env", "clo", 0, caps, code))
  IN  CASE init.k = "new"    -> [m |-> new, v |-> Newest(new)]
        [] init.k \in {"var", "group"} -> [m |-> m, v |-> Load(m, y)]
        [] init.k = "move"   -> [m |-> IF IsMoved(m.vars[y]) THEN Store(m, y, 0) ELSE m,
                                 v |-> Load(m, y)]
        [] init.k = "lambda" -> [m |-> env, v |-> Newest(env)]
        [] init.k = "ref"    -> [m |-> m, v |-> 0]

\* emitDropForVar: boxes are counted down, strings released, environments
\* counted down; maps are left alone, they may have been aliased.
DropVar(m, x) ==
  LET v == m.vars[x]
  IN  IF v.boxed THEN [BoxDec(m, m.slot[x]) EXCEPT !.slot[x] = 0]
      ELSE IF v.to # 0 \/ v.t = "map" THEN m
      ELSE IF v.t = "str" THEN [StrRelease(m, m.slot[x]) EXCEPT !.slot[x] = 0]
      ELSE [BoxDec(m, m.slot[x]) EXCEPT !.slot[x] = 0]

DropBlock(m, b) ==
  LET left[i \in 0 .. Len(b.names)] == IF i = 0 THEN m ELSE DropVar(left[i - 1], b.names[i])
  IN  left[Len(b.names)]

\* The innermost scope first.
DropScopes(m) ==
  LET left[i \in 0 .. Len(blocks)] ==
        IF i = 0 THEN m ELSE DropBlock(left[i - 1], blocks[Len(blocks) + 1 - i])
  IN  left[Len(blocks)]

-----------------------------------------------------------------------------
(* One operator per statement: the machine after it *)

\* What the code generator knows of a variable it declares: a copy of a
\* reference refers to the same variable, and `const` of a map views it.
Declared(m, s, boxed) ==
  LET y    == s.init.y
      copy == s.init.k \in {"var", "group"}
      to   == IF s.init.k = "ref" THEN y ELSE IF copy THEN m.vars[y].to ELSE 0
      t    == IF s.init.k = "new" THEN s.init.t ELSE IF s.init.k = "lambda" THEN "clo" ELSE m.vars[y].t
      view == s.const /\ s.init.k = "var" /\ t = "map" /\ to = 0
  IN  [t |-> t, boxed |-> boxed, view |-> view, to |-> to]

\* emitVarStmt: retain a copied string, box what a lambda captures, and null
\* the moved source of a `let`.
Define(m, s, boxed) ==
  LET c    == Compile(m, s.init)
      var  == Declared(m, s, boxed)
      kept == IF var.t = "str" /\ s.init.k \in {"var", "group"} /\ var.to = 0
              THEN StrRetain(c.m, c.v) ELSE c.m
      box  == Object("box", IF var.view THEN "view" ELSE var.t, c.v, <<>>, <<>>)
  IN  IF boxed THEN LET b == Alloc(kept, box) IN Bind(b, s.x, Newest(b), var)
      ELSE Bind(kept, s.x, c.v, var)

ExecLet(m, s, boxed) ==
  IF ~s.const /\ s.init.k = "var" /\ IsMoved(m.vars[s.init.y])
  THEN Store(Define(m, s, boxed), s.init.y, 0) ELSE Define(m, s, boxed)

\* emitAssignExpr: the old string is released before the new one is retained;
\* an old map is freed, an old environment counted down; a moved source nulled.
ExecAssign(m, s) ==
  LET c    == Compile(m, s.init)
      x    == s.x
      old  == Load(c.m, x)
      t    == m.vars[x].t
      drop == CASE t = "str" -> LET r == StrRelease(c.m, old)
                                IN  IF BorrowedStringSource(s.init) THEN StrRetain(r, c.v) ELSE r
                [] t = "map" -> MapFree(c.m, old)
                [] t = "clo" -> BoxDec(c.m, old)
      put  == Store(drop, x, c.v)
  IN  IF s.init.k = "var" /\ s.init.y = x THEN m
      ELSE IF m.vars[x].to # 0 THEN [m EXCEPT !.vars[x].to = s.init.y]
      ELSE IF s.init.k = "var" /\ IsMoved(m.vars[s.init.y]) THEN Store(put, s.init.y, 0)
      ELSE put

Open(x) == \E b \in Range(blocks) : x \in Range(b.names)

\* Reading a variable, or what a reference refers to.
ExecUse(m, x) ==
  IF m.vars[x].to = 0 THEN Look(m, Load(m, x))
  ELSE IF ~Open(m.vars[x].to) THEN Fault(m, "dangling")
  ELSE Look(m, Load(m, m.vars[x].to))

\* The body of a lambda works on the boxes its environment captured.  It does
\* not know their types: it neither releases what it overwrites nor retains
\* what it copies.
ExecCall(m, x) ==
  LET env == Load(m, x)
      c   == m.heap[env].code
      new == Alloc(m, Object("val", c.t, 0, <<>>, <<>>))
      run == CASE c.do = "use"  -> Touch(m, c.y, Look(m, m.heap[c.y].cell))
               [] c.do = "set"  -> Touch(m, c.y, [new EXCEPT !.heap[c.y].cell = Newest(new)])
               [] c.do = "copy" -> Touch(m, c.y, [m EXCEPT !.heap[c.y].cell = m.heap[c.z].cell])
  IN  IF env = 0 THEN Fault(m, "moved") ELSE Touch(m, env, run)

\* A call of a function that reads its parameter: a string argument is retained;
\* a callee that takes its parameter by move drops it.
ExecPass(m, s) ==
  LET x    == s.x
      v    == Load(m, x)
      t    == m.vars[x].t
      seen == Look(m, v)
      kept == IF t = "str" THEN StrRetain(seen, v) ELSE seen
  IN  IF s.init.t # "move" THEN kept
      ELSE CASE t = "str" -> StrRelease(kept, v)
             [] t = "map" -> MapFree(Store(kept, x, 0), v)
             [] t = "clo" -> BoxDec(Store(kept, x, 0), v)

Exec(m, s) ==
  CASE s.op = "let"    -> ExecLet(m, s, m.vars[s.x].boxed)
    [] s.op = "assign" -> ExecAssign(m, s)
    [] s.op = "use"    -> ExecUse(m, s.x)
    [] s.op = "call"   -> ExecCall(m, s.x)
    [] s.op = "pass"   -> ExecPass(m, s)

-----------------------------------------------------------------------------
(* The programs: which statements may come next *)

Init ==
  /\ family \in Families
  /\ prog = <<>>
  /\ vars = [x \in 1..MaxVars |-> NoVar]
  /\ slot = [x \in 1..MaxVars |-> 0]
  /\ heap = <<>>
  /\ blocks = <<[op |-> "block", at |-> 0, names |-> <<>>, on |-> TRUE]>>
  /\ faults = {} /\ returned = FALSE /\ ret = 0

Visible   == {x \in 1..MaxVars : Open(x)}
Refs      == {x \in Visible : vars[x].to # 0}
Values    == Visible \ Refs
Views     == {x \in Values : vars[x].view}
Movable   == {x \in Values : "capmove" \in family.forms \/ vars[x].t = "str" \/ ~vars[x].boxed}
FreshName == Cardinality({i \in DOMAIN prog : prog[i].op = "let"}) + 1
Has(form, S) == IF form \in family.forms THEN S ELSE {}
OfType(t, S) == {x \in S : vars[x].t = t}

Lambdas ==
  LET Boxed == {x \in Values : vars[x].boxed /\ vars[x].t # "clo"}
                 \ (IF "capmove" \in family.forms THEN {} ELSE Views)
      BoxedStrs == OfType("str", Boxed)
  IN  Has("lambda", {Lambda(do, y, 0) : do \in {"use", "set"}, y \in Boxed})
        \cup Has("capcopy", {Lambda("copy", yz[1], yz[2]) : yz \in {q \in BoxedStrs \X BoxedStrs : q[1] # q[2]}})

\* What a declaration may be initialised with.
Inits(const) ==
  {New(t) : t \in family.types}
    \cup {Var(y) : y \in IF const THEN Values \ (OfType("clo", Values) \cup Views) ELSE Movable}
    \cup Has("constclo", {Var(y) : y \in IF const THEN OfType("clo", Values) ELSE {}})
    \cup Has("refcopy", {Var(y) : y \in Refs \cup Views} \cup {Ref(y) : y \in Views})
    \cup Has("group", {Group(y) : y \in Values})
    \cup Has("ref", {Ref(y) : y \in Values \ Views})
    \cup Has("move", {Move(y) : y \in Movable \ OfType("str", Values)})
    \cup Has("strmove", {Move(y) : y \in OfType("str", Values)})
    \cup Lambdas

\* Fresh values of x's type, other variables of that type.
Sources(x) ==
  LET Same == OfType(vars[x].t, Movable)
  IN  (IF vars[x].t = "clo" THEN Lambdas ELSE {New(vars[x].t)})
        \cup {Var(y) : y \in Same} \cup Has("group", {Group(y) : y \in Same})

-----------------------------------------------------------------------------
(* The statements *)

Running == \A i \in DOMAIN blocks : blocks[i].on

Write(s) ==
  /\ ~returned /\ Len(prog) < family.stmts /\ UNCHANGED family
  /\ prog' = Append(prog, s)
  /\ Accepted(prog')

\* A statement in a branch not taken is compiled and not executed.
Become(m) ==
  /\ vars' = m.vars /\ slot' = m.slot /\ heap' = m.heap /\ faults' = m.faults

Execute(s) ==
  /\ Write(s)
  /\ IF Running THEN Become(Exec(Machine, s)) ELSE UNCHANGED <<vars, slot, heap, faults>>
  /\ UNCHANGED <<blocks, returned, ret>>

\* What the code generator would know of a variable whose declaration does not run.
Known(s) ==
  LET y == s.init.y
  IN  [t |-> IF s.init.k = "new" THEN s.init.t ELSE IF s.init.k = "lambda" THEN "clo" ELSE vars[y].t,
       boxed |-> FALSE, view |-> FALSE,
       to |-> IF s.init.k = "ref" THEN y ELSE IF s.init.k \in {"var", "group"} THEN vars[y].to ELSE 0]

DeclareVar(const, init, boxed) ==
  LET s == Let(const, FreshName, init)
  IN  /\ FreshName <= MaxVars
      /\ boxed => "lambda" \in family.forms /\ init.k # "ref" /\ init.k # "lambda" /\ Running
      /\ Write(s)
      /\ blocks' = [blocks EXCEPT ![Len(blocks)].names = Append(@, s.x)]
      /\ IF Running THEN Become(ExecLet(Machine, s, boxed))
         ELSE vars' = [vars EXCEPT ![s.x] = Known(s)] /\ UNCHANGED <<slot, heap, faults>>
      /\ UNCHANGED <<returned, ret>>

AssignTo(x, init) == x \in Values /\ Execute(Assign(x, init))
UseVar(x)         == x \in Visible /\ Execute(Use(x))
CallClosure(x)    == x \in OfType("clo", Values) /\ Execute(Call(x))
PassVar(mode, x)  ==
  /\ "pass" \in family.forms
  /\ x \in (IF mode = "move" THEN Movable ELSE Values)
  /\ Execute(Pass(mode, x))

OpenBlock(op, taken) ==
  /\ op \in family.forms
  /\ op = "block" => taken
  /\ Write(Mark(op))
  /\ blocks' = Append(blocks, [op |-> op, at |-> Len(prog'), names |-> <<>>, on |-> taken])
  /\ UNCHANGED <<vars, slot, heap, faults, returned, ret>>

\* compileBlockStmt: a block drops its variables when it is left.
Leave(m) == IF Running THEN DropBlock(m, Last(blocks)) ELSE m

ElseBlock ==
  LET b == Last(blocks)
  IN  /\ b.op = "if"
      /\ Write(Mark("else"))
      /\ Become(Leave(Machine))
      /\ blocks' = Append(Front(blocks), [op |-> "else", at |-> Len(prog'), names |-> <<>>, on |-> ~b.on])
      /\ UNCHANGED <<returned, ret>>

\* A while runs its body again, with the code emitted once.
Again(m, b) ==
  DropBlock(FoldLeft(LAMBDA h, s : Exec(h, s), m, SubSeq(prog, b.at + 1, Len(prog))), b)

CloseBlock(times) ==
  LET b == Last(blocks)
  IN  /\ Len(blocks) > 1
      /\ times > 1 => /\ b.op = "while" /\ Running
                      /\ \A i \in b.at + 1 .. Len(prog) : prog[i].op \notin Opens
      /\ Write(Mark("end"))
      /\ LET left[n \in 1 .. times] == IF n = 1 THEN Leave(Machine) ELSE Again(left[n - 1], b)
         IN  Become(left[times])
      /\ blocks' = Front(blocks)
      /\ UNCHANGED <<returned, ret>>

\* compileReturnStmt: the value is loaded, moved out of its variable or
\* retained, and every open scope is dropped.
ReturnFrom(init) ==
  LET c    == Compile(Machine, init)
      y    == init.y
      out  == IF init.k = "var" /\ IsMoved(vars[y]) THEN Store(c.m, y, 0)
              ELSE IF vars[y].t = "str" THEN StrRetain(c.m, c.v) ELSE c.m
  IN  /\ Running
      /\ Write(Return(init))
      /\ IF init.k = "new" THEN Become(DropScopes(Machine)) /\ ret' = 0
         ELSE Become(DropScopes(out)) /\ ret' = c.v
      /\ returned' = TRUE
      /\ UNCHANGED blocks

Next ==
  \/ \E const, boxed \in BOOLEAN : \E init \in Inits(const) : DeclareVar(const, init, boxed)
  \/ \E x \in Values : \E init \in Sources(x) : AssignTo(x, init)
  \/ \E x \in Visible : UseVar(x)
  \/ \E x \in Visible : CallClosure(x)
  \/ \E x \in Values, mode \in {"const", "let", "move"} : PassVar(mode, x)
  \/ \E op \in Opens, taken \in BOOLEAN : OpenBlock(op, taken)
  \/ ElseBlock
  \/ \E n \in 1..family.rounds : CloseBlock(n)
  \/ \E init \in {New("")} \cup {Var(y) : y \in Values} \cup Has("group", {Group(y) : y \in Values}) :
       ReturnFrom(init)

Spec == Init /\ [][Next]_state

-----------------------------------------------------------------------------
(* Properties of every program the borrow checker accepts *)

\* No string, map, box or environment is read, counted or freed after it was freed.
NoUseAfterFree == "freed" \notin faults

\* No variable is read after its value moved away, and no reference after
\* what it refers to has moved or gone out of scope.
NoStaleRead == faults \cap {"moved", "dangling"} = {}

\* The variables and boxes that will release an object are no more than its
\* count; a map has one owner.
Owners(o) ==
  Cardinality({x \in Visible : slot[x] = o /\ ~vars[x].view /\ vars[x].to = 0})
    + Cardinality({b \in DOMAIN heap : heap[b].k = "box" /\ heap[b].rc > 0
                                        /\ heap[b].t # "view" /\ heap[b].cell = o})
    + Cardinality({ei \in (DOMAIN heap) \X (1..2) :
                     /\ heap[ei[1]].k = "env" /\ heap[ei[1]].rc > 0
                     /\ ei[2] \in DOMAIN heap[ei[1]].caps /\ heap[ei[1]].caps[ei[2]] = o})
    + (IF returned /\ ret = o THEN 1 ELSE 0)
CountsCover == \A o \in DOMAIN heap : Owners(o) <= heap[o].rc

\* Dropping the scopes of a returning function leaves no string behind but
\* the one it returns, unless a lambda captured it or a call was given it.
StringsReleased ==
  returned /\ (\A i \in DOMAIN prog : prog[i].op # "pass") /\ (\A x \in 1..MaxVars : ~vars[x].boxed)
    => \A o \in DOMAIN heap : heap[o].t = "str" => heap[o].rc = (IF ret = o THEN 1 ELSE 0)

\* A reference count covers the owners an object has, and a return leaves no
\* count of a string behind: none is freed early and none kept for ever.
OwnersCounted == CountsCover /\ StringsReleased
=============================================================================
