------------------------------ MODULE Lowering ------------------------------
(***************************************************************************)
(* From the statements of a function to basic blocks: llvm_if.c,           *)
(* llvm_while.c, llvm_for.c, llvm_loop.c, llvm_goto.c and, in compiler.c   *)
(* and llvm_expr.c, blocks, returns, the rewriting of tail calls and the   *)
(* operators that do not always evaluate their right side.                 *)
(*                                                                         *)
(* An emission is a record: blocks, each [code, ends] with its             *)
(* instructions and the terminators given to it (LLVM wants exactly one);  *)
(* at, the block being written; fresh, the number of registers so far;     *)
(* loops, the stack of <<break target, continue target>>; labels, pairs    *)
(* <<name, block>>, and those defined; scopes, the variables of each       *)
(* block of the source, innermost last; header, the block a tail call      *)
(* jumps to, or 0; and err, whether an error was reported.                 *)
(*                                                                         *)
(* Expressions are <<"call", n>>, whose result only the program's world    *)
(* knows, <<"param", i>>, <<"binary", op, a, b>> and <<"guard", e, block>>; *)
(* their values are Booleans: a truth, whether an Option is there, whether *)
(* a call failed.                                                          *)
(***************************************************************************)
EXTENDS Integers, Sequences, SequencesExt

CONSTANTS ParamCount,   \* how many parameters the function has
          ElementCount  \* how many elements a map or an array has

Null == <<"null">>
Entry == [code |-> <<>>, ends |-> <<>>]

-----------------------------------------------------------------------------
(* The builder *)

LLVMAppendBasicBlocks(s, n) == [s EXCEPT !.blocks = @ \o [i \in 1 .. n |-> Entry]]
LLVMPositionBuilderAtEnd(s, b) == [s EXCEPT !.at = b]
Emit(s, instruction) == [s EXCEPT !.blocks[s.at].code = Append(@, instruction)]
End(s, terminator) == [s EXCEPT !.blocks[s.at].ends = Append(@, terminator)]
Terminated(s) == s.blocks[s.at].ends # <<>>
Jump(s, b) == IF Terminated(s) THEN s ELSE End(s, <<"br", b>>)

\* A new register with what an instruction leaves in it.
Result(s, instruction) ==
  [s |-> [Emit(s, Append(instruction, s.fresh + 1)) EXCEPT !.fresh = @ + 1], v |-> <<"reg", s.fresh + 1>>]

RECURSIVE compileExpr(_, _), compileStmt(_, _), compileStmts(_, _), compileArgs(_, _)

-----------------------------------------------------------------------------
(* Variables and their ends *)

emitDropForVar(s, x) == IF Terminated(s) THEN s ELSE Emit(s, <<"drop", x>>)
compilerEmitDropForBlockVars(s, scope) == FoldLeft(emitDropForVar, s, scope)
compilerEmitDropForCurrentFunctionScopes(s) == FoldLeft(compilerEmitDropForBlockVars, s, Reverse(s.scopes))

Declare(s, x) == [Emit(s, <<"init", x>>) EXCEPT !.scopes[Len(s.scopes)] = Append(@, x)]
EnterScope(s) == [s EXCEPT !.scopes = Append(@, <<>>)]
LeaveScope(s) == [s EXCEPT !.scopes = Front(@)]
DropScope(s) == IF Terminated(s) THEN s ELSE compilerEmitDropForBlockVars(s, Last(s.scopes))

compileBlockStmt(s, stmts) == LeaveScope(DropScope(compileStmts(EnterScope(s), stmts)))

-----------------------------------------------------------------------------
(* Expressions: [s, v] *)

\* `a && b` and `a || b`: the right side has a block of its own, and may end in
\* another one.
emitLogical(s, op, a, b) ==
  LET left == compileExpr(s, a)
      rhsBlock == Len(left.s.blocks) + 1
      endBlock == rhsBlock + 1
      split == End(LLVMAppendBasicBlocks(left.s, 2),
                   IF op = "&&" THEN <<"cond", left.v, rhsBlock, endBlock>> ELSE <<"cond", left.v, endBlock, rhsBlock>>)
      right == compileExpr(LLVMPositionBuilderAtEnd(split, rhsBlock), b)
      joined == LLVMPositionBuilderAtEnd(End(right.s, <<"br", endBlock>>), endBlock)
  IN  Result(joined, <<"phi", <<right.v, right.s.at>>, <<<<"bool", op = "||">>, left.s.at>>>>)

\* `a ?? b`: the payload of a (here TRUE) if there is one, or b.
emitCoalesce(s, a, b) ==
  LET left == compileExpr(s, a)
      rhsBB == Len(left.s.blocks) + 1
      contBB == rhsBB + 1
      split == End(LLVMAppendBasicBlocks(left.s, 2), <<"cond", left.v, contBB, rhsBB>>)
      right == compileExpr(LLVMPositionBuilderAtEnd(split, rhsBB), b)
      joined == LLVMPositionBuilderAtEnd(End(right.s, <<"br", contBB>>), contBB)
  IN  Result(joined, <<"phi", <<<<"bool", TRUE>>, left.s.at>>, <<right.v, right.s.at>>>>)

\* `call ? { ... }`: the block runs when the call fails, and does not come back.
emitGuardExpr(s, call, onErr) ==
  LET err == compileExpr(s, call)
      errBB == Len(err.s.blocks) + 1
      okBB == errBB + 1
      split == End(LLVMAppendBasicBlocks(err.s, 2), <<"cond", err.v, errBB, okBB>>)
      failed == compileBlockStmt(LLVMPositionBuilderAtEnd(split, errBB), onErr)
      sealed == IF Terminated(failed) THEN failed ELSE End(failed, <<"unreachable">>)
  IN  [s |-> LLVMPositionBuilderAtEnd(sealed, okBB), v |-> <<"bool", TRUE>>]

compileExpr(s, e) ==
  CASE e[1] = "binary" /\ e[2] \in {"&&", "||"} -> emitLogical(s, e[2], e[3], e[4])
    [] e[1] = "binary" /\ e[2] = "??" -> emitCoalesce(s, e[3], e[4])
    [] e[1] = "guard" -> emitGuardExpr(s, e[2], e[3])
    [] OTHER -> Result(s, e)

\* The values of a call's arguments, left to right.
compileArgs(s, args) ==
  IF args = <<>> THEN [s |-> s, vs |-> <<>>]
  ELSE LET first == compileExpr(s, Head(args))
           rest  == compileArgs(first.s, Tail(args))
       IN  [s |-> rest.s, vs |-> <<first.v>> \o rest.vs]

-----------------------------------------------------------------------------
(* Branches *)

emitIfStmt(s, cond, then, else) ==
  LET c == compileExpr(s, cond)
      thenBlock == Len(c.s.blocks) + 1
      mergeBlock == thenBlock + (IF else = Null THEN 1 ELSE 2)
      elseBlock == IF else = Null THEN mergeBlock ELSE thenBlock + 1
      split == End(LLVMAppendBasicBlocks(c.s, mergeBlock - Len(c.s.blocks)), <<"cond", c.v, thenBlock, elseBlock>>)
      s1 == Jump(compileStmt(LLVMPositionBuilderAtEnd(split, thenBlock), then), mergeBlock)
      s2 == IF else = Null THEN s1
            ELSE Jump(compileStmt(LLVMPositionBuilderAtEnd(s1, elseBlock), else), mergeBlock)
  IN  LLVMPositionBuilderAtEnd(s2, mergeBlock)

\* `if let x = e`: x is a variable of a scope around the first branch.
emitIfLetStmt(s, x, e, then, else) ==
  LET c == compileExpr(s, e)
      thenBlock == Len(c.s.blocks) + 1
      mergeBlock == thenBlock + (IF else = Null THEN 1 ELSE 2)
      elseBlock == IF else = Null THEN mergeBlock ELSE thenBlock + 1
      split == End(LLVMAppendBasicBlocks(c.s, mergeBlock - Len(c.s.blocks)), <<"cond", c.v, thenBlock, elseBlock>>)
      bound == Declare(EnterScope(LLVMPositionBuilderAtEnd(split, thenBlock)), x)
      s1 == LeaveScope(Jump(DropScope(compileStmt(bound, then)), mergeBlock))
      s2 == IF else = Null THEN s1
            ELSE Jump(compileStmt(LLVMPositionBuilderAtEnd(s1, elseBlock), else), mergeBlock)
  IN  LLVMPositionBuilderAtEnd(s2, mergeBlock)

-----------------------------------------------------------------------------
(* Loops *)

llvmPushLoop(s, breakTarget, continueTarget) == [s EXCEPT !.loops = Append(@, <<breakTarget, continueTarget>>)]
llvmPopLoop(s) == [s EXCEPT !.loops = Front(@)]

LoopBody(s, b, body, breakTarget, continueTarget) ==
  LET pushed == llvmPushLoop(LLVMPositionBuilderAtEnd(s, b), breakTarget, continueTarget)
  IN  Jump(llvmPopLoop(compileStmt(pushed, body)), continueTarget)

emitBreakStmt(s) ==
  IF s.loops = <<>> THEN [s EXCEPT !.err = TRUE] ELSE Jump(s, Last(s.loops)[1])
emitContinueStmt(s) ==
  IF s.loops = <<>> THEN [s EXCEPT !.err = TRUE] ELSE Jump(s, Last(s.loops)[2])

emitWhileStmt(s, cond, body) ==
  LET condBlock == Len(s.blocks) + 1
      bodyBlock == condBlock + 1
      endBlock == condBlock + 2
      c == compileExpr(LLVMPositionBuilderAtEnd(Jump(LLVMAppendBasicBlocks(s, 3), condBlock), condBlock), cond)
      tested == End(c.s, <<"cond", c.v, bodyBlock, endBlock>>)
  IN  LLVMPositionBuilderAtEnd(LoopBody(tested, bodyBlock, body, endBlock, condBlock), endBlock)

emitDoWhileStmt(s, body, cond) ==
  LET bodyBlock == Len(s.blocks) + 1
      condBlock == bodyBlock + 1
      endBlock == bodyBlock + 2
      looped == LoopBody(Jump(LLVMAppendBasicBlocks(s, 3), bodyBlock), bodyBlock, body, endBlock, condBlock)
      c == compileExpr(LLVMPositionBuilderAtEnd(looped, condBlock), cond)
  IN  LLVMPositionBuilderAtEnd(End(c.s, <<"cond", c.v, bodyBlock, endBlock>>), endBlock)

\* The blocks of a `for`, in the order newForStmtBlock makes them.
newForStmtBlock(s) ==
  [loopCond |-> Len(s.blocks) + 1, loopBody |-> Len(s.blocks) + 2, loopInc |-> Len(s.blocks) + 3, loopEnd |-> Len(s.blocks) + 4]

emitForStmtInit(s, block, init) ==
  LET new == LLVMAppendBasicBlocks(s, 4)
  IN  End(IF init = Null THEN new ELSE compileExpr(new, init).s, <<"br", block.loopCond>>)

emitForStmtCond(s, block, cond) ==
  LET here == LLVMPositionBuilderAtEnd(s, block.loopCond)
      c == compileExpr(here, cond)
  IN  IF cond = Null THEN End(here, <<"br", block.loopBody>>)
      ELSE End(c.s, <<"cond", c.v, block.loopBody, block.loopEnd>>)

\* Only `i++` of a variable of the enclosing block is compiled.
emitForStmtInc(s, block, inc) ==
  LET here == LLVMPositionBuilderAtEnd(s, block.loopInc)
  IN  End(IF inc # Null /\ inc[1] = "postfix" THEN Emit(here, <<"increment">>) ELSE here, <<"br", block.loopCond>>)

ForBodyTestsAgain(s, block, body) == \* `continue` skips the increment
  Jump(LoopBody(s, block.loopBody, body, block.loopEnd, block.loopCond), block.loopInc)
emitForStmtBody(s, block, body) == LoopBody(s, block.loopBody, body, block.loopEnd, block.loopInc)

emitForStmt(s, init, cond, inc, body) ==
  LET block == newForStmtBlock(s)
      tested == emitForStmtCond(emitForStmtInit(s, block, init), block, cond)
      turned == emitForStmtInc(emitForStmtBody(tested, block, body), block, inc)
  IN  LLVMPositionBuilderAtEnd(turned, block.loopEnd)

\* Over a map: the test asks for the next entry and moves the index on.
emitForInMap(s, body) ==
  LET idx == s.fresh + 1
      condBB == Len(s.blocks) + 1
      bodyBB == condBB + 1
      endBB == condBB + 2
      start == End(Emit([LLVMAppendBasicBlocks(s, 3) EXCEPT !.fresh = idx], <<"index", idx>>), <<"br", condBB>>)
      ok == Result(LLVMPositionBuilderAtEnd(start, condBB), <<"next", idx>>)
      tested == End(ok.s, <<"cond", ok.v, bodyBB, endBB>>)
      bound == Emit(LLVMPositionBuilderAtEnd(tested, bodyBB), <<"element", idx, -1>>)
  IN  LLVMPositionBuilderAtEnd(LoopBody(bound, bodyBB, body, endBB, condBB), endBB)

\* Over an array: the length is read once, before the loop.
emitForInArray(s, body) ==
  LET idx == s.fresh + 1
      okBB == Len(s.blocks) + 1
      badBB == okBB + 1
      condBB == okBB + 2
      bodyBB == okBB + 3
      incBB == okBB + 4
      endBB == okBB + 5
      checked == End([LLVMAppendBasicBlocks(s, 6) EXCEPT !.fresh = idx], <<"cond", <<"bool", FALSE>>, badBB, okBB>>)
      panic == End(LLVMPositionBuilderAtEnd(checked, badBB), <<"unreachable">>)
      start == End(Emit(LLVMPositionBuilderAtEnd(panic, okBB), <<"index", idx>>), <<"br", condBB>>)
      ok == Result(LLVMPositionBuilderAtEnd(start, condBB), <<"less", idx>>)
      tested == End(ok.s, <<"cond", ok.v, bodyBB, endBB>>)
      bound == Emit(LLVMPositionBuilderAtEnd(tested, bodyBB), <<"element", idx, 0>>)
      looped == LLVMPositionBuilderAtEnd(LoopBody(bound, bodyBB, body, endBB, incBB), incBB)
  IN  LLVMPositionBuilderAtEnd(End(Emit(looped, <<"advance", idx>>), <<"br", condBB>>), endBB)

emitForInStmt(s, range, body) ==
  LET looped == IF range = "map" THEN emitForInMap(EnterScope(s), body) ELSE emitForInArray(EnterScope(s), body)
  IN  LeaveScope(looped)

-----------------------------------------------------------------------------
(* Labels *)

\* A function's labels are common to its blocks; the first use of one, a goto
\* or the label itself, makes its block.
getOrCreateLabel(s, name) ==
  IF \E i \in DOMAIN s.labels : s.labels[i][1] = name THEN s
  ELSE [LLVMAppendBasicBlocks(s, 1) EXCEPT !.labels = Append(@, <<name, Len(s.blocks) + 1>>)]
LabelBlock(s, name) == s.labels[CHOOSE i \in DOMAIN s.labels : s.labels[i][1] = name][2]

emitLabelStmt(s, name) ==
  LET known == getOrCreateLabel(s, name)
      block == LabelBlock(known, name)
  IN  IF name \in s.defined THEN [known EXCEPT !.err = TRUE]
      ELSE LLVMPositionBuilderAtEnd(Jump([known EXCEPT !.defined = @ \cup {name}], block), block)

emitGotoStmt(s, name) ==
  LET known == getOrCreateLabel(s, name)
      left == LLVMAppendBasicBlocks(Jump(known, LabelBlock(known, name)), 1)
  IN  LLVMPositionBuilderAtEnd(left, Len(left.blocks))

-----------------------------------------------------------------------------
(* Returns *)

\* `return f(args)` in f itself: the arguments become the parameters and the
\* body starts again.
IsTailCall(s, e) == s.header # 0 /\ e[1] = "self" /\ Len(e[2]) = ParamCount
tailrecTryRewriteReturn(s, args) ==
  LET argVals == compileArgs(s, args)
      StoreParam(t, i) == Emit(t, <<"store", i, argVals.vs[i]>>)
  IN  End(FoldLeft(StoreParam, argVals.s, [i \in 1 .. ParamCount |-> i]), <<"br", s.header>>)

compileReturnStmt(s, e) ==
  LET value == compileExpr(s, e)
  IN  IF Terminated(s) THEN s
      ELSE IF IsTailCall(s, e) THEN tailrecTryRewriteReturn(s, e[2])
      ELSE IF e = Null THEN End(compilerEmitDropForCurrentFunctionScopes(s), <<"ret", <<"bool", FALSE>>>>)
      ELSE End(compilerEmitDropForCurrentFunctionScopes(value.s), <<"ret", value.v>>)

-----------------------------------------------------------------------------
(* Statements and functions *)

compileStmt(s, t) ==
  CASE t[1] = "if"       -> emitIfStmt(s, t[2], t[3], t[4])
    [] t[1] = "iflet"    -> emitIfLetStmt(s, t[2], t[3], t[4], t[5])
    [] t[1] = "for"      -> emitForStmt(s, t[2], t[3], t[4], t[5])
    [] t[1] = "forin"    -> emitForInStmt(s, t[2], t[3])
    [] t[1] = "while"    -> emitWhileStmt(s, t[2], t[3])
    [] t[1] = "dowhile"  -> emitDoWhileStmt(s, t[2], t[3])
    [] t[1] = "break"    -> emitBreakStmt(s)
    [] t[1] = "continue" -> emitContinueStmt(s)
    [] t[1] = "label"    -> emitLabelStmt(s, t[2])
    [] t[1] = "goto"     -> emitGotoStmt(s, t[2])
    [] t[1] = "block"    -> compileBlockStmt(s, t[2])
    [] t[1] = "return"   -> compileReturnStmt(s, t[2])
    [] t[1] = "expr"     -> compileExpr(s, t[2]).s
    [] t[1] = "var"      -> Declare(compileExpr(s, t[3]).s, t[2])

\* What follows a terminator in the same list is not compiled.
compileStmts(s, stmts) ==
  IF stmts = <<>> \/ Terminated(s) THEN s ELSE compileStmts(compileStmt(s, Head(stmts)), Tail(stmts))

\* The body has a block of its own for tail calls to jump to.
compileFuncStmt(body) ==
  LET start == [blocks |-> <<[code |-> <<>>, ends |-> <<<<"br", 2>>>>], Entry>>, at |-> 2, fresh |-> 0, loops |-> <<>>,
                labels |-> <<>>, defined |-> {}, scopes |-> <<<<>>>>, header |-> 2, err |-> FALSE]
      s == compileStmts(start, body)
  IN  IF Terminated(s) THEN s ELSE End(DropScope(s), <<"ret", <<"bool", FALSE>>>>)
=============================================================================
