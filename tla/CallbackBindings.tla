-------------------------- MODULE CallbackBindings --------------------------
(***************************************************************************)
(* Saved callbacks: tua_loop_post_cl, tua_timer_after_ms_cl and             *)
(* tua_timer_every_ms_cl (rt_tua_bind_posix.c) keep a closure for later.    *)
(* The environment of a closure is a reference-counted box (rt_box.c); the  *)
(* program's own binding holds one reference and each registration another. *)
(*                                                                         *)
(* The loop is what EventLoop shows of it: one thread, tasks in the order   *)
(* they were posted, a timer called after `active` was read under the lock. *)
(* tua_timer_every_cancel_cl is two steps, tua_timer_cancel and then the    *)
(* post of the task that frees the handle, from any thread.                 *)
(***************************************************************************)
EXTENDS Naturals, Sequences, FiniteSets

CONSTANTS Threads,    \* threads that use the bindings, LoopThread excepted
          LoopThread,
          Closures,   \* closure values of the program
          Regs,       \* the registrations that may be made
          None

ASSUME BindingAssumption == LoopThread \notin Threads /\ None \notin Closures \cup Regs

Actors == Threads \cup {LoopThread}
Kinds == {"post", "after", "every"}

VARIABLES refs,    \* refs[c]: the counter of the box that is c's environment
          bound,   \* bound[c]: the program's binding of c is still in scope
          reg,     \* reg[r]: kind, closure and state of registration r
          queue,   \* the loop's tasks: the registrations whose task is posted
          pc,      \* where the loop thread stands
          current, \* the registration the loop thread is busy with
          cancels, \* cancels[a]: the handle a has cancelled and not yet posted
          inline   \* inline[a]: the closure a calls inside tua_timer_after_ms_cl

vars == <<refs, bound, reg, queue, pc, current, cancels, inline>>

Init == /\ refs = [c \in Closures |-> 1]
        /\ bound = [c \in Closures |-> TRUE]
        /\ reg = [r \in Regs |-> [kind |-> "post", cl |-> None, st |-> "unused"]]
        /\ queue = <<>>
        /\ pc = "outside" /\ current = None
        /\ cancels = [a \in Actors |-> None]
        /\ inline = [a \in Actors |-> None]

(* The states in which a registration owns a reference and its context.     *)
Owning == {"armed", "cancelled", "leaked"}
Owners(c) == {r \in Regs : reg[r].cl = c /\ reg[r].st \in Owning}

(* Where user code runs: any time on a thread, in a callback on the loop's. *)
InUserCode(a) == /\ pc # "freed"
                 /\ cancels[a] = None
                 /\ a = LoopThread => pc \in {"outside", "inCallback"}

(* User code can pass a closure it has: one in scope, or the one running.   *)
CanPass(a, c) == \/ bound[c]
                 \/ a = LoopThread /\ pc = "inCallback" /\ reg[current].cl = c
                 \/ inline[a] = c
-----------------------------------------------------------------------------
Retain(c) == refs' = [refs EXCEPT ![c] = @ + 1]   \* tua_box_inc
Release(c) == refs' = [refs EXCEPT ![c] = @ - 1]  \* tua_box_dec

(* The binding leaves its scope, at the latest when no call borrows it.     *)
DropBinding(c) == /\ bound[c]
                  /\ \A a \in Actors : inline[a] # c
                  /\ bound' = [bound EXCEPT ![c] = FALSE]
                  /\ Release(c)
                  /\ UNCHANGED <<reg, queue, pc, current, cancels, inline>>

Arm(r, kind, c) == /\ reg[r].st = "unused"
                   /\ reg' = [reg EXCEPT ![r] = [kind |-> kind, cl |-> c, st |-> "armed"]]
                   /\ Retain(c)
                   /\ queue' = IF kind = "post" THEN Append(queue, r) ELSE queue

Register(a, r, kind, c) == /\ InUserCode(a) /\ CanPass(a, c)
                           /\ Arm(r, kind, c)
                           /\ UNCHANGED <<bound, pc, current, cancels, inline>>

(* Out of memory, for the context or in tua_loop_post or tua_timer_start:   *)
(* what was retained is released before the error is returned.              *)
RegisterFails(a, r, kind, c) ==
  /\ InUserCode(a) /\ CanPass(a, c)
  /\ reg[r].st = "unused"
  /\ reg' = [reg EXCEPT ![r] = [kind |-> kind, cl |-> c, st |-> "failed"]]
  /\ UNCHANGED <<refs, bound, queue, pc, current, cancels, inline>>

(* tua_timer_after_ms_cl with delay_ms <= 0 calls the closure itself.       *)
CallInline(a, c) == /\ InUserCode(a) /\ CanPass(a, c)
                    /\ inline[a] = None
                    /\ inline' = [inline EXCEPT ![a] = c]
                    /\ UNCHANGED <<refs, bound, reg, queue, pc, current, cancels>>

ReturnInline(a) == /\ InUserCode(a) /\ inline[a] # None
                   /\ inline' = [inline EXCEPT ![a] = None]
                   /\ UNCHANGED <<refs, bound, reg, queue, pc, current, cancels>>
-----------------------------------------------------------------------------
(* tua_timer_every_cancel_cl: the timer goes inactive, then the task that   *)
(* frees the handle is posted; when the post fails the handle is leaked.    *)

CancelEvery(a, r) == /\ InUserCode(a)
                     /\ reg[r].kind = "every" /\ reg[r].st = "armed"
                     /\ reg' = [reg EXCEPT ![r].st = "cancelled"]
                     /\ cancels' = [cancels EXCEPT ![a] = r]
                     /\ UNCHANGED <<refs, bound, queue, pc, current, inline>>

PostFreeForgets(a) == /\ cancels[a] # None
                      /\ cancels' = [cancels EXCEPT ![a] = None]
                      /\ UNCHANGED <<refs, bound, reg, queue, pc, current, inline>>

PostFree(a) == /\ cancels[a] # None
               /\ cancels' = [cancels EXCEPT ![a] = None]
               /\ \/ queue' = Append(queue, cancels[a]) /\ UNCHANGED reg
                  \/ reg' = [reg EXCEPT ![cancels[a]].st = "leaked"] /\ UNCHANGED queue
               /\ UNCHANGED <<refs, bound, pc, current, inline>>
-----------------------------------------------------------------------------
(* The loop thread                                                          *)
Run == /\ pc = "outside" /\ cancels[LoopThread] = None /\ inline[LoopThread] = None
       /\ pc' = "between"
       /\ UNCHANGED <<refs, bound, reg, queue, current, cancels, inline>>

BeginPosted == /\ pc = "between" /\ queue # <<>>
               /\ reg[Head(queue)].kind = "post"
               /\ current' = Head(queue)
               /\ queue' = Tail(queue)
               /\ pc' = "inCallback"
               /\ UNCHANGED <<refs, bound, reg, cancels, inline>>

FreeTaskKeeping == /\ pc = "between" /\ queue # <<>>
                   /\ reg[Head(queue)].kind = "every"
                   /\ reg' = [reg EXCEPT ![Head(queue)].st = "done"]
                   /\ queue' = Tail(queue)
                   /\ UNCHANGED <<refs, bound, pc, current, cancels, inline>>

FreeTask == /\ pc = "between" /\ queue # <<>>
            /\ reg[Head(queue)].kind = "every"
            /\ Release(reg[Head(queue)].cl)
            /\ reg' = [reg EXCEPT ![Head(queue)].st = "done"]
            /\ queue' = Tail(queue)
            /\ UNCHANGED <<bound, pc, current, cancels, inline>>

(* The loop reads timer->active as true, and calls a moment later.          *)
CheckTimer(r) == /\ pc = "between"
                 /\ reg[r].kind \in {"after", "every"} /\ reg[r].st = "armed"
                 /\ current' = r
                 /\ pc' = "checked"
                 /\ UNCHANGED <<refs, bound, reg, queue, cancels, inline>>

CallTimer == /\ pc = "checked"
             /\ pc' = "inCallback"
             /\ UNCHANGED <<refs, bound, reg, queue, current, cancels, inline>>

(* Back from user code: the trampolines of post and after release the       *)
(* closure and free their context, that of every keeps both.                *)
EndCallback == /\ pc = "inCallback" /\ cancels[LoopThread] = None /\ inline[LoopThread] = None
               /\ IF reg[current].kind = "every" THEN UNCHANGED <<reg, refs>>
                  ELSE reg' = [reg EXCEPT ![current].st = "done"] /\ Release(reg[current].cl)
               /\ current' = None
               /\ pc' = "between"
               /\ UNCHANGED <<bound, queue, cancels, inline>>

Leave == /\ pc = "between"
         /\ pc' = "stopped"
         /\ UNCHANGED <<refs, bound, reg, queue, current, cancels, inline>>

(* tua_loop_free frees the nodes of the pending tasks and timers, and       *)
(* nothing that their args point to.                                        *)
LoopFree == /\ pc = "stopped"
            /\ \A a \in Actors : cancels[a] = None /\ inline[a] = None
            /\ pc' = "freed"
            /\ queue' = <<>>
            /\ UNCHANGED <<refs, bound, reg, current, cancels, inline>>

LoopStep == BeginPosted \/ FreeTask \/ CallTimer \/ EndCallback
-----------------------------------------------------------------------------
Use(a) == \/ \E r \in Regs, k \in Kinds, c \in Closures : Register(a, r, k, c) \/ RegisterFails(a, r, k, c)
          \/ \E c \in Closures : CallInline(a, c)
          \/ ReturnInline(a)
          \/ \E r \in Regs : CancelEvery(a, r)
          \/ PostFree(a)

Next == \/ \E a \in Actors : Use(a)
        \/ \E c \in Closures : DropBinding(c)
        \/ \E r \in Regs : CheckTimer(r)
        \/ Run \/ LoopStep \/ Leave \/ LoopFree

(* The loop thread takes its tasks, a cancel that was begun is finished and *)
(* the timers that stay armed come due.  User code returns: it makes only   *)
(* finitely many calls of its own first.                                    *)
Fairness == /\ SF_vars(Run)
            /\ SF_vars(BeginPosted \/ FreeTask) /\ WF_vars(CallTimer) /\ SF_vars(EndCallback)
            /\ \A a \in Actors : WF_vars(PostFree(a)) /\ WF_vars(ReturnInline(a))
            /\ \A r \in Regs : SF_vars(reg[r].kind = "after" /\ CheckTimer(r))

Spec == Init /\ [][Next]_vars /\ Fairness
-----------------------------------------------------------------------------
States == {"unused", "failed", "armed", "cancelled", "leaked", "done"}

TypeOK ==
  /\ refs \in [Closures -> Nat]
  /\ bound \in [Closures -> BOOLEAN]
  /\ reg \in [Regs -> [kind : Kinds, cl : Closures \cup {None}, st : States]]
  /\ queue \in Seq(Regs)
  /\ pc \in {"outside", "between", "checked", "inCallback", "stopped", "freed"}
  /\ current \in Regs \cup {None}
  /\ cancels \in [Actors -> Regs \cup {None}]
  /\ inline \in [Actors -> Closures \cup {None}]

(* Nothing the loop thread is about to call, is calling or still has queued *)
(* has been freed: the context or handle is there and the closure's         *)
(* environment has a reference, although the binding may be long gone and   *)
(* another thread may cancel between the check and the call.                *)
CallbackAlive ==
  /\ pc \in {"checked", "inCallback"} => reg[current].st \in Owning /\ refs[reg[current].cl] > 0
  /\ \A k \in DOMAIN queue : reg[queue[k]].st \in Owning /\ refs[reg[queue[k]].cl] > 0
  /\ \A a \in Actors : inline[a] # None => refs[inline[a]] > 0

(* The counter of an environment is the binding plus the registrations that *)
(* have not released it: none is released twice and none forgotten, nor any *)
(* freed that a callback uses.                                              *)
RefsBalance == TypeOK /\ CallbackAlive /\ \A c \in Closures :
                 refs[c] = Cardinality(Owners(c)) + IF bound[c] THEN 1 ELSE 0

(* What was registered is released: a post or an after when its call is     *)
(* over, an every after its cancel; unless the loop is left first, or the   *)
(* freeing task could not be posted.                                        *)
Released == \A r \in Regs :
  (reg[r].st = "cancelled" \/ (reg[r].st = "armed" /\ reg[r].kind # "every"))
    ~> reg[r].st \in {"done", "leaked"} \/ pc \in {"stopped", "freed"}
=============================================================================
