----------------------- MODULE CallbackBindingsProofs -----------------------
(***************************************************************************)
(* Proofs about CallbackBindings, for any threads, closures and             *)
(* registrations: references balance, and what is called is alive.          *)
(***************************************************************************)
EXTENDS CallbackBindings, FiniteSetTheorems, TLAPS

Queued(r) == \E k \in DOMAIN queue : queue[k] = r

(* A registration that owns a reference owns it to a closure.               *)
OwnersHaveClosures == \A r \in Regs : reg[r].st \in Owning => reg[r].cl \in Closures

(* What is queued is a posted callback, or the freeing of a cancelled       *)
(* repeating timer; nothing is queued twice.                                *)
QueueSound ==
  /\ \A k \in DOMAIN queue : \/ reg[queue[k]].kind = "post" /\ reg[queue[k]].st = "armed"
                             \/ reg[queue[k]].kind = "every" /\ reg[queue[k]].st = "cancelled"
  /\ \A k, l \in DOMAIN queue : queue[k] = queue[l] => k = l

(* The registration that is about to be called, or is, is still owned, and  *)
(* only the loop thread could release it: a repeating timer may be          *)
(* cancelled meanwhile, anything else is armed and no longer queued.        *)
CurrentOwned ==
  pc \in {"checked", "inCallback"} =>
    /\ current \in Regs
    /\ reg[current].st \in Owning
    /\ reg[current].kind # "every" => reg[current].st = "armed" /\ ~Queued(current)

(* Between tua_timer_cancel and the post of the freeing task, the handle    *)
(* belongs to one thread and is in no queue.                                *)
CancelsSound ==
  /\ \A a \in Actors : cancels[a] # None =>
       reg[cancels[a]].kind = "every" /\ reg[cancels[a]].st = "cancelled" /\ ~Queued(cancels[a])
  /\ \A a, b \in Actors : cancels[a] = cancels[b] /\ cancels[a] # None => a = b

(* A closure called in place is kept by the binding its caller borrows, or  *)
(* by the registration whose callback makes the call.                       *)
InlineKept ==
  \A a \in Actors : inline[a] # None =>
    bound[inline[a]] \/ (a = LoopThread /\ pc = "inCallback" /\ reg[current].cl = inline[a])

Balance == \A c \in Closures :
  IsFiniteSet(Owners(c)) /\ refs[c] = Cardinality(Owners(c)) + IF bound[c] THEN 1 ELSE 0

IInv == /\ TypeOK /\ OwnersHaveClosures /\ QueueSound /\ CurrentOwned
        /\ CancelsSound /\ InlineKept /\ Balance
-----------------------------------------------------------------------------
(* A step that neither takes nor gives back a reference keeps the balance.  *)
LEMMA NoOwnerChanges ==
  ASSUME Balance, refs' = refs, bound' = bound,
         \A r \in Regs : reg[r].st \in Owning <=> reg'[r].st \in Owning,
         \A r \in Regs : reg[r].st \in Owning => reg'[r].cl = reg[r].cl
  PROVE  Balance'
<1>1. \A c \in Closures : Owners(c)' = Owners(c)
  BY DEF Owners
<1> QED
  BY <1>1 DEF Balance

(* A registration that begins to own is counted: tua_box_inc before it is   *)
(* armed.                                                                   *)
LEMMA OwnerGained ==
  ASSUME Balance, TypeOK, NEW r \in Regs, NEW c \in Closures,
         reg[r].st \notin Owning, reg'[r].st \in Owning, reg'[r].cl = c,
         \A s \in Regs \ {r} : reg'[s] = reg[s],
         Retain(c), bound' = bound
  PROVE  Balance' /\ refs' \in [Closures -> Nat]
<1>1. \A d \in Closures \ {c} : Owners(d)' = Owners(d) /\ refs'[d] = refs[d]
  BY DEF Owners, Retain, TypeOK
<1>2. Owners(c)' = Owners(c) \cup {r} /\ r \notin Owners(c) /\ refs'[c] = refs[c] + 1
  BY DEF Owners, Retain, TypeOK
<1>3. IsFiniteSet(Owners(c)) /\ Cardinality(Owners(c)) \in Nat
  BY FS_CardinalityType DEF Balance
<1>4. IsFiniteSet(Owners(c)') /\ Cardinality(Owners(c)') = Cardinality(Owners(c)) + 1
  BY <1>2, <1>3, FS_AddElement
<1>5. IsFiniteSet(Owners(c))' /\ Cardinality(Owners(c))' = Cardinality(Owners(c)) + 1
  BY <1>4
<1>6. refs' \in [Closures -> Nat]
  BY DEF Retain, TypeOK
<1>7. (refs[c] = Cardinality(Owners(c)) + IF bound[c] THEN 1 ELSE 0)'
  BY <1>2, <1>3, <1>5 DEF Balance
<1> QED
  BY <1>1, <1>5, <1>6, <1>7 DEF Balance

(* A registration that is done is counted out, and the counter was not zero *)
(* before.                                                                  *)
LEMMA OwnerLost ==
  ASSUME Balance, TypeOK, NEW r \in Regs, NEW c \in Closures,
         reg[r].st \in Owning, reg[r].cl = c, reg'[r].st \notin Owning,
         \A s \in Regs \ {r} : reg'[s] = reg[s],
         Release(c), bound' = bound
  PROVE  Balance' /\ refs' \in [Closures -> Nat]
<1>1. \A d \in Closures \ {c} : Owners(d)' = Owners(d) /\ refs'[d] = refs[d]
  BY DEF Owners, Release, TypeOK
<1>2. Owners(c)' = Owners(c) \ {r} /\ r \in Owners(c) /\ refs'[c] = refs[c] - 1
  BY DEF Owners, Release, TypeOK
<1>3. IsFiniteSet(Owners(c)) /\ Cardinality(Owners(c)) \in Nat
  BY FS_CardinalityType DEF Balance
<1>4. IsFiniteSet(Owners(c)') /\ Cardinality(Owners(c)') = Cardinality(Owners(c)) - 1
  BY <1>2, <1>3, FS_RemoveElement
<1>5. Cardinality(Owners(c)') \in Nat
  BY <1>4, FS_CardinalityType
<1>6. /\ IsFiniteSet(Owners(c))' /\ Cardinality(Owners(c))' = Cardinality(Owners(c)) - 1
      /\ Cardinality(Owners(c)) >= 1
  BY <1>3, <1>4, <1>5
<1>7. refs[c] = Cardinality(Owners(c)) + IF bound[c] THEN 1 ELSE 0
  BY DEF Balance
<1>8. refs' \in [Closures -> Nat]
  <2>1. refs[c] - 1 \in Nat
    BY <1>3, <1>6, <1>7
  <2> QED
    BY <2>1 DEF Release, TypeOK
<1>9. (refs[c] = Cardinality(Owners(c)) + IF bound[c] THEN 1 ELSE 0)'
  BY <1>2, <1>3, <1>6, <1>7
<1> QED
  BY <1>1, <1>6, <1>8, <1>9 DEF Balance

(* The counter of what is owned or bound is not zero.                       *)
LEMMA OwnedIsAlive ==
  ASSUME Balance, NEW c \in Closures, Owners(c) # {} \/ bound[c]
  PROVE  refs[c] > 0
<1>1. IsFiniteSet(Owners(c)) /\ Cardinality(Owners(c)) \in Nat
  BY FS_CardinalityType DEF Balance
<1>2. Owners(c) # {} => Cardinality(Owners(c)) # 0
  BY <1>1, FS_EmptySet
<1> QED
  BY <1>1, <1>2 DEF Balance

(* One more task at the tail of the loop's list.                            *)
LEMMA AppendFacts ==
  ASSUME NEW s \in Seq(Regs), NEW r \in Regs
  PROVE  /\ Append(s, r) \in Seq(Regs)
         /\ DOMAIN s = 1..Len(s) /\ Len(s) \in Nat
         /\ DOMAIN Append(s, r) = 1..(Len(s) + 1)
         /\ \A k \in 1..(Len(s) + 1) : Append(s, r)[k] = IF k = Len(s) + 1 THEN r ELSE s[k]
OBVIOUS

(* One task less at its head.                                               *)
LEMMA TailFacts ==
  ASSUME NEW s \in Seq(Regs), s # <<>>
  PROVE  /\ Head(s) \in Regs /\ Head(s) = s[1] /\ 1 \in DOMAIN s
         /\ Tail(s) \in Seq(Regs)
         /\ DOMAIN s = 1..Len(s) /\ Len(s) \in Nat
         /\ DOMAIN Tail(s) = 1..(Len(s) - 1)
         /\ \A k \in DOMAIN Tail(s) : k + 1 \in DOMAIN s /\ k + 1 # 1 /\ Tail(s)[k] = s[k + 1]
OBVIOUS

(* A step that only moves one registration to another state.                *)
LEMMA StateMoves ==
  ASSUME TypeOK, NEW r \in Regs, NEW st \in States, reg' = [reg EXCEPT ![r].st = st]
  PROVE  /\ \A s \in Regs \ {r} : reg'[s] = reg[s]
         /\ \A s \in Regs : reg'[s].kind = reg[s].kind /\ reg'[s].cl = reg[s].cl
         /\ reg'[r].st = st
         /\ reg' \in [Regs -> [kind : Kinds, cl : Closures \cup {None}, st : States]]
<1>1. reg \in [Regs -> [kind : Kinds, cl : Closures \cup {None}, st : States]]
  BY DEF TypeOK
<1> QED
  BY <1>1
-----------------------------------------------------------------------------
LEMMA InitIInv == Init => IInv
<1> SUFFICES ASSUME Init PROVE IInv
  OBVIOUS
<1> USE BindingAssumption DEF Init
<1>1. TypeOK
  BY DEF TypeOK, Kinds, States
<1>2. OwnersHaveClosures /\ QueueSound /\ CurrentOwned /\ CancelsSound /\ InlineKept
  BY DEF OwnersHaveClosures, QueueSound, CurrentOwned, CancelsSound, InlineKept, Owning, Queued
<1>3. Balance
  <2>1. \A c \in Closures : Owners(c) = {}
    BY DEF Owners, Owning
  <2> QED
    <3>1. IsFiniteSet({}) /\ Cardinality({}) = 0
      BY FS_EmptySet
    <3>2. \A c \in Closures : refs[c] = 0 + IF bound[c] THEN 1 ELSE 0
      OBVIOUS
    <3> QED
      BY <2>1, <3>1, <3>2 DEF Balance
<1> QED
  BY <1>1, <1>2, <1>3 DEF IInv

(* Registering, whether it succeeds or not.  The record was unused, so      *)
(* nothing pointed to it: no task, no call and no cancel.                   *)
LEMMA RegisterKeeps ==
  ASSUME IInv, NEW a \in Actors, NEW r \in Regs, NEW kind \in Kinds, NEW c \in Closures,
         Register(a, r, kind, c) \/ RegisterFails(a, r, kind, c)
  PROVE  IInv'
<1> USE BindingAssumption DEF IInv
<1>1. reg[r].st = "unused" /\ UNCHANGED <<bound, pc, current, cancels, inline>>
  BY DEF Register, RegisterFails, Arm
<1>2. /\ \A s \in Regs \ {r} : reg'[s] = reg[s]
      /\ reg'[r].cl = c /\ reg'[r].kind = kind /\ reg'[r].st \in {"armed", "failed"}
      /\ reg' \in [Regs -> [kind : Kinds, cl : Closures \cup {None}, st : States]]
  <2>1. PICK st \in {"armed", "failed"} : reg' = [reg EXCEPT ![r] = [kind |-> kind, cl |-> c, st |-> st]]
    BY DEF Register, RegisterFails, Arm
  <2>2. reg \in [Regs -> [kind : Kinds, cl : Closures \cup {None}, st : States]] /\ st \in States
    BY DEF TypeOK, States
  <2> QED
    BY <2>1, <2>2
<1>3. /\ \A k \in DOMAIN queue : queue[k] \in Regs \ {r}
      /\ \A b \in Actors : cancels[b] # r
      /\ pc \in {"checked", "inCallback"} => current # r
  BY <1>1, BindingAssumption DEF QueueSound, CancelsSound, CurrentOwned, TypeOK, Owning
<1>4. Balance' /\ refs' \in [Closures -> Nat]
  <2>1. CASE Register(a, r, kind, c)
    <3>1. reg[r].st \notin Owning /\ reg'[r].st \in Owning /\ Retain(c)
      BY <1>1, <2>1 DEF Register, Arm, Owning, TypeOK
    <3> QED
      BY <1>1, <1>2, <3>1, OwnerGained
  <2>2. CASE RegisterFails(a, r, kind, c)
    <3>1. reg'[r].st \notin Owning /\ reg[r].st \notin Owning /\ refs' = refs
      BY <1>1, <2>2 DEF RegisterFails, Owning, TypeOK
    <3> QED
      BY <1>1, <1>2, <3>1, NoOwnerChanges DEF TypeOK
  <2> QED
    BY <2>1, <2>2
<1>5. CASE queue' = queue
  <2>1. TypeOK' /\ OwnersHaveClosures'
    BY <1>1, <1>2, <1>4, <1>5 DEF TypeOK, OwnersHaveClosures
  <2>2. QueueSound'
    BY <1>2, <1>3, <1>5 DEF QueueSound
  <2>3. CurrentOwned' /\ CancelsSound'
    BY <1>1, <1>2, <1>3, <1>5 DEF CurrentOwned, CancelsSound, Queued, TypeOK
  <2>4. InlineKept'
    BY <1>1, <1>2, <1>3 DEF InlineKept, CurrentOwned
  <2> QED
    BY <1>4, <2>1, <2>2, <2>3, <2>4
<1>6. CASE queue' # queue
  <2>1. queue' = Append(queue, r) /\ reg'[r].kind = "post" /\ reg'[r].st = "armed"
    BY <1>6 DEF Register, RegisterFails, Arm, TypeOK
  <2>2. /\ queue' \in Seq(Regs) /\ DOMAIN queue = 1..Len(queue) /\ Len(queue) \in Nat
        /\ DOMAIN queue' = 1..(Len(queue) + 1)
        /\ \A k \in 1..(Len(queue) + 1) : queue'[k] = IF k = Len(queue) + 1 THEN r ELSE queue[k]
    BY <2>1, AppendFacts DEF TypeOK
  <2>3. QueueSound'
    BY <1>2, <1>3, <2>1, <2>2 DEF QueueSound
  <2>4. \A s \in Regs \ {r} : Queued(s)' <=> Queued(s)
    BY <2>2 DEF Queued
  <2>5. TypeOK' /\ OwnersHaveClosures'
    BY <1>1, <1>2, <1>4, <2>2 DEF TypeOK, OwnersHaveClosures
  <2>6. CurrentOwned' /\ CancelsSound'
    BY <1>1, <1>2, <1>3, <2>4 DEF CurrentOwned, CancelsSound, TypeOK, Owning
  <2>7. InlineKept'
    BY <1>1, <1>2, <1>3 DEF InlineKept, CurrentOwned, TypeOK
  <2> QED
    BY <1>4, <2>3, <2>5, <2>6, <2>7
<1> QED
  BY <1>5, <1>6

(* A call in place is made with a closure that the binding or the running   *)
(* callback keeps; a binding is not dropped while such a call borrows it.   *)
LEMMA InlineCallsKeep ==
  ASSUME IInv, NEW a \in Actors, NEW c \in Closures,
         CallInline(a, c) \/ ReturnInline(a) \/ DropBinding(c)
  PROVE  IInv'
<1> USE BindingAssumption DEF IInv
<1>1. UNCHANGED <<reg, queue, pc, current, cancels>>
  BY DEF CallInline, ReturnInline, DropBinding
<1>2. QueueSound' /\ CurrentOwned' /\ CancelsSound' /\ OwnersHaveClosures'
  BY <1>1 DEF QueueSound, CurrentOwned, CancelsSound, OwnersHaveClosures, Queued
<1>3. CASE CallInline(a, c) \/ ReturnInline(a)
  <2>1. TypeOK' /\ UNCHANGED <<refs, bound>>
    BY <1>1, <1>3 DEF CallInline, ReturnInline, TypeOK
  <2>2. InlineKept'
    BY <1>1, <1>3, <2>1 DEF CallInline, ReturnInline, CanPass, InlineKept, TypeOK
  <2>3. Balance'
    BY <1>1, <2>1, NoOwnerChanges
  <2> QED
    BY <1>2, <2>1, <2>2, <2>3
<1>4. CASE DropBinding(c)
  <2>1. /\ \A d \in Closures : Owners(d)' = Owners(d)
        /\ \A d \in Closures \ {c} : refs'[d] = refs[d] /\ bound'[d] = bound[d]
        /\ bound[c] /\ ~bound'[c] /\ refs'[c] = refs[c] - 1 /\ inline' = inline
    BY <1>1, <1>4 DEF DropBinding, Release, Owners, TypeOK
  <2>2. /\ IsFiniteSet(Owners(c)) /\ Cardinality(Owners(c)) \in Nat
        /\ refs[c] = Cardinality(Owners(c)) + 1
    BY <2>1, FS_CardinalityType DEF Balance
  <2>3. refs[c] - 1 \in Nat /\ refs[c] - 1 = Cardinality(Owners(c))
    BY <2>2
  <2>4. Balance'
    BY <2>1, <2>2, <2>3 DEF Balance
  <2>5. TypeOK'
    BY <1>1, <1>4, <2>3 DEF DropBinding, Release, TypeOK
  <2>6. InlineKept'
    BY <1>1, <1>4, <2>1 DEF DropBinding, InlineKept, TypeOK
  <2> QED
    BY <1>2, <2>4, <2>5, <2>6
<1> QED
  BY <1>3, <1>4

(* The two steps of a cancel.                                               *)
LEMMA CancelsKeep ==
  ASSUME IInv, NEW a \in Actors, (\E r \in Regs : CancelEvery(a, r)) \/ PostFree(a)
  PROVE  IInv'
<1> USE BindingAssumption DEF IInv
<1>1. CASE \E r \in Regs : CancelEvery(a, r)
  <2>1. PICK r \in Regs : CancelEvery(a, r)
    BY <1>1
  <2>2. /\ UNCHANGED <<refs, bound, queue, pc, current, inline>>
        /\ reg[r].kind = "every" /\ reg[r].st = "armed" /\ cancels[a] = None
        /\ \A s \in Regs : reg'[s].kind = reg[s].kind /\ reg'[s].cl = reg[s].cl
        /\ \A s \in Regs \ {r} : reg'[s] = reg[s]
        /\ reg'[r].st = "cancelled" /\ cancels'[a] = r
        /\ \A b \in Actors \ {a} : cancels'[b] = cancels[b]
        /\ reg' \in [Regs -> [kind : Kinds, cl : Closures \cup {None}, st : States]]
        /\ cancels' \in [Actors -> Regs \cup {None}]
    BY <2>1 DEF CancelEvery, InUserCode, TypeOK, States
  <2>3. ~Queued(r) /\ \A b \in Actors : cancels[b] # r
    BY <2>2 DEF QueueSound, CancelsSound, Queued, TypeOK
  <2>4. Balance'
    <3>1. \A s \in Regs : reg[s].st \in Owning <=> reg'[s].st \in Owning
      BY <2>2 DEF Owning
    <3> QED
      BY <2>2, <3>1, NoOwnerChanges
  <2>5. TypeOK' /\ OwnersHaveClosures'
    BY <2>2 DEF TypeOK, OwnersHaveClosures, Owning
  <2>6. QueueSound'
    BY <2>2, <2>3 DEF QueueSound, Queued, TypeOK
  <2>7. CurrentOwned'
    BY <2>2 DEF CurrentOwned, Queued, Owning
  <2>8. CancelsSound'
    <3>1. \A b \in Actors \ {a} : cancels'[b] # r /\ cancels'[b] \in Regs \cup {None}
      BY <2>2, <2>3
    <3>2. \A b \in Actors \ {a} : cancels'[b] # None => reg'[cancels'[b]] = reg[cancels'[b]]
      BY <2>2, <3>1
    <3>3. \A s \in Regs : Queued(s)' <=> Queued(s)
      BY <2>2 DEF Queued
    <3> QED
      BY <2>2, <2>3, <3>1, <3>2, <3>3 DEF CancelsSound
  <2>9. InlineKept'
    BY <2>2 DEF InlineKept, CurrentOwned
  <2> QED
    BY <2>4, <2>5, <2>6, <2>7, <2>8, <2>9
<1>2. CASE PostFree(a)
  <2> DEFINE r == cancels[a]
  <2>1. /\ r \in Regs /\ reg[r].kind = "every" /\ reg[r].st = "cancelled" /\ ~Queued(r)
        /\ \A b \in Actors \ {a} : cancels[b] # r
    BY <1>2 DEF PostFree, CancelsSound, TypeOK
  <2>2. /\ UNCHANGED <<refs, bound, pc, current, inline>>
        /\ cancels' = [cancels EXCEPT ![a] = None]
        /\ \/ queue' = Append(queue, r) /\ UNCHANGED reg
           \/ reg' = [reg EXCEPT ![r].st = "leaked"] /\ UNCHANGED queue
    BY <1>2 DEF PostFree
  <2> HIDE DEF r
  <2>3. /\ cancels' \in [Actors -> Regs \cup {None}] /\ cancels'[a] = None
        /\ \A b \in Actors \ {a} : cancels'[b] = cancels[b]
    BY <2>2 DEF TypeOK
  <2>4. CASE queue' = Append(queue, r) /\ UNCHANGED reg
    <3>1. /\ queue' \in Seq(Regs) /\ DOMAIN queue = 1..Len(queue) /\ Len(queue) \in Nat
          /\ DOMAIN queue' = 1..(Len(queue) + 1)
          /\ \A k \in 1..(Len(queue) + 1) : queue'[k] = IF k = Len(queue) + 1 THEN r ELSE queue[k]
      BY <2>1, <2>4, AppendFacts DEF TypeOK
    <3>2. QueueSound'
      BY <2>1, <2>4, <3>1 DEF QueueSound, Queued
    <3>3. \A s \in Regs \ {r} : Queued(s)' <=> Queued(s)
      BY <3>1 DEF Queued
    <3>4. CurrentOwned' /\ CancelsSound'
      BY <2>1, <2>2, <2>3, <2>4, <3>3 DEF CurrentOwned, CancelsSound, TypeOK
    <3>5. TypeOK' /\ OwnersHaveClosures' /\ InlineKept'
      BY <2>2, <2>3, <2>4, <3>1 DEF TypeOK, OwnersHaveClosures, InlineKept
    <3>6. Balance'
      BY <2>2, <2>4, NoOwnerChanges
    <3> QED
      BY <3>2, <3>4, <3>5, <3>6
  <2>5. CASE reg' = [reg EXCEPT ![r].st = "leaked"] /\ UNCHANGED queue
    <3>1. /\ \A s \in Regs : reg'[s].kind = reg[s].kind /\ reg'[s].cl = reg[s].cl
          /\ \A s \in Regs \ {r} : reg'[s] = reg[s]
          /\ reg'[r].st = "leaked" /\ queue' = queue
          /\ reg' \in [Regs -> [kind : Kinds, cl : Closures \cup {None}, st : States]]
      BY <2>1, <2>5, StateMoves DEF States
    <3>2. \A s \in Regs : reg[s].st \in Owning <=> reg'[s].st \in Owning
      BY <2>1, <3>1 DEF Owning
    <3>3. Balance'
      BY <2>2, <3>1, <3>2, NoOwnerChanges
    <3>4. QueueSound'
      BY <2>1, <3>1 DEF QueueSound, Queued, TypeOK
    <3>5. CurrentOwned' /\ CancelsSound'
      <4>1. \A s \in Regs : Queued(s)' <=> Queued(s)
        BY <3>1 DEF Queued
      <4>2. CurrentOwned'
        BY <2>1, <2>2, <3>1, <3>2, <4>1 DEF CurrentOwned
      <4>3. \A b \in Actors : cancels'[b] # None => b # a /\ cancels'[b] \in Regs \ {r}
        BY <2>1, <2>3 DEF TypeOK
      <4>4. \A b \in Actors : cancels'[b] # None => reg'[cancels'[b]] = reg[cancels'[b]]
        BY <3>1, <4>3
      <4> QED
        BY <2>3, <4>1, <4>2, <4>3, <4>4 DEF CancelsSound
    <3>6. TypeOK' /\ OwnersHaveClosures'
      BY <2>2, <2>3, <3>1, <3>2 DEF TypeOK, OwnersHaveClosures
    <3>7. InlineKept'
      BY <2>2, <3>1 DEF InlineKept, CurrentOwned
    <3> QED
      BY <3>3, <3>4, <3>5, <3>6, <3>7
  <2> QED
    BY <2>2, <2>4, <2>5
<1> QED
  BY <1>1, <1>2

(* The loop thread takes the first task of its list.                        *)
LEMMA TasksKeep ==
  ASSUME IInv, BeginPosted \/ FreeTask
  PROVE  IInv'
<1> USE BindingAssumption DEF IInv
<1> DEFINE h == Head(queue)
<1>1. /\ h \in Regs /\ h = queue[1] /\ 1 \in DOMAIN queue
      /\ queue' = Tail(queue) /\ queue' \in Seq(Regs)
      /\ \A k \in DOMAIN queue' : k + 1 \in DOMAIN queue /\ k + 1 # 1 /\ queue'[k] = queue[k + 1]
      /\ \A k, l \in DOMAIN queue' : k \in Nat /\ l \in Nat
  <2>1. queue \in Seq(Regs) /\ queue # <<>> /\ queue' = Tail(queue)
    BY DEF BeginPosted, FreeTask, TypeOK
  <2> QED
    BY <2>1, TailFacts
<1> HIDE DEF h
<1>2. /\ \A k \in DOMAIN queue' : queue'[k] # h
      /\ \A k, l \in DOMAIN queue' : queue'[k] = queue'[l] => k = l
      /\ \A s \in Regs : Queued(s)' => Queued(s) /\ s # h
      /\ Queued(h)
  BY <1>1 DEF QueueSound, Queued
<1>3. /\ \A b \in Actors : cancels[b] # h
      /\ reg[h].st \in Owning /\ reg[h].cl \in Closures
  <2>1. \A b \in Actors : cancels[b] = h => h = None
    BY <1>2 DEF CancelsSound
  <2> QED
    BY <1>1, <2>1 DEF QueueSound, OwnersHaveClosures, Owning
<1>4. pc = "between" /\ UNCHANGED <<bound, cancels, inline>>
  BY DEF BeginPosted, FreeTask
<1>5. CASE BeginPosted
  <2>1. /\ pc' = "inCallback" /\ current' = h /\ UNCHANGED <<refs, reg>>
        /\ reg[h].kind = "post"
    BY <1>5 DEF BeginPosted, h
  <2>2. reg[h].st = "armed"
    BY <1>1, <2>1 DEF QueueSound
  <2>3. TypeOK' /\ OwnersHaveClosures' /\ Balance'
    BY <1>1, <1>4, <2>1, NoOwnerChanges DEF TypeOK, OwnersHaveClosures
  <2>4. QueueSound'
    BY <1>1, <1>2, <2>1 DEF QueueSound
  <2>5. CurrentOwned' /\ CancelsSound'
    BY <1>1, <1>2, <1>3, <1>4, <2>1, <2>2 DEF CurrentOwned, CancelsSound, TypeOK
  <2>6. InlineKept'
    BY <1>4, <2>1 DEF InlineKept
  <2> QED
    BY <2>3, <2>4, <2>5, <2>6
<1>6. CASE FreeTask
  <2>1. /\ pc' = pc /\ current' = current /\ Release(reg[h].cl)
        /\ reg' = [reg EXCEPT ![h].st = "done"]
    BY <1>6 DEF FreeTask, h
  <2>2. /\ \A s \in Regs \ {h} : reg'[s] = reg[s]
        /\ \A s \in Regs : reg'[s].kind = reg[s].kind /\ reg'[s].cl = reg[s].cl
        /\ reg'[h].st = "done"
        /\ reg' \in [Regs -> [kind : Kinds, cl : Closures \cup {None}, st : States]]
    BY <1>1, <2>1, StateMoves DEF States
  <2>3. Balance' /\ refs' \in [Closures -> Nat]
    <3>1. reg'[h].st \notin Owning
      BY <2>2 DEF Owning
    <3> QED
      BY <1>1, <1>3, <1>4, <2>1, <2>2, <3>1, OwnerLost
  <2>4. TypeOK' /\ OwnersHaveClosures'
    BY <1>1, <1>4, <2>1, <2>2, <2>3 DEF TypeOK, OwnersHaveClosures, Owning
  <2>5. QueueSound'
    BY <1>1, <1>2, <2>2 DEF QueueSound
  <2>6. CurrentOwned' /\ CancelsSound' /\ InlineKept'
    BY <1>2, <1>3, <1>4, <2>1, <2>2 DEF CurrentOwned, CancelsSound, InlineKept, TypeOK
  <2> QED
    BY <2>3, <2>4, <2>5, <2>6
<1> QED
  BY <1>5, <1>6

(* A callback begins and ends.                                              *)
LEMMA CallsKeep ==
  ASSUME IInv, (\E r \in Regs : CheckTimer(r)) \/ CallTimer \/ EndCallback
  PROVE  IInv'
<1> USE BindingAssumption DEF IInv
<1>1. CASE (\E r \in Regs : CheckTimer(r)) \/ CallTimer
  <2>1. /\ UNCHANGED <<refs, bound, reg, queue, cancels, inline>>
        /\ pc # "inCallback" /\ pc' \in {"checked", "inCallback"}
    BY <1>1 DEF CheckTimer, CallTimer
  <2>2. /\ current' \in Regs /\ reg[current'].st \in Owning
        /\ reg[current'].kind # "every" => reg[current'].st = "armed" /\ ~Queued(current')
    BY <1>1 DEF CheckTimer, CallTimer, CurrentOwned, QueueSound, Queued, Owning
  <2>3. TypeOK' /\ OwnersHaveClosures' /\ QueueSound' /\ CancelsSound'
    BY <2>1, <2>2 DEF TypeOK, OwnersHaveClosures, QueueSound, CancelsSound, Queued
  <2>4. CurrentOwned' /\ InlineKept'
    BY <2>1, <2>2 DEF CurrentOwned, InlineKept, Queued
  <2>5. Balance'
    BY <2>1, NoOwnerChanges
  <2> QED
    BY <2>3, <2>4, <2>5
<1>2. CASE EndCallback
  <2>1. /\ pc = "inCallback" /\ pc' = "between" /\ current' = None
        /\ UNCHANGED <<bound, queue, cancels, inline>> /\ inline[LoopThread] = None
        /\ current \in Regs /\ reg[current].st \in Owning /\ reg[current].cl \in Closures
    BY <1>2 DEF EndCallback, CurrentOwned, OwnersHaveClosures
  <2>2. CASE reg[current].kind = "every"
    <3>1. UNCHANGED <<reg, refs>>
      BY <1>2, <2>2 DEF EndCallback
    <3> QED
      BY <2>1, <3>1, NoOwnerChanges
      DEF TypeOK, OwnersHaveClosures, QueueSound, CurrentOwned, CancelsSound, InlineKept, Queued
  <2>3. CASE reg[current].kind # "every"
    <3>1. /\ reg' = [reg EXCEPT ![current].st = "done"] /\ Release(reg[current].cl)
          /\ ~Queued(current) /\ \A b \in Actors : cancels[b] # current
      BY <1>2, <2>1, <2>3 DEF EndCallback, CurrentOwned, CancelsSound, TypeOK
    <3>2. /\ \A s \in Regs \ {current} : reg'[s] = reg[s]
          /\ \A s \in Regs : reg'[s].kind = reg[s].kind /\ reg'[s].cl = reg[s].cl
          /\ reg'[current].st = "done"
          /\ reg' \in [Regs -> [kind : Kinds, cl : Closures \cup {None}, st : States]]
      BY <2>1, <3>1, StateMoves DEF States
    <3>3. Balance' /\ refs' \in [Closures -> Nat]
      <4>1. reg'[current].st \notin Owning
        BY <3>2 DEF Owning
      <4> QED
        BY <2>1, <3>1, <3>2, <4>1, OwnerLost
    <3>4. TypeOK' /\ OwnersHaveClosures'
      BY <2>1, <3>2, <3>3 DEF TypeOK, OwnersHaveClosures, Owning
    <3>5. QueueSound' /\ CurrentOwned' /\ CancelsSound'
      BY <2>1, <3>1, <3>2 DEF QueueSound, CurrentOwned, CancelsSound, Queued, TypeOK
    <3>6. InlineKept'
      BY <2>1 DEF InlineKept
    <3> QED
      BY <3>3, <3>4, <3>5, <3>6
  <2> QED
    BY <2>2, <2>3
<1> QED
  BY <1>1, <1>2

(* Entering the loop, leaving it, and freeing it with all that is queued.   *)
LEMMA LoopKeeps ==
  ASSUME IInv, Run \/ Leave \/ LoopFree
  PROVE  IInv'
<1> USE BindingAssumption DEF IInv
<1>1. /\ UNCHANGED <<refs, bound, reg, current, cancels, inline>>
      /\ pc # "inCallback" /\ pc' \in {"between", "stopped", "freed"}
      /\ queue' = queue \/ queue' = <<>>
  BY DEF Run, Leave, LoopFree
<1>2. queue' \in Seq(Regs) /\ DOMAIN queue' \subseteq DOMAIN queue /\ \A k \in DOMAIN queue' : queue'[k] = queue[k]
  <2>1. <<>> \in Seq(Regs) /\ DOMAIN <<>> = {}
    OBVIOUS
  <2>2. CASE queue' = <<>>
    BY <2>1, <2>2
  <2>3. CASE queue' = queue
    BY <2>3 DEF TypeOK
  <2> QED
    BY <1>1, <2>2, <2>3
<1>3. TypeOK' /\ OwnersHaveClosures' /\ QueueSound'
  BY <1>1, <1>2 DEF TypeOK, OwnersHaveClosures, QueueSound
<1>4. CurrentOwned' /\ CancelsSound' /\ InlineKept'
  BY <1>1, <1>2 DEF CurrentOwned, CancelsSound, InlineKept, Queued
<1>5. Balance'
  BY <1>1, NoOwnerChanges
<1> QED
  BY <1>3, <1>4, <1>5
-----------------------------------------------------------------------------
LEMMA Inductive == Spec => []IInv
<1>1. ASSUME IInv, [Next]_vars
      PROVE  IInv'
  <2>1. ASSUME NEW a \in Actors, NEW r \in Regs, NEW k \in Kinds, NEW c \in Closures,
               Register(a, r, k, c) \/ RegisterFails(a, r, k, c)
        PROVE  IInv'
    BY <1>1, <2>1, RegisterKeeps
  <2>2. ASSUME NEW a \in Actors, NEW c \in Closures, CallInline(a, c)
        PROVE  IInv'
    BY <1>1, <2>2, InlineCallsKeep
  <2>3. ASSUME NEW a \in Actors, ReturnInline(a)
        PROVE  IInv'
    <3>1. inline[a] \in Closures
      BY <1>1, <2>3 DEF ReturnInline, IInv, TypeOK
    <3> QED
      BY <1>1, <2>3, <3>1, InlineCallsKeep
  <2>4. ASSUME NEW c \in Closures, DropBinding(c)
        PROVE  IInv'
    BY <1>1, <2>4, InlineCallsKeep DEF Actors
  <2>5. ASSUME NEW a \in Actors, (\E r \in Regs : CancelEvery(a, r)) \/ PostFree(a)
        PROVE  IInv'
    BY <1>1, <2>5, CancelsKeep
  <2>6. CASE BeginPosted \/ FreeTask
    BY <1>1, <2>6, TasksKeep
  <2>7. CASE (\E r \in Regs : CheckTimer(r)) \/ CallTimer \/ EndCallback
    BY <1>1, <2>7, CallsKeep
  <2>8. CASE Run \/ Leave \/ LoopFree
    BY <1>1, <2>8, LoopKeeps
  <2>9. CASE UNCHANGED vars
    BY <1>1, <2>9, NoOwnerChanges
    DEF vars, IInv, TypeOK, OwnersHaveClosures, QueueSound, CurrentOwned, CancelsSound, InlineKept, Queued
  <2> QED
    BY <1>1, <2>1, <2>2, <2>3, <2>4, <2>5, <2>6, <2>7, <2>8, <2>9 DEF Next, Use, LoopStep
<1> QED
  BY <1>1, InitIInv, PTL DEF Spec

(* Counters stay natural numbers and every variable keeps its type,         *)
(* whatever threads, closures and registrations there are.                  *)
THEOREM TypeCorrect == Spec => []TypeOK
BY Inductive, PTL DEF IInv

(* What the loop calls, is calling or has queued has not been freed, and    *)
(* the counter of every environment is exactly its binding and the          *)
(* registrations that still have to release it.                             *)
THEOREM ReferencesBalance == Spec => []RefsBalance
<1>1. ASSUME IInv
      PROVE  RefsBalance
  <2> USE <1>1 DEF IInv
  <2>1. ASSUME NEW r \in Regs, reg[r].st \in Owning
        PROVE  refs[reg[r].cl] > 0
    <3>1. reg[r].cl \in Closures /\ r \in Owners(reg[r].cl)
      BY <2>1 DEF OwnersHaveClosures, Owners
    <3> QED
      BY <3>1, OwnedIsAlive
  <2>2. \A a \in Actors : inline[a] # None => refs[inline[a]] > 0
    <3> SUFFICES ASSUME NEW a \in Actors, inline[a] # None PROVE refs[inline[a]] > 0
      OBVIOUS
    <3>1. inline[a] \in Closures
      BY DEF TypeOK
    <3>2. CASE bound[inline[a]]
      BY <3>1, <3>2, OwnedIsAlive
    <3>3. CASE pc = "inCallback" /\ reg[current].cl = inline[a]
      BY <2>1, <3>3 DEF CurrentOwned
    <3> QED
      BY <3>2, <3>3 DEF InlineKept
  <2>3. \A k \in DOMAIN queue : queue[k] \in Regs /\ reg[queue[k]].st \in Owning
    BY DEF QueueSound, Owning, TypeOK
  <2>4. CallbackAlive
    BY <2>1, <2>2, <2>3 DEF CallbackAlive, CurrentOwned
  <2> QED
    BY <2>4 DEF RefsBalance, Balance
<1> QED
  BY <1>1, Inductive, PTL
=============================================================================
