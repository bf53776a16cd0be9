------------------------------ MODULE TcpProofs ------------------------------
(***************************************************************************)
(* Proofs about the sockets, for any operations, sockets, connects and      *)
(* accepts, any length of a transfer and any buffer, any number of addresses*)
(* and of peers.  TcpOps: nothing the loop may call points to an operation  *)
(* that is over, and every byte is accounted for and in order.              *)
(* TcpConnections, the instance C of MCTcp: a connect ends once and tidily, *)
(* and nothing is touched after its end.  MCTcp: the two side by side.      *)
(***************************************************************************)
EXTENDS MCTcp, FiniteSetTheorems, SequenceTheorems, TLAPS

OpType == [kind : {"read", "write"}, sock : Socks \cup {None}, off : 0..Len0,
           st : {"idle", "refused", "pending", "done"}, err : Results]

(* A call gives an operation its socket; a read that waits has no bytes.    *)
Sane(r) == /\ r.st = "idle" => r = Idle
           /\ r.st # "idle" => r.sock \in Socks
           /\ r.st = "pending" /\ r.kind = "read" => r.off = 0

(* What the loop may call, and what it is called for.                       *)
Links == \A o \in Ops : /\ ~Pending(o) => timer[o] \notin {"armed", "due"}
                        /\ \A s \in Socks : watch[s] = o <=> Pending(o) /\ op[o].sock = s

Registered == /\ op \in [Ops -> OpType] /\ \A o \in Ops : Sane(op[o])
              /\ watch \in [Socks -> Ops \cup {None}] /\ timer \in [Ops -> {"none", "armed", "due", "off"}]
              /\ edge \subseteq {s \in Socks : Watched(s)}
              /\ Links

Transferred == /\ inbox \in [Socks -> 0..Buffer] /\ room \in [Socks -> 0..Buffer] /\ hup \in [Socks -> BOOLEAN]
               /\ out \in [Socks -> Seq(Ops)] /\ taken \in [Socks -> Seq(Ops)]

Event == [sock : Socks, op : Ops, hup : BOOLEAN]
Looping == /\ str \in [Ops -> BOOLEAN] /\ batch \in Seq(Event)
           /\ pc \in {"wait", "events", "tasks", "timers"}

(* The bytes of one operation are next to each other, and those of a write  *)
(* that waits are the last.                                                 *)
Together(h) == \A i, k \in DOMAIN h : i < k /\ h[i] = h[k] => \A j \in i..k : h[j] = h[i]
EndsWith(h, o) == Len(h) > 0 /\ h[Len(h)] = o
Wire == ~Overlap =>
  \A s \in Socks :
    /\ Together(out[s])
    /\ \A o \in Ops : Pending(o) /\ op[o].kind = "write" /\ op[o].sock = s /\ op[o].off > 0 => EndsWith(out[s], o)

IInv == Registered /\ Transferred /\ Looping /\ BytesAccounted /\ Wire
-----------------------------------------------------------------------------
(* How many entries of a list are o is a number, 0 when none is.            *)
LEMMA CountType ==
  ASSUME NEW h \in Seq(Ops), NEW o
  PROVE  /\ IsFiniteSet({i \in DOMAIN h : h[i] = o}) /\ Count(h, o) \in Nat
         /\ Count(h, o) = 0 => \A i \in DOMAIN h : h[i] # o
<1> DEFINE S == {i \in DOMAIN h : h[i] = o}
<1>1. DOMAIN h = 1..Len(h) /\ Len(h) \in Nat
  OBVIOUS
<1>2. IsFiniteSet(1..Len(h)) /\ S \in SUBSET (1..Len(h))
  BY <1>1, FS_Interval
<1>3. IsFiniteSet(S)
  BY <1>2, FS_Subset
<1>4. Cardinality(S) \in Nat /\ (Cardinality(S) = 0 => S = {})
  BY <1>3, FS_CardinalityType, FS_EmptySet
<1> QED
  BY <1>3, <1>4 DEF Count

(* The bytes an operation adds.                                             *)
LEMMA BytesFacts ==
  ASSUME NEW o \in Ops, NEW n \in Nat
  PROVE  Bytes(o, n) \in Seq(Ops) /\ Len(Bytes(o, n)) = n /\ \A i \in DOMAIN Bytes(o, n) : Bytes(o, n)[i] = o
<1>1. Bytes(o, n) \in [1..n -> Ops] /\ \A i \in 1..n : Bytes(o, n)[i] = o
  BY DEF Bytes
<1>2. Bytes(o, n) \in Seq(Ops)
  BY <1>1
<1> QED
  BY <1>1, <1>2

LEMMA Longer ==
  ASSUME NEW h \in Seq(Ops), NEW o, NEW b \in Seq(Ops), \A i \in DOMAIN b : b[i] = o
  PROVE  /\ h \o b \in Seq(Ops) /\ Len(h \o b) = Len(h) + Len(b) /\ Len(h) \in Nat /\ Len(b) \in Nat
         /\ DOMAIN h = 1..Len(h) /\ DOMAIN (h \o b) = 1..(Len(h) + Len(b))
         /\ \A i \in 1..Len(h) : (h \o b)[i] = h[i]
         /\ \A i \in (Len(h) + 1)..(Len(h) + Len(b)) : (h \o b)[i] = o
<1>1. /\ h \o b \in Seq(Ops) /\ Len(h \o b) = Len(h) + Len(b) /\ Len(h) \in Nat /\ Len(b) \in Nat
      /\ DOMAIN h = 1..Len(h) /\ DOMAIN b = 1..Len(b) /\ DOMAIN (h \o b) = 1..(Len(h) + Len(b))
      /\ \A i \in 1..(Len(h) + Len(b)) : (h \o b)[i] = IF i <= Len(h) THEN h[i] ELSE b[i - Len(h)]
  OBVIOUS
<1>2. \A i \in 1..Len(h) : (h \o b)[i] = h[i]
  BY <1>1
<1>3. \A i \in (Len(h) + 1)..(Len(h) + Len(b)) : (h \o b)[i] = o
  <2> SUFFICES ASSUME NEW i \in (Len(h) + 1)..(Len(h) + Len(b)) PROVE (h \o b)[i] = o
    OBVIOUS
  <2>1. i \in 1..(Len(h) + Len(b)) /\ ~(i <= Len(h)) /\ i - Len(h) \in 1..Len(b)
    BY <1>1
  <2> QED
    BY <1>1, <2>1
<1> QED
  BY <1>1, <1>2, <1>3

(* They are counted.                                                        *)
LEMMA LongerCount ==
  ASSUME NEW h \in Seq(Ops), NEW o, NEW b \in Seq(Ops), \A i \in DOMAIN b : b[i] = o
  PROVE  /\ Count(h \o b, o) = Count(h, o) + Len(b)
         /\ \A p \in Ops \ {o} : Count(h \o b, p) = Count(h, p)
<1> DEFINE g == h \o b
           n == Len(b)
           A == {i \in DOMAIN h : h[i] = o}
           B == (Len(h) + 1)..(Len(h) + n)
<1>1. /\ Len(h) \in Nat /\ n \in Nat /\ DOMAIN h = 1..Len(h) /\ DOMAIN g = 1..(Len(h) + n)
      /\ \A i \in 1..Len(h) : g[i] = h[i]
      /\ \A i \in (Len(h) + 1)..(Len(h) + n) : g[i] = o
  BY Longer
<1> HIDE DEF g, n
<1>2. \A i \in DOMAIN g : i \in 1..Len(h) \/ i \in B
  BY <1>1
<1>3. \A i \in B : i \in DOMAIN g /\ i \notin DOMAIN h
  BY <1>1
<1>4. \A i \in DOMAIN h : i \in DOMAIN g
  BY <1>1
<1>5. {i \in DOMAIN g : g[i] = o} = A \cup B /\ A \cap B = {}
  BY <1>1, <1>2, <1>3, <1>4
<1>6. IsFiniteSet(A) /\ Cardinality(A) \in Nat
  BY CountType DEF Count
<1>7. IsFiniteSet(B) /\ Cardinality(B) = n
  BY <1>1, FS_Interval
<1>8. Cardinality(A \cup B) = Cardinality(A) + n
  <2>1. Cardinality(A \cup B) = Cardinality(A) + Cardinality(B) - Cardinality(A \cap B)
    BY <1>6, <1>7, FS_Union
  <2>2. Cardinality(A \cap B) = 0
    BY <1>5, FS_EmptySet
  <2> HIDE DEF A, B
  <2> QED
    BY <1>1, <1>6, <1>7, <2>1, <2>2
<1>9. ASSUME NEW p \in Ops \ {o} PROVE {i \in DOMAIN g : g[i] = p} = {i \in DOMAIN h : h[i] = p}
  BY <1>1, <1>2, <1>4
<1> QED
  BY <1>5, <1>7, <1>8, <1>9 DEF Count, g, n

(* They are next to the others of the same operation.                       *)
LEMMA LongerTogether ==
  ASSUME NEW h \in Seq(Ops), NEW o, NEW b \in Seq(Ops), \A i \in DOMAIN b : b[i] = o,
         Together(h), (\A i \in DOMAIN h : h[i] # o) \/ EndsWith(h, o)
  PROVE  Together(h \o b)
<1> DEFINE g == h \o b
           n == Len(b)
<1>1. /\ Len(h) \in Nat /\ n \in Nat /\ DOMAIN h = 1..Len(h) /\ DOMAIN g = 1..(Len(h) + n)
      /\ \A i \in 1..Len(h) : g[i] = h[i]
      /\ \A i \in (Len(h) + 1)..(Len(h) + n) : g[i] = o
  BY Longer
<1> HIDE DEF g, n
<1> SUFFICES ASSUME NEW i \in DOMAIN g, NEW k \in DOMAIN g, i < k, g[i] = g[k], NEW j \in i..k
             PROVE  g[j] = g[i]
  BY DEF Together, g
<1>2. i \in Nat /\ j \in Nat /\ k \in Nat
  BY <1>1
<1>3. CASE k <= Len(h)
  <2>1. i \in 1..Len(h) /\ j \in 1..Len(h) /\ k \in 1..Len(h)
    BY <1>1, <1>2, <1>3
  <2>2. h[i] = h[k] /\ g[j] = h[j] /\ g[i] = h[i] /\ i \in DOMAIN h /\ k \in DOMAIN h
    BY <1>1, <2>1
  <2> QED
    BY <2>2 DEF Together
<1>4. CASE i > Len(h)
  <2>1. i \in (Len(h) + 1)..(Len(h) + n) /\ j \in (Len(h) + 1)..(Len(h) + n)
    BY <1>1, <1>2, <1>4
  <2> QED
    BY <1>1, <2>1
<1>5. CASE i <= Len(h) /\ k > Len(h)
  <2>1. i \in 1..Len(h) /\ k \in (Len(h) + 1)..(Len(h) + n)
    BY <1>1, <1>2, <1>5
  <2>2. h[i] = o /\ g[i] = o /\ i \in DOMAIN h
    BY <1>1, <2>1
  <2>3. Len(h) \in DOMAIN h /\ h[Len(h)] = o
    BY <1>1, <2>2 DEF EndsWith
  <2>4. CASE j > Len(h)
    <3>1. j \in (Len(h) + 1)..(Len(h) + n)
      BY <1>1, <1>2, <2>4
    <3> QED
      BY <1>1, <2>2, <3>1
  <2>5. CASE j <= Len(h)
    <3>1. j \in i..Len(h) /\ j \in 1..Len(h)
      BY <1>1, <1>2, <2>5
    <3>2. h[j] = h[i]
      <4>1. CASE i = Len(h)
        <5>1. j = i
          BY <1>2, <3>1, <4>1
        <5> QED
          BY <5>1
      <4>2. CASE i < Len(h)
        BY <2>2, <2>3, <3>1, <4>2 DEF Together
      <4> QED
        BY <1>1, <1>2, <1>5, <4>1, <4>2
    <3> QED
      BY <1>1, <2>2, <3>1, <3>2
  <2> QED
    BY <1>1, <1>2, <2>4, <2>5
<1> QED
  BY <1>1, <1>2, <1>3, <1>4, <1>5
-----------------------------------------------------------------------------
(* What a step makes of one operation, its bytes included.                  *)
LEMMA OneOp ==
  ASSUME Registered, NEW o \in Ops, NEW r \in OpType, op' = [op EXCEPT ![o] = r], Sane(r)
  PROVE  /\ op' \in [Ops -> OpType] /\ op'[o] = r /\ \A p \in Ops \ {o} : op'[p] = op[p]
         /\ \A p \in Ops : Sane(op'[p])
<1>1. op \in [Ops -> OpType] /\ \A p \in Ops : Sane(op[p])
  BY DEF Registered
<1>2. op' \in [Ops -> OpType] /\ op'[o] = r /\ \A p \in Ops \ {o} : op'[p] = op[p]
  BY <1>1
<1> QED
  BY <1>1, <1>2

(* A write of o sends n bytes.                                              *)
LEMMA SendCounts ==
  ASSUME Registered, Transferred, BytesAccounted, NEW o \in Ops, NEW s \in Socks, NEW n \in Nat, Send(s, o, n),
         NEW r \in OpType, op' = [op EXCEPT ![o] = r],
         op[o].st = "idle" \/ (op[o].kind = "write" /\ op[o].sock = s),
         r.kind = "write", r.sock = s, r.off = op[o].off + n
  PROVE  BytesAccounted' /\ out' \in [Socks -> Seq(Ops)] /\ taken' = taken
<1>1. op[o].off \in Nat /\ (op[o].st = "idle" => op[o].off = 0)
      /\ op'[o] = r /\ \A p \in Ops \ {o} : op'[p] = op[p]
  BY DEF Registered, OpType, Sane, Idle
<1>2. out \in [Socks -> Seq(Ops)] /\ taken' = taken
  BY DEF Transferred, Send
<1> DEFINE b == Bytes(o, n)
<1>3. b \in Seq(Ops) /\ Len(b) = n /\ \A i \in DOMAIN b : b[i] = o
  BY BytesFacts
<1>4. out' = [out EXCEPT ![s] = out[s] \o b]
  BY DEF Send
<1> HIDE DEF b
<1>5. out[s] \o b \in Seq(Ops)
  BY <1>2, <1>3
<1>6. /\ out' \in [Socks -> Seq(Ops)] /\ out'[s] = out[s] \o b
      /\ \A t \in Socks \ {s} : out'[t] = out[t]
  BY <1>2, <1>4, <1>5
<1>7. Count(out'[s], o) = Count(out[s], o) + n /\ \A p \in Ops \ {o} : Count(out'[s], p) = Count(out[s], p)
  <2>1. out[s] \in Seq(Ops)
    BY <1>2
  <2>2. Count(out[s] \o b, o) = Count(out[s], o) + Len(b)
    BY <1>3, <2>1, LongerCount
  <2>3. \A p \in Ops \ {o} : Count(out[s] \o b, p) = Count(out[s], p)
    BY <1>3, <2>1, LongerCount
  <2> QED
    BY <1>3, <1>6, <2>2, <2>3
<1>8. \A p \in Ops, t \in Socks : Count(out[t], p) = Moved(p, "write", t) /\ Count(taken[t], p) = Moved(p, "read", t)
  BY DEF BytesAccounted
<1>9. ASSUME NEW p \in Ops, NEW t \in Socks
      PROVE  Count(out'[t], p) = (IF op'[p].kind = "write" /\ op'[p].sock = t THEN op'[p].off ELSE 0)
  <2>1. CASE p = o /\ t = s
    BY <1>1, <1>7, <1>8, <2>1 DEF Moved
  <2>2. CASE p = o /\ t # s
    BY <1>1, <1>6, <1>8, <2>2 DEF Moved
  <2>3. CASE p # o
    <3>1. Count(out'[t], p) = Count(out[t], p)
      BY <1>6, <1>7, <2>3
    <3> QED
      BY <1>1, <1>8, <2>3, <3>1 DEF Moved
  <2> QED
    BY <2>1, <2>2, <2>3
<1>10. ASSUME NEW p \in Ops, NEW t \in Socks
       PROVE  Count(taken[t], p) = (IF op'[p].kind = "read" /\ op'[p].sock = t THEN op'[p].off ELSE 0)
  BY <1>1, <1>8 DEF Moved
<1> QED
  BY <1>2, <1>6, <1>9, <1>10 DEF BytesAccounted, Moved, Count

(* A read of o takes n bytes, its first and its last.                       *)
LEMMA TakeCounts ==
  ASSUME Registered, Transferred, BytesAccounted, NEW o \in Ops, NEW s \in Socks, NEW n \in Nat, Take(s, o, n),
         NEW r \in OpType, op' = [op EXCEPT ![o] = r], op[o].off = 0,
         op[o].st = "idle" \/ (op[o].kind = "read" /\ op[o].sock = s),
         r.kind = "read", r.sock = s, r.off = n
  PROVE  BytesAccounted' /\ taken' \in [Socks -> Seq(Ops)] /\ out' = out
<1>1. op'[o] = r /\ \A p \in Ops \ {o} : op'[p] = op[p]
  BY DEF Registered
<1>2. taken \in [Socks -> Seq(Ops)] /\ out' = out
  BY DEF Transferred, Take
<1> DEFINE b == Bytes(o, n)
<1>3. b \in Seq(Ops) /\ Len(b) = n /\ \A i \in DOMAIN b : b[i] = o
  BY BytesFacts
<1>4. taken' = [taken EXCEPT ![s] = taken[s] \o b]
  BY DEF Take
<1> HIDE DEF b
<1>5. taken[s] \o b \in Seq(Ops)
  BY <1>2, <1>3
<1>6. /\ taken' \in [Socks -> Seq(Ops)] /\ taken'[s] = taken[s] \o b
      /\ \A t \in Socks \ {s} : taken'[t] = taken[t]
  BY <1>2, <1>4, <1>5
<1>7. Count(taken'[s], o) = Count(taken[s], o) + n /\ \A p \in Ops \ {o} : Count(taken'[s], p) = Count(taken[s], p)
  <2>1. taken[s] \in Seq(Ops)
    BY <1>2
  <2>2. Count(taken[s] \o b, o) = Count(taken[s], o) + Len(b)
    BY <1>3, <2>1, LongerCount
  <2>3. \A p \in Ops \ {o} : Count(taken[s] \o b, p) = Count(taken[s], p)
    BY <1>3, <2>1, LongerCount
  <2> QED
    BY <1>3, <1>6, <2>2, <2>3
<1>8. \A p \in Ops, t \in Socks : Count(out[t], p) = Moved(p, "write", t) /\ Count(taken[t], p) = Moved(p, "read", t)
  BY DEF BytesAccounted
<1>9. ASSUME NEW p \in Ops, NEW t \in Socks
      PROVE  Count(taken'[t], p) = (IF op'[p].kind = "read" /\ op'[p].sock = t THEN op'[p].off ELSE 0)
  <2>1. CASE p = o /\ t = s
    BY <1>1, <1>7, <1>8, <2>1, SMTT(30) DEF Moved
  <2>2. CASE p = o /\ t # s
    BY <1>1, <1>6, <1>8, <2>2, SMTT(30) DEF Moved
  <2>3. CASE p # o
    <3>1. Count(taken'[t], p) = Count(taken[t], p)
      BY <1>6, <1>7, <2>3
    <3> QED
      BY <1>1, <1>8, <2>3, <3>1 DEF Moved
  <2> QED
    BY <2>1, <2>2, <2>3
<1>10. ASSUME NEW p \in Ops, NEW t \in Socks
       PROVE  Count(out[t], p) = (IF op'[p].kind = "write" /\ op'[p].sock = t THEN op'[p].off ELSE 0)
  BY <1>1, <1>8 DEF Moved
<1> QED
  BY <1>2, <1>6, <1>9, <1>10 DEF BytesAccounted, Moved, Count

(* No bytes move.                                                           *)
LEMMA StillCounts ==
  ASSUME BytesAccounted, UNCHANGED <<out, taken>>,
         \A o \in Ops : \/ op'[o].off = op[o].off /\ op'[o].kind = op[o].kind /\ op'[o].sock = op[o].sock
                        \/ op'[o].off = 0 /\ op[o].off = 0
  PROVE  BytesAccounted'
<1>1. ASSUME NEW p \in Ops, NEW t \in Socks
      PROVE  /\ Count(out[t], p) = (IF op'[p].kind = "write" /\ op'[p].sock = t THEN op'[p].off ELSE 0)
             /\ Count(taken[t], p) = (IF op'[p].kind = "read" /\ op'[p].sock = t THEN op'[p].off ELSE 0)
  <2>1. Count(out[t], p) = Moved(p, "write", t) /\ Count(taken[t], p) = Moved(p, "read", t)
    BY DEF BytesAccounted
  <2> QED
    BY <2>1 DEF Moved
<1>2. out' = out /\ taken' = taken
  OBVIOUS
<1>3. ASSUME NEW p \in Ops, NEW t \in Socks
      PROVE  Count(out[t], p)' = Moved(p, "write", t)' /\ Count(taken[t], p)' = Moved(p, "read", t)'
  <2>1. Count(out[t], p)' = Count(out[t], p) /\ Count(taken[t], p)' = Count(taken[t], p)
    BY <1>2 DEF Count
  <2> QED
    BY <1>1, <2>1 DEF Moved
<1> QED
  BY <1>3 DEF BytesAccounted

(* The bytes sent stay in order: those of an operation that goes on are the *)
(* last, and one that begins has none.                                      *)
LEMMA SendWire ==
  ASSUME Registered, Transferred, BytesAccounted, Wire, NEW o \in Ops, NEW s \in Socks, NEW n \in Nat, Send(s, o, n),
         NEW r \in OpType, op' = [op EXCEPT ![o] = r],
         op[o].st = "idle" \/ (Pending(o) /\ op[o].kind = "write" /\ op[o].sock = s),
         r.kind = "write", r.sock = s, r.off = op[o].off + n,
         ~Overlap => \A p \in Ops \ {o} : Pending(p) /\ op[p].kind = "write" => op[p].sock # s
  PROVE  Wire'
<1> SUFFICES ASSUME ~Overlap PROVE Wire'
  BY DEF Wire
<1>1. op[o].off \in Nat /\ (op[o].st = "idle" => op[o].off = 0)
      /\ op'[o] = r /\ \A p \in Ops \ {o} : op'[p] = op[p]
  BY DEF Registered, OpType, Sane, Idle
<1>2. out \in [Socks -> Seq(Ops)]
  BY DEF Transferred
<1> DEFINE b == Bytes(o, n)
           h == out[s]
<1>3. b \in Seq(Ops) /\ Len(b) = n /\ \A i \in DOMAIN b : b[i] = o
  BY BytesFacts
<1>4. out' = [out EXCEPT ![s] = h \o b] /\ h \in Seq(Ops)
  BY <1>2 DEF Send
<1>5. out'[s] = h \o b /\ \A t \in Socks \ {s} : out'[t] = out[t]
  BY <1>2, <1>4
<1>6. Together(h) /\ (op[o].off > 0 => EndsWith(h, o))
  BY <1>1 DEF Wire
<1>7. op[o].off = 0 => \A i \in DOMAIN h : h[i] # o
  <2>1. op[o].off = 0 => Count(h, o) = 0
    BY DEF BytesAccounted, Moved
  <2> QED
    BY <1>4, <2>1, CountType
<1> HIDE DEF b, h
<1>8. (\A i \in DOMAIN h : h[i] # o) \/ EndsWith(h, o)
  BY <1>1, <1>6, <1>7
<1>9. Together(h \o b)
  BY <1>3, <1>4, <1>6, <1>8, LongerTogether
<1>10. op'[o].off > 0 => EndsWith(h \o b, o)
  <2>1. /\ Len(h \o b) = Len(h) + n /\ Len(h) \in Nat
        /\ \A i \in 1..Len(h) : (h \o b)[i] = h[i]
        /\ \A i \in (Len(h) + 1)..(Len(h) + n) : (h \o b)[i] = o
    <3>1. Len(b) = n
      BY <1>3
    <3>2. /\ Len(h \o b) = Len(h) + Len(b) /\ Len(h) \in Nat
          /\ \A i \in 1..Len(h) : (h \o b)[i] = h[i]
          /\ \A i \in (Len(h) + 1)..(Len(h) + Len(b)) : (h \o b)[i] = o
      <4>1. h \in Seq(Ops) /\ b \in Seq(Ops) /\ \A i \in DOMAIN b : b[i] = o
        BY <1>3, <1>4
      <4> QED
        BY <4>1, Longer
    <3> QED
      BY <3>1, <3>2
  <2>2. CASE n > 0
    <3>1. Len(h) + n \in (Len(h) + 1)..(Len(h) + n) /\ Len(h) + n > 0
      BY <2>1, <2>2
    <3> QED
      BY <2>1, <3>1 DEF EndsWith
  <2>3. CASE n = 0
    <3>1. Len(h \o b) = Len(h) /\ (Len(h) > 0 => Len(h) \in 1..Len(h))
      BY <2>1, <2>3
    <3>2. op'[o].off = op[o].off
      BY <1>1, <2>3
    <3> QED
      BY <1>6, <2>1, <3>1, <3>2 DEF EndsWith
  <2> QED
    BY <2>2, <2>3
<1>11. ASSUME NEW t \in Socks
       PROVE  /\ Together(out'[t])
              /\ \A p \in Ops : op'[p].st = "pending" /\ op'[p].kind = "write" /\ op'[p].sock = t /\ op'[p].off > 0
                                  => EndsWith(out'[t], p)
  <2>1. CASE t = s
    <3>1. \A p \in Ops \ {o} : ~(op[p].st = "pending" /\ op[p].kind = "write" /\ op[p].sock = s)
      BY DEF Pending
    <3> QED
      BY <1>1, <1>5, <1>9, <1>10, <2>1, <3>1
  <2>2. CASE t # s
    <3>1. Together(out[t]) /\ \A p \in Ops : op[p].st = "pending" /\ op[p].kind = "write" /\ op[p].sock = t /\ op[p].off > 0
                                               => EndsWith(out[t], p)
      BY DEF Wire, Pending
    <3> QED
      BY <1>1, <1>5, <2>2, <3>1
  <2> QED
    BY <2>1, <2>2
<1> QED
  BY <1>11 DEF Wire, Pending, Together, EndsWith

(* Nothing is sent.                                                         *)
LEMMA StillWire ==
  ASSUME Wire, out' = out,
         \A o \in Ops : op'[o].st = "pending" /\ op'[o].kind = "write" /\ op'[o].off > 0 =>
                          Pending(o) /\ op[o].kind = "write" /\ op[o].off > 0 /\ op[o].sock = op'[o].sock
  PROVE  Wire'
<1> SUFFICES ASSUME ~Overlap PROVE Wire'
  BY DEF Wire
<1>1. ASSUME NEW t \in Socks
      PROVE  /\ Together(out'[t])
             /\ \A p \in Ops : op'[p].st = "pending" /\ op'[p].kind = "write" /\ op'[p].sock = t /\ op'[p].off > 0
                                 => EndsWith(out'[t], p)
  BY DEF Wire
<1> QED
  BY <1>1 DEF Wire, Pending, Together, EndsWith
-----------------------------------------------------------------------------
(* The registrations of one operation and of its socket change together.    *)

(* A call that is over at once registers nothing.                           *)
LEMMA OverNow ==
  ASSUME Registered, NEW o \in Ops, NEW r \in OpType, op' = [op EXCEPT ![o] = r],
         op[o].st = "idle", r.st \in {"refused", "done"}, r.sock \in Socks, UNCHANGED <<watch, timer, edge>>
  PROVE  Registered'
<1>1. Sane(r)
  BY DEF Sane
<1>2. /\ op' \in [Ops -> OpType] /\ op'[o] = r /\ \A p \in Ops \ {o} : op'[p] = op[p]
      /\ \A p \in Ops : Sane(op'[p])
  BY <1>1, OneOp
<1>3. \A p \in Ops : Pending(p)' <=> Pending(p)
  BY <1>2 DEF Pending
<1>4. \A p \in Ops : Pending(p) => op'[p].sock = op[p].sock
  BY <1>2 DEF Pending
<1>5. Links'
  BY <1>3, <1>4 DEF Registered, Links
<1> QED
  BY <1>2, <1>5 DEF Registered, Watched, Sane

(* A call that waits watches its socket and may have a timer.               *)
LEMMA WaitsNow ==
  ASSUME Registered, NEW o \in Ops, NEW s \in Socks, NEW k \in {"read", "write"}, NEW n \in 0..Len0,
         op[o].st = "idle", k = "read" => n = 0, Wait(o, k, s, n)
  PROVE  Registered'
<1> DEFINE r == [kind |-> k, sock |-> s, off |-> n, st |-> "pending", err |-> "OK"]
<1>1. /\ watch[s] = None /\ op' = [op EXCEPT ![o] = r] /\ watch' = [watch EXCEPT ![s] = o]
      /\ \E t \in {"none", "armed"} : timer' = [timer EXCEPT ![o] = t]
      /\ edge' \subseteq edge \cup {s}
  BY DEF Wait, Watched, Became
<1>2. r \in OpType /\ Sane(r) /\ r.st = "pending" /\ r.sock = s
  BY DEF OpType, Results, Sane
<1> HIDE DEF r
<1>3. /\ op' \in [Ops -> OpType] /\ op'[o] = r /\ \A p \in Ops \ {o} : op'[p] = op[p]
      /\ \A p \in Ops : Sane(op'[p])
  BY <1>1, <1>2, OneOp
<1>4. /\ watch' \in [Socks -> Ops \cup {None}] /\ watch'[s] = o /\ \A t \in Socks \ {s} : watch'[t] = watch[t]
      /\ timer' \in [Ops -> {"none", "armed", "due", "off"}] /\ \A p \in Ops \ {o} : timer'[p] = timer[p]
  BY <1>1 DEF Registered
<1>5. edge' \subseteq {t \in Socks : watch'[t] # None}
  BY <1>1, <1>4, TcpAssumption DEF Registered, Watched
<1>6. ASSUME NEW p \in Ops
      PROVE  /\ op'[p].st # "pending" => timer'[p] \notin {"armed", "due"}
             /\ \A t \in Socks : watch'[t] = p <=> op'[p].st = "pending" /\ op'[p].sock = t
  <2>1. /\ op[p].st # "pending" => timer[p] \notin {"armed", "due"}
        /\ \A t \in Socks : watch[t] = p <=> op[p].st = "pending" /\ op[p].sock = t
    BY DEF Registered, Links, Pending
  <2>2. CASE p = o
    BY <1>2, <1>3, <1>4, <2>1, <2>2
  <2>3. CASE p # o
    BY <1>1, <1>3, <1>4, <2>1, <2>3, TcpAssumption
  <2> QED
    BY <2>2, <2>3
<1>7. Links'
  BY <1>6 DEF Links, Pending
<1> QED
  BY <1>3, <1>4, <1>5, <1>7 DEF Registered, Watched, Sane

(* An operation that is finished has neither watcher nor timer.             *)
LEMMA EndsNow ==
  ASSUME Registered, NEW o \in Ops, Pending(o), NEW n \in 0..Len0, NEW e \in Results, Finish(o, n, e)
  PROVE  /\ Registered'
         /\ \E r \in OpType : /\ op' = [op EXCEPT ![o] = r] /\ r.st = "done" /\ r.off = n
                              /\ r.kind = op[o].kind /\ r.sock = op[o].sock
         /\ op'[o].off = n /\ op'[o].st = "done" /\ op'[o].kind = op[o].kind /\ op'[o].sock = op[o].sock
         /\ \A p \in Ops \ {o} : op'[p] = op[p]
<1> DEFINE s == op[o].sock
           r == [kind |-> op[o].kind, sock |-> s, off |-> n, st |-> "done", err |-> e]
<1>1. op[o] \in OpType /\ Sane(op[o])
  BY DEF Registered
<1>2. s \in Socks /\ watch[s] = o
  BY <1>1 DEF Pending, Sane, Registered, Links
<1>3. /\ op' = [op EXCEPT ![o] = r] /\ watch' = [watch EXCEPT ![s] = None] /\ edge' = edge \ {s}
      /\ timer' = [timer EXCEPT ![o] = IF timer[o] = "none" THEN "none" ELSE "off"]
  BY DEF Finish, Became, Registered
<1>4. r \in OpType /\ Sane(r) /\ r.st = "done" /\ r.off = n /\ r.kind = op[o].kind /\ r.sock = op[o].sock
  BY <1>1, <1>2 DEF OpType, Sane
<1> HIDE DEF r, s
<1>5. /\ op' \in [Ops -> OpType] /\ op'[o] = r /\ \A p \in Ops \ {o} : op'[p] = op[p]
      /\ \A p \in Ops : Sane(op'[p])
  BY <1>3, <1>4, OneOp
<1>6. /\ watch' \in [Socks -> Ops \cup {None}] /\ watch'[s] = None /\ \A t \in Socks \ {s} : watch'[t] = watch[t]
      /\ timer' \in [Ops -> {"none", "armed", "due", "off"}] /\ timer'[o] \in {"none", "off"}
      /\ \A p \in Ops \ {o} : timer'[p] = timer[p]
  BY <1>2, <1>3 DEF Registered
<1>7. edge' \subseteq {t \in Socks : watch'[t] # None}
  BY <1>3, <1>6 DEF Registered, Watched
<1>8. ASSUME NEW p \in Ops
      PROVE  /\ op'[p].st # "pending" => timer'[p] \notin {"armed", "due"}
             /\ \A t \in Socks : watch'[t] = p <=> op'[p].st = "pending" /\ op'[p].sock = t
  <2>1. /\ op[p].st # "pending" => timer[p] \notin {"armed", "due"}
        /\ \A t \in Socks : watch[t] = p <=> op[p].st = "pending" /\ op[p].sock = t
    BY DEF Registered, Links, Pending
  <2>2. CASE p = o
    <3>1. \A t \in Socks : watch'[t] # o
      BY <1>2, <1>6, <2>1, <2>2, TcpAssumption DEF s
    <3> QED
      BY <1>4, <1>5, <1>6, <2>2, <3>1
  <2>3. CASE p # o
    BY <1>2, <1>5, <1>6, <2>1, <2>3, TcpAssumption
  <2> QED
    BY <2>2, <2>3
<1>9. Links'
  BY <1>8 DEF Links, Pending
<1>10. Registered'
  BY <1>5, <1>6, <1>7, <1>9 DEF Registered, Watched, Sane
<1> QED
  BY <1>3, <1>4, <1>5, <1>10

(* A write that waits has sent some more.                                   *)
LEMMA MoreNow ==
  ASSUME Registered, NEW o \in Ops, Pending(o), op[o].kind = "write", NEW n \in 0..Len0,
         Became(o, "write", op[o].sock, n, "pending", "OK"), UNCHANGED <<watch, timer, edge>>
  PROVE  /\ Registered'
         /\ \E r \in OpType : op' = [op EXCEPT ![o] = r] /\ r.off = n /\ r.kind = "write" /\ r.sock = op[o].sock
<1> DEFINE r == [kind |-> "write", sock |-> op[o].sock, off |-> n, st |-> "pending", err |-> "OK"]
<1>1. op[o] \in OpType /\ Sane(op[o])
  BY DEF Registered
<1>2. /\ op' = [op EXCEPT ![o] = r] /\ r \in OpType /\ Sane(r)
      /\ r.st = "pending" /\ r.off = n /\ r.kind = "write" /\ r.sock = op[o].sock
  BY <1>1 DEF Became, OpType, Results, Sane, Pending
<1> HIDE DEF r
<1>3. /\ op' \in [Ops -> OpType] /\ op'[o] = r /\ \A p \in Ops \ {o} : op'[p] = op[p]
      /\ \A p \in Ops : Sane(op'[p])
  BY <1>2, OneOp
<1>4. \A p \in Ops : (Pending(p)' <=> Pending(p)) /\ op'[p].sock = op[p].sock
  BY <1>2, <1>3 DEF Pending
<1>5. Links'
  BY <1>4 DEF Registered, Links
<1>6. Registered'
  BY <1>3, <1>5 DEF Registered, Watched, Sane
<1> QED
  BY <1>2, <1>6

(* No operation changes.                                                    *)
LEMMA SameOps ==
  ASSUME Registered, UNCHANGED <<op, watch>>,
         timer' \in [Ops -> {"none", "armed", "due", "off"}], edge' \subseteq {s \in Socks : Watched(s)},
         \A o \in Ops : timer'[o] \in {"armed", "due"} => timer[o] \in {"armed", "due"}
  PROVE  Registered'
<1>1. Links'
  BY DEF Registered, Links, Pending
<1> QED
  BY <1>1 DEF Registered, Watched, Sane
-----------------------------------------------------------------------------
LEMMA LeastFacts ==
  ASSUME NEW a \in Nat, NEW b \in Nat
  PROVE  Least(a, b) \in Nat /\ Least(a, b) <= a /\ Least(a, b) <= b
BY DEF Least

(* Bytes that move are bytes that are there.                                *)
LEMMA TakeTransferred ==
  ASSUME Transferred, NEW s \in Socks, NEW o, NEW n \in Nat, n <= inbox[s], Take(s, o, n),
         taken' \in [Socks -> Seq(Ops)]
  PROVE  Transferred'
<1>1. inbox' = [inbox EXCEPT ![s] = inbox[s] - n] /\ UNCHANGED <<room, hup, out>>
  BY DEF Take
<1>2. inbox \in [Socks -> 0..Buffer] /\ inbox[s] - n \in 0..Buffer
  BY TcpAssumption DEF Transferred
<1>3. inbox' \in [Socks -> 0..Buffer]
  BY <1>1, <1>2
<1> QED
  BY <1>1, <1>3 DEF Transferred

LEMMA SendTransferred ==
  ASSUME Transferred, NEW s \in Socks, NEW o, NEW n \in Nat, n <= room[s], Send(s, o, n),
         out' \in [Socks -> Seq(Ops)]
  PROVE  Transferred'
<1>1. room' = [room EXCEPT ![s] = room[s] - n] /\ UNCHANGED <<inbox, hup, taken>>
  BY DEF Send
<1>2. room \in [Socks -> 0..Buffer] /\ room[s] - n \in 0..Buffer
  BY TcpAssumption DEF Transferred
<1>3. room' \in [Socks -> 0..Buffer]
  BY <1>1, <1>2
<1> QED
  BY <1>1, <1>3 DEF Transferred

(* The peer.                                                                *)
LEMMA PeerInv ==
  ASSUME IInv, NEW s \in Socks, PeerSends(s) \/ PeerReads(s) \/ PeerCloses(s)
  PROVE  IInv'
<1>1. /\ UNCHANGED <<op, str, watch, timer, batch, pc, out, taken>> /\ Ready(s)
      /\ inbox' \in [Socks -> 0..Buffer] /\ room' \in [Socks -> 0..Buffer] /\ hup' \in [Socks -> BOOLEAN]
  <2>1. inbox \in [Socks -> 0..Buffer] /\ room \in [Socks -> 0..Buffer] /\ hup \in [Socks -> BOOLEAN]
        /\ taken[s] \in Seq(Ops)
    BY DEF IInv, Transferred
  <2>2. CASE PeerSends(s)
    <3>1. inbox[s] + 1 \in 0..Buffer
      BY <2>1, <2>2, TcpAssumption DEF PeerSends
    <3>2. inbox' = [inbox EXCEPT ![s] = inbox[s] + 1] /\ UNCHANGED <<op, str, watch, timer, room, hup, batch, pc, out, taken>>
          /\ Ready(s)
      BY <2>2 DEF PeerSends
    <3> QED
      BY <2>1, <3>1, <3>2
  <2>3. CASE PeerReads(s)
    <3>1. room[s] + 1 \in 0..Buffer
      BY <2>1, <2>3, TcpAssumption DEF PeerReads
    <3>2. room' = [room EXCEPT ![s] = room[s] + 1] /\ UNCHANGED <<op, str, watch, timer, inbox, hup, batch, pc, out, taken>>
          /\ Ready(s)
      BY <2>3 DEF PeerReads
    <3> QED
      BY <2>1, <3>1, <3>2
  <2>4. CASE PeerCloses(s)
    BY <2>1, <2>4 DEF PeerCloses
  <2> QED
    BY <2>2, <2>3, <2>4
<1>2. edge' \subseteq {t \in Socks : Watched(t)}
  BY <1>1 DEF Ready, IInv, Registered
<1>3. Registered'
  BY <1>1, <1>2, SameOps DEF IInv, Registered
<1>4. Transferred' /\ Looping'
  BY <1>1 DEF IInv, Transferred, Looping
<1>5. BytesAccounted' /\ Wire'
  BY <1>1, StillCounts, StillWire DEF IInv, Pending
<1> QED
  BY <1>3, <1>4, <1>5 DEF IInv

LEMMA ReadInv ==
  ASSUME IInv, NEW o \in Ops, NEW s \in Socks, ReadAsync(o, s)
  PROVE  IInv'
<1>1. Registered /\ Transferred /\ Looping /\ BytesAccounted /\ Wire /\ op[o] \in OpType /\ Sane(op[o])
      /\ inbox[s] \in Nat /\ Len0 \in Nat
  BY TcpAssumption DEF IInv, Registered, Transferred
<1>2. op[o].st = "idle" /\ op[o].off = 0 /\ UNCHANGED <<str, batch, pc>>
  BY <1>1 DEF ReadAsync, Sane, Idle
<1>3. Looping'
  BY <1>1, <1>2 DEF Looping
<1>4. CASE Readable(s)
  <2> DEFINE n == Least(Len0, inbox[s])
             e == IF n > 0 THEN "OK" ELSE "IO"
             r == [kind |-> "read", sock |-> s, off |-> n, st |-> "done", err |-> e]
  <2>1. n \in Nat /\ n <= Len0 /\ n <= inbox[s]
    BY <1>1, LeastFacts
  <2>2. Take(s, o, n) /\ UNCHANGED <<watch, timer, edge>> /\ op' = [op EXCEPT ![o] = r]
    BY <1>4 DEF ReadAsync, Became
  <2> HIDE DEF n
  <2>3. r \in OpType /\ r.kind = "read" /\ r.sock = s /\ r.off = n /\ r.st = "done"
    BY <1>1, <2>1 DEF OpType, Results
  <2> HIDE DEF r
  <2>4. Registered'
    BY <1>1, <1>2, <2>2, <2>3, OverNow
  <2>5. BytesAccounted' /\ taken' \in [Socks -> Seq(Ops)] /\ out' = out
    BY <1>1, <1>2, <2>1, <2>2, <2>3, TakeCounts
  <2>6. Transferred'
    BY <1>1, <2>1, <2>2, <2>5, TakeTransferred
  <2>7. op'[o] = r /\ \A p \in Ops \ {o} : op'[p] = op[p]
    BY <1>1, <2>2 DEF Registered
  <2>8. Wire'
    BY <1>1, <2>3, <2>5, <2>7, StillWire DEF Pending
  <2> QED
    BY <1>3, <2>4, <2>5, <2>6, <2>8 DEF IInv
<1>5. CASE ~Readable(s)
  <2>1. UNCHANGED <<inbox, room, hup, out, taken>> /\ (Wait(o, "read", s, 0) \/ Refuse(o, "read", s, 0))
    BY <1>5 DEF ReadAsync, NoBytes
  <2>2. 0 \in 0..Len0
    BY <1>1
  <2>3. Registered'
    <3>1. CASE Wait(o, "read", s, 0)
      BY <1>1, <1>2, <2>2, <3>1, WaitsNow
    <3>2. CASE Refuse(o, "read", s, 0)
      <4> DEFINE r == [kind |-> "read", sock |-> s, off |-> 0, st |-> "refused", err |-> "IO"]
      <4>1. UNCHANGED <<watch, timer, edge>> /\ op' = [op EXCEPT ![o] = r]
        BY <3>2 DEF Refuse, Became
      <4>2. r \in OpType /\ r.st = "refused" /\ r.sock = s
        BY <2>2 DEF OpType, Results
      <4> HIDE DEF r
      <4> QED
        BY <1>1, <1>2, <4>1, <4>2, OverNow
    <3> QED
      BY <2>1, <3>1, <3>2
  <2>4. /\ op'[o].kind = "read" /\ op'[o].off = 0
        /\ \A p \in Ops \ {o} : op'[p] = op[p]
    BY <1>1, <2>1 DEF Wait, Refuse, Became, Registered
  <2>5. Transferred'
    BY <1>1, <2>1 DEF Transferred
  <2>6. \A p \in Ops : \/ op'[p].off = op[p].off /\ op'[p].kind = op[p].kind /\ op'[p].sock = op[p].sock
                       \/ op'[p].off = 0 /\ op[p].off = 0
    BY <1>2, <2>4
  <2>7. BytesAccounted'
    BY <1>1, <2>1, <2>6, StillCounts
  <2>8. Wire'
    BY <1>1, <2>1, <2>4, StillWire DEF Pending
  <2> QED
    BY <1>3, <2>3, <2>5, <2>7, <2>8 DEF IInv
<1> QED
  BY <1>4, <1>5

(* A write moves no more bytes than there is room for.                      *)
LEMMA SentInv ==
  ASSUME IInv, NEW o \in Ops, NEW s \in Socks, NEW n \in Nat, n <= room[s], Send(s, o, n),
         NEW r \in OpType, op' = [op EXCEPT ![o] = r],
         op[o].st = "idle" \/ (Pending(o) /\ op[o].kind = "write" /\ op[o].sock = s),
         r.kind = "write", r.sock = s, r.off = op[o].off + n,
         ~Overlap => \A p \in Ops \ {o} : Pending(p) /\ op[p].kind = "write" => op[p].sock # s
  PROVE  BytesAccounted' /\ Transferred' /\ Wire'
<1>1. Registered /\ Transferred /\ BytesAccounted /\ Wire
  BY DEF IInv
<1>2. BytesAccounted' /\ out' \in [Socks -> Seq(Ops)] /\ taken' = taken
  BY <1>1, SendCounts
<1>3. Transferred'
  BY <1>1, <1>2, SendTransferred
<1>4. Wire'
  BY <1>1, SendWire
<1> QED
  BY <1>2, <1>3, <1>4

LEMMA WriteInv ==
  ASSUME IInv, NEW o \in Ops, NEW s \in Socks, WriteAsync(o, s)
  PROVE  IInv'
<1>1. Registered /\ Transferred /\ Looping /\ op[o] \in OpType /\ Sane(op[o])
      /\ room[s] \in Nat /\ Len0 \in Nat
  BY TcpAssumption DEF IInv, Registered, Transferred
<1>2. op[o].st = "idle" /\ op[o].off = 0 /\ UNCHANGED <<str, batch, pc>>
  BY <1>1 DEF WriteAsync, Sane, Idle
<1>3. Looping'
  BY <1>1, <1>2 DEF Looping
<1>4. ~Overlap => \A p \in Ops \ {o} : Pending(p) /\ op[p].kind = "write" => op[p].sock # s
  BY DEF WriteAsync
<1>5. Sendable(s, o) \in Nat /\ Sendable(s, o) <= Len0 /\ Sendable(s, o) <= room[s]
  <2>1. Len0 - op[o].off = Len0
    BY <1>1, <1>2
  <2> QED
    BY <1>1, <2>1, LeastFacts DEF Sendable
<1>6. \E n \in 0..Sendable(s, o), st \in {"done", "refused", "pending"}, e \in Results :
        /\ Send(s, o, n) /\ Became(o, "write", s, n, st, e)
        /\ \/ st \in {"done", "refused"} /\ UNCHANGED <<watch, timer, edge>>
           \/ Wait(o, "write", s, n)
  <2>1. CASE \E n \in 0..Sendable(s, o) : Send(s, o, n) /\ Became(o, "write", s, n, "done", "IO")
                                          /\ UNCHANGED <<watch, timer, edge>>
    BY <2>1 DEF Results
  <2>2. CASE /\ Send(s, o, Sendable(s, o))
             /\ \/ Became(o, "write", s, Sendable(s, o), "done", "OK") /\ UNCHANGED <<watch, timer, edge>>
                \/ Wait(o, "write", s, Sendable(s, o))
                \/ Refuse(o, "write", s, Sendable(s, o))
    <3>1. Sendable(s, o) \in 0..Sendable(s, o)
      BY <1>5
    <3>2. /\ Refuse(o, "write", s, Sendable(s, o))
             => Became(o, "write", s, Sendable(s, o), "refused", "IO") /\ UNCHANGED <<watch, timer, edge>>
          /\ Wait(o, "write", s, Sendable(s, o)) => Became(o, "write", s, Sendable(s, o), "pending", "OK")
      BY DEF Refuse, Wait
    <3> HIDE DEF Sendable
    <3>3. {"OK", "IO"} \subseteq Results
      BY DEF Results
    <3> QED
      BY <2>2, <3>1, <3>2, <3>3
  <2> QED
    BY <2>1, <2>2 DEF WriteAsync
<1>7. PICK n \in 0..Sendable(s, o), st \in {"done", "refused", "pending"}, e \in Results :
        /\ Send(s, o, n) /\ Became(o, "write", s, n, st, e)
        /\ \/ st \in {"done", "refused"} /\ UNCHANGED <<watch, timer, edge>>
           \/ Wait(o, "write", s, n)
  BY <1>6
<1> DEFINE r == [kind |-> "write", sock |-> s, off |-> n, st |-> st, err |-> e]
<1>8. n \in Nat /\ n <= room[s] /\ n \in 0..Len0
  BY <1>1, <1>5, <1>7
<1>9. /\ op' = [op EXCEPT ![o] = r] /\ r \in OpType
      /\ r.kind = "write" /\ r.sock = s /\ r.off = n /\ r.st = st
  BY <1>7, <1>8 DEF Became, OpType
<1> HIDE DEF r
<1>10. Registered'
  <2>1. CASE st \in {"done", "refused"} /\ UNCHANGED <<watch, timer, edge>>
    BY <1>1, <1>2, <1>9, <2>1, OverNow
  <2>2. CASE Wait(o, "write", s, n)
    BY <1>1, <1>2, <1>8, <2>2, WaitsNow
  <2> QED
    BY <1>7, <2>1, <2>2
<1>11. r.off = op[o].off + n
  BY <1>2, <1>8, <1>9
<1>12. BytesAccounted' /\ Transferred' /\ Wire'
  BY <1>2, <1>4, <1>7, <1>8, <1>9, <1>11, SentInv
<1> QED
  BY <1>3, <1>10, <1>12 DEF IInv
-----------------------------------------------------------------------------
(* The loop.                                                                *)
LEMMA Watching ==
  ASSUME Registered, NEW o \in Ops, Pending(o)
  PROVE  /\ op[o] \in OpType /\ Sane(op[o]) /\ op[o].sock \in Socks /\ op[o].off \in 0..Len0
         /\ watch[op[o].sock] = o
         /\ \A p \in Ops \ {o} : Pending(p) => op[p].sock # op[o].sock
<1>1. op[o] \in OpType /\ Sane(op[o])
  BY DEF Registered
<1>2. op[o].sock \in Socks /\ op[o].off \in 0..Len0
  BY <1>1 DEF OpType, Sane, Pending
<1> QED
  BY <1>1, <1>2 DEF Registered, Links

(* An operation ends with the bytes it has.                                 *)
LEMMA EndInv ==
  ASSUME IInv, NEW o \in Ops, Pending(o), NEW e \in Results, Finish(o, op[o].off, e), NoBytes, Looping'
  PROVE  IInv'
<1>1. Registered /\ Transferred /\ BytesAccounted /\ Wire /\ op[o].off \in 0..Len0
  BY Watching DEF IInv
<1>2. Registered'
  BY <1>1, EndsNow
<1>3. op'[o].off = op[o].off /\ op'[o].st = "done" /\ op'[o].kind = op[o].kind /\ op'[o].sock = op[o].sock
  BY <1>1, EndsNow
<1>4. \A p \in Ops \ {o} : op'[p] = op[p]
  BY <1>1, EndsNow
<1>5. Transferred' /\ UNCHANGED <<out, taken>>
  BY <1>1 DEF NoBytes, Transferred
<1>6. BytesAccounted'
  BY <1>1, <1>3, <1>4, <1>5, StillCounts
<1>7. Wire'
  BY <1>1, <1>3, <1>4, <1>5, StillWire DEF Pending
<1> QED
  BY <1>2, <1>5, <1>6, <1>7 DEF IInv

(* No operation and no byte is touched.                                     *)
LEMMA QuietInv ==
  ASSUME IInv, UNCHANGED op, NoBytes, Registered', Looping'
  PROVE  IInv'
<1>1. Transferred' /\ BytesAccounted' /\ Wire'
  BY StillCounts, StillWire DEF IInv, NoBytes, Transferred, Pending
<1> QED
  BY <1>1 DEF IInv

(* The socket is ready for a read that waits.                               *)
LEMMA ReadAgainInv ==
  ASSUME IInv, NEW o \in Ops, Pending(o), op[o].kind = "read", ReadAgain(o), Looping'
  PROVE  IInv'
<1> DEFINE s == op[o].sock
           n == Least(Len0, inbox[s])
           e == IF n > 0 THEN "OK" ELSE "IO"
<1>1. Registered /\ Transferred /\ BytesAccounted /\ Wire /\ s \in Socks /\ op[o].off = 0
  BY Watching DEF IInv, Sane, Pending
<1>2. n \in Nat /\ n <= inbox[s] /\ n \in 0..Len0 /\ e \in Results
  <2>1. Len0 \in Nat /\ inbox[s] \in Nat
    BY <1>1, TcpAssumption DEF Transferred
  <2>2. n \in Nat /\ n <= Len0 /\ n <= inbox[s]
    BY <2>1, LeastFacts
  <2> QED
    BY <2>1, <2>2 DEF Results
<1>3. CASE Readable(s)
  <2>1. Take(s, o, n) /\ Finish(o, n, e)
    BY <1>3 DEF ReadAgain
  <2> HIDE DEF n, e
  <2>2. Registered'
    BY <1>1, <1>2, <2>1, EndsNow
  <2>3. PICK r \in OpType : /\ op' = [op EXCEPT ![o] = r] /\ r.st = "done" /\ r.off = n
                            /\ r.kind = op[o].kind /\ r.sock = op[o].sock
    BY <1>1, <1>2, <2>1, EndsNow
  <2>4. BytesAccounted' /\ taken' \in [Socks -> Seq(Ops)] /\ out' = out
    BY <1>1, <1>2, <2>1, <2>3, TakeCounts
  <2>5. Transferred'
    BY <1>1, <1>2, <2>1, <2>4, TakeTransferred
  <2>6. op'[o].st = "done" /\ \A p \in Ops \ {o} : op'[p] = op[p]
    BY <1>1, <2>3 DEF Registered
  <2>7. Wire'
    BY <1>1, <2>4, <2>6, StillWire DEF Pending
  <2> QED
    BY <2>2, <2>4, <2>5, <2>7 DEF IInv
<1>4. CASE ~Readable(s)
  <2>1. NoBytes /\ UNCHANGED <<op, watch, timer, edge>>
    BY <1>4 DEF ReadAgain, Unfinished
  <2>2. Registered'
    BY <1>1, <2>1 DEF Registered, Links, Pending, Watched, Sane
  <2> QED
    BY <2>1, <2>2, QuietInv
<1> QED
  BY <1>3, <1>4

(* The socket is ready for a write that waits.                              *)
LEMMA WriteRestInv ==
  ASSUME IInv, NEW o \in Ops, Pending(o), op[o].kind = "write", WriteRest(o), Looping'
  PROVE  IInv'
<1> DEFINE s == op[o].sock
           rest == Sendable(s, o)
<1>1. Registered /\ Transferred /\ s \in Socks /\ op[o].off \in 0..Len0
      /\ \A p \in Ops \ {o} : Pending(p) => op[p].sock # s
  BY Watching DEF IInv
<1>2. rest \in Nat /\ rest <= room[s] /\ rest <= Len0 - op[o].off
  <2>1. Len0 - op[o].off \in Nat /\ room[s] \in Nat
    BY <1>1, TcpAssumption DEF Transferred
  <2> QED
    BY <2>1, LeastFacts DEF Sendable
<1> HIDE DEF rest
<1>3. PICK n \in 0..rest :
        /\ Send(s, o, n)
        /\ \/ \E e \in Results : Finish(o, op[o].off + n, e)
           \/ Became(o, "write", s, op[o].off + n, "pending", "OK") /\ UNCHANGED <<watch, timer, edge>>
  <2>1. "IO" \in Results /\ "OK" \in Results /\ rest \in 0..rest
    BY <1>2 DEF Results
  <2>2. CASE \E n \in 0..rest : Send(s, o, n) /\ Finish(o, op[o].off + n, "IO")
    BY <2>1, <2>2
  <2>3. CASE /\ Send(s, o, rest)
             /\ \/ Finish(o, op[o].off + rest, "OK")
                \/ Became(o, "write", s, op[o].off + rest, "pending", "OK") /\ UNCHANGED <<watch, timer, edge>>
    BY <2>1, <2>3
  <2> QED
    BY <2>2, <2>3 DEF WriteRest, rest
<1>4. n \in Nat /\ n <= room[s] /\ op[o].off + n \in 0..Len0
  <2>1. Len0 \in Nat /\ room[s] \in Nat
    BY <1>1, TcpAssumption DEF Transferred
  <2> QED
    BY <1>1, <1>2, <2>1
<1> DEFINE m == op[o].off + n
<1>5. m \in 0..Len0 /\ m = op[o].off + n
  BY <1>4
<1>6. /\ Registered'
      /\ \E r \in OpType : op' = [op EXCEPT ![o] = r] /\ r.off = m /\ r.kind = "write" /\ r.sock = s
  <2> HIDE DEF m
  <2>1. CASE \E e \in Results : Finish(o, m, e)
    BY <1>1, <1>5, <2>1, EndsNow
  <2>2. CASE Became(o, "write", s, m, "pending", "OK") /\ UNCHANGED <<watch, timer, edge>>
    BY <1>1, <1>5, <2>2, MoreNow
  <2> QED
    BY <1>3, <2>1, <2>2 DEF m
<1>7. PICK r \in OpType : op' = [op EXCEPT ![o] = r] /\ r.off = m /\ r.kind = "write" /\ r.sock = s
  BY <1>6
<1>8. /\ r.off = op[o].off + n /\ Send(s, o, n) /\ n \in Nat /\ n <= room[s] /\ s \in Socks
      /\ Pending(o) /\ op[o].kind = "write" /\ op[o].sock = s
      /\ \A p \in Ops \ {o} : Pending(p) /\ op[p].kind = "write" => op[p].sock # s
  BY <1>1, <1>3, <1>4, <1>7
<1>9. BytesAccounted' /\ Transferred' /\ Wire'
  <2> HIDE DEF s, m
  <2>1. op' = [op EXCEPT ![o] = r] /\ r.kind = "write" /\ r.sock = s
    BY <1>7
  <2>2. op[o].st = "idle" \/ (Pending(o) /\ op[o].kind = "write" /\ op[o].sock = s)
    BY <1>8
  <2>3. ~Overlap => \A p \in Ops \ {o} : Pending(p) /\ op[p].kind = "write" => op[p].sock # s
    BY <1>8
  <2>4. s \in Socks /\ n \in Nat /\ n <= room[s] /\ Send(s, o, n) /\ r.off = op[o].off + n
    BY <1>8
  <2> QED
    BY <2>1, <2>2, <2>3, <2>4, SentInv, ZenonT(60)
<1> QED
  BY <1>6, <1>9 DEF IInv

(* One event of the round.                                                  *)
LEMMA ReadyInv ==
  ASSUME IInv, OnReady
  PROVE  IInv'
<1> DEFINE e == Head(batch)
<1>1. Registered /\ Transferred /\ Looping /\ BytesAccounted /\ Wire
  BY DEF IInv
<1>2. batch \in Seq(Event) /\ batch # <<>> /\ batch' = Tail(batch) /\ UNCHANGED <<str, pc>>
  BY <1>1 DEF OnReady, Looping
<1>3. e \in Event /\ batch' \in Seq(Event)
  BY <1>2
<1>4. Looping'
  BY <1>1, <1>2, <1>3 DEF Looping
<1>5. e.sock \in Socks /\ e.op \in Ops /\ e.hup \in BOOLEAN
  BY <1>3 DEF Event
<1>6. CASE watch[e.sock] # e.op
  <2>1. NoBytes /\ UNCHANGED <<op, watch, timer, edge>>
    BY <1>6 DEF OnReady, Unfinished
  <2>2. Registered'
    BY <1>1, <2>1 DEF Registered, Links, Pending, Watched, Sane
  <2> QED
    BY <1>4, <2>1, <2>2, QuietInv
<1>7. CASE watch[e.sock] = e.op
  <2>1. Pending(e.op)
    BY <1>1, <1>5, <1>7 DEF Registered, Links
  <2>2. op[e.op].kind \in {"read", "write"}
    BY <1>1, <1>5 DEF Registered, OpType
  <2>3. \/ NoBytes /\ Finish(e.op, op[e.op].off, "IO")
        \/ op[e.op].kind = "read" /\ ReadAgain(e.op)
        \/ op[e.op].kind = "write" /\ WriteRest(e.op)
    BY <1>7, <2>2 DEF OnReady
  <2> HIDE DEF e
  <2>4. CASE NoBytes /\ Finish(e.op, op[e.op].off, "IO")
    <3>1. "IO" \in Results
      BY DEF Results
    <3> QED
      BY <1>4, <1>5, <2>1, <2>4, <3>1, EndInv
  <2>5. CASE op[e.op].kind = "read" /\ ReadAgain(e.op)
    BY <1>4, <1>5, <2>1, <2>5, ReadAgainInv
  <2>6. CASE op[e.op].kind = "write" /\ WriteRest(e.op)
    BY <1>4, <1>5, <2>1, <2>6, WriteRestInv
  <2> QED
    BY <2>3, <2>4, <2>5, <2>6
<1> QED
  BY <1>6, <1>7

(* What epoll_wait reports are finitely many events, each of a watcher.     *)
LEMMA ReportedEvents ==
  ASSUME Registered, Transferred, NEW S \in SUBSET edge
  PROVE  SetToSeqs(EventsOf(S)) \subseteq Seq(Event)
<1>1. S \subseteq Socks /\ IsFiniteSet(S) /\ \A s \in S : watch[s] \in Ops /\ hup[s] \in BOOLEAN
  <2>1. S \subseteq Socks
    BY DEF Registered
  <2>2. IsFiniteSet(S)
    BY <2>1, TcpAssumption, FS_Subset
  <2> QED
    BY <2>1, <2>2 DEF Registered, Watched, Transferred
<1> DEFINE E == EventsOf(S)
           f == [s \in S |-> [sock |-> s, op |-> watch[s], hup |-> hup[s]]]
<1>2. E \subseteq Event
  BY <1>1 DEF EventsOf, Event
<1>3. f \in Surjection(S, E)
  BY DEF EventsOf, Surjection
<1> HIDE DEF f, E
<1>4. IsFiniteSet(E)
  BY <1>1, <1>3, FS_Surjection
<1>5. Cardinality(E) \in Nat
  BY <1>4, FS_CardinalityType
<1>6. ASSUME NEW b \in SetToSeqs(E) PROVE b \in Seq(Event)
  <2>1. b \in [1..Cardinality(E) -> E]
    BY <1>6 DEF SetToSeqs
  <2>2. b \in [1..Cardinality(E) -> Event]
    BY <1>2, <2>1
  <2> QED
    BY <1>5, <2>2
<1> QED
  BY <1>6 DEF E

(* The rounds of the loop.                                                  *)
LEMMA RoundInv ==
  ASSUME IInv, WaitEvents \/ RunTasks \/ CollectDue \/ NextRound
  PROVE  IInv'
<1>1. Registered /\ Transferred /\ Looping
  BY DEF IInv
<1>2. CASE WaitEvents
  <2>1. UNCHANGED <<op, str, watch, timer, peer, out, taken>> /\ edge' = {} /\ pc' = "events"
        /\ batch' \in SetToSeqs(EventsOf({s \in edge : Reportable(s)}))
    BY <1>2 DEF WaitEvents
  <2>2. batch' \in Seq(Event)
    <3>1. {s \in edge : Reportable(s)} \in SUBSET edge
      OBVIOUS
    <3> QED
      BY <1>1, <2>1, <3>1, ReportedEvents
  <2>3. Looping'
    BY <1>1, <2>1, <2>2 DEF Looping
  <2>4. Registered'
    BY <1>1, <2>1, SameOps DEF Registered
  <2>5. NoBytes /\ UNCHANGED op
    BY <2>1 DEF peer, NoBytes
  <2> QED
    BY <2>3, <2>4, <2>5, QuietInv
<1>3. CASE RunTasks \/ NextRound
  <2>1. UNCHANGED <<op, str, watch, timer, peer, edge, batch, out, taken>> /\ pc' \in {"tasks", "wait"}
    BY <1>3 DEF RunTasks, NextRound
  <2>2. Looping'
    BY <1>1, <2>1 DEF Looping
  <2>3. Registered'
    BY <1>1, <2>1, SameOps DEF Registered
  <2>4. NoBytes /\ UNCHANGED op
    BY <2>1 DEF peer, NoBytes
  <2> QED
    BY <2>2, <2>3, <2>4, QuietInv
<1>4. CASE CollectDue
  <2>1. PICK S \in SUBSET {o \in Ops : timer[o] = "armed"} :
               timer' = [o \in Ops |-> IF o \in S THEN "due" ELSE timer[o]]
    BY <1>4 DEF CollectDue
  <2>2. UNCHANGED <<op, str, watch, peer, edge, batch, out, taken>> /\ pc' = "timers"
    BY <1>4 DEF CollectDue
  <2>3. Looping'
    BY <1>1, <2>2 DEF Looping
  <2>4. /\ timer' \in [Ops -> {"none", "armed", "due", "off"}]
        /\ \A o \in Ops : timer'[o] \in {"armed", "due"} => timer[o] \in {"armed", "due"}
    BY <1>1, <2>1 DEF Registered
  <2>5. Registered'
    BY <1>1, <2>2, <2>4, SameOps DEF Registered
  <2>6. NoBytes /\ UNCHANGED op
    BY <2>2 DEF peer, NoBytes
  <2> QED
    BY <2>3, <2>5, <2>6, QuietInv
<1> QED
  BY <1>2, <1>3, <1>4

(* A deadline that passes ends an operation that waits.                     *)
LEMMA TimeoutInv ==
  ASSUME IInv, NEW o \in Ops, OnTimeout(o)
  PROVE  IInv'
<1>1. Registered /\ Looping
  BY DEF IInv
<1>2. Pending(o)
  BY <1>1 DEF OnTimeout, Registered, Links
<1>3. op[o].kind # "write" => op[o].off = 0
  BY <1>1, <1>2, Watching DEF Sane, OpType, Pending
<1>4. Finish(o, op[o].off, "TIMEDOUT") /\ NoBytes /\ UNCHANGED <<str, batch, pc>>
  BY <1>3 DEF OnTimeout
<1>5. Looping' /\ "TIMEDOUT" \in Results
  BY <1>1, <1>4 DEF Looping, Results
<1> QED
  BY <1>2, <1>4, <1>5, EndInv
-----------------------------------------------------------------------------
LEMMA Begins == Init => IInv
<1> SUFFICES ASSUME Init PROVE IInv
  OBVIOUS
<1>1. /\ op = [o \in Ops |-> Idle] /\ str = [o \in Ops |-> TRUE]
      /\ watch = [s \in Socks |-> None] /\ timer = [o \in Ops |-> "none"]
      /\ inbox = [s \in Socks |-> 0] /\ room \in [Socks -> 0..Buffer]
      /\ hup = [s \in Socks |-> FALSE]
      /\ edge = {} /\ batch = <<>> /\ pc = "tasks"
      /\ out = [s \in Socks |-> <<>>] /\ taken = [s \in Socks |-> <<>>]
  BY DEF Init
<1>2. Idle \in OpType /\ Sane(Idle) /\ Idle.st = "idle" /\ Idle.off = 0
  BY TcpAssumption DEF Idle, OpType, Results, Sane
<1>3. Links
  BY <1>1, <1>2, TcpAssumption DEF Links, Pending
<1>4. Registered
  BY <1>1, <1>2, <1>3 DEF Registered
<1>5. Transferred /\ Looping
  BY <1>1, TcpAssumption DEF Transferred, Looping
<1>6. BytesAccounted
  <2>1. \A o : Count(<<>>, o) = 0
    <3>1. \A o : {i \in DOMAIN <<>> : <<>>[i] = o} = {}
      OBVIOUS
    <3> QED
      BY <3>1, FS_EmptySet DEF Count
  <2> QED
    BY <1>1, <1>2, <2>1 DEF BytesAccounted, Moved
<1>7. Wire
  BY <1>1, <1>2 DEF Wire, Together, Pending
<1> QED
  BY <1>4, <1>5, <1>6, <1>7 DEF IInv

LEMMA Inductive == IInv /\ [Next]_vars => IInv'
<1> SUFFICES ASSUME IInv, [Next]_vars PROVE IInv'
  OBVIOUS
<1>1. ASSUME NEW s \in Socks, PeerSends(s) \/ PeerReads(s) \/ PeerCloses(s) PROVE IInv'
  BY <1>1, PeerInv
<1>2. ASSUME NEW o \in Ops, NEW s \in Socks, ReadAsync(o, s) PROVE IInv'
  BY <1>2, ReadInv
<1>3. ASSUME NEW o \in Ops, NEW s \in Socks, WriteAsync(o, s) PROVE IInv'
  BY <1>3, WriteInv
<1>4. ASSUME NEW o \in Ops, DropString(o) PROVE IInv'
  <2>1. /\ UNCHANGED <<op, watch, timer, edge, batch, pc>> /\ NoBytes
        /\ str' = [str EXCEPT ![o] = FALSE]
    BY <1>4 DEF DropString, peer, loopVars, NoBytes
  <2>2. Registered'
    BY <2>1, SameOps DEF IInv, Registered
  <2>3. Looping'
    BY <2>1 DEF IInv, Looping
  <2> QED
    BY <2>1, <2>2, <2>3, QuietInv
<1>5. ASSUME NEW o \in Ops, OnTimeout(o) PROVE IInv'
  BY <1>5, TimeoutInv
<1>6. CASE LoopStep
  BY <1>6, ReadyInv, RoundInv DEF LoopStep
<1>7. CASE UNCHANGED vars
  <2>1. UNCHANGED <<op, str, watch, timer, edge, batch, pc>> /\ NoBytes
    BY <1>7 DEF vars, NoBytes
  <2>2. Registered' /\ Looping'
    BY <2>1, SameOps DEF IInv, Registered, Looping
  <2> QED
    BY <2>1, <2>2, QuietInv
<1> QED
  BY <1>1, <1>2, <1>3, <1>4, <1>5, <1>6, <1>7 DEF Next

LEMMA Always == Spec => []IInv
BY Begins, Inductive, PTL DEF Spec
-----------------------------------------------------------------------------
(* The state keeps its shape.                                               *)
THEOREM TypeCorrect == Spec => []TypeOK
<1>1. IInv => TypeOK
  BY DEF IInv, Registered, Transferred, Looping, TypeOK, OpType, Event
<1> QED
  BY <1>1, Always, PTL

(* What the invariant says of the operations.                               *)
LEMMA Promised == IInv => NothingDangles /\ BytesAccounted /\ StreamInOrder
<1> SUFFICES ASSUME IInv PROVE NothingDangles /\ BytesAccounted /\ StreamInOrder
  OBVIOUS
<1>1. TypeOK
  BY DEF IInv, Registered, Transferred, Looping, TypeOK, OpType, Event
<1>2. Links
  BY DEF IInv, Registered
<1>3. NothingDangles
  BY <1>1, <1>2 DEF NothingDangles, Links, Pending
<1>4. BytesAccounted
  BY DEF IInv
<1>5. StreamInOrder
  BY DEF IInv, Wire, Together, StreamInOrder
<1> QED
  BY <1>3, <1>4, <1>5

(* Whichever of watcher, timer and call ends an operation, nothing the loop *)
(* may call points to it afterwards, and one that waits is watched: for any *)
(* number of operations that share the sockets, in any order of events,     *)
(* deadlines and calls (tua_read_finish, tua_write_finish).                 *)
THEOREM NothingPointsToTheDead == Spec => []NothingDangles
BY Promised, Always, PTL

(* What a callback is told and what a waiting write has noted is what the   *)
(* kernel took or gave, on that socket and no other, for any length of the  *)
(* transfers and of the kernel's buffers.                                   *)
THEOREM BytesAddUp == Spec => []BytesAccounted
BY Promised, Always, PTL

(* The bytes of two writes are never mixed on the wire as long as no write  *)
(* is started on a socket where another waits.                              *)
THEOREM WritesUnmixed == Spec => []StreamInOrder
BY Promised, Always, PTL
-----------------------------------------------------------------------------
(* Connecting and accepting (TcpConnections).  The parts of its invariant.  *)
ConnTypes ==
  /\ job \in [Conns -> {"none", "refused", "queued", "posted", "waiting", "over"}]
  /\ mem \in [Conns -> SUBSET (C!Strings \cup {"job", "state", "ai", "attempt"})]
  /\ addrs \in [Conns -> 0..MaxAddr] /\ tried \in [Conns -> Seq(1..MaxAddr)]
  /\ kernel \in [Conns -> {"none", "connecting", "connected", "failed", "given"}]
  /\ ctimer \in [Conns -> {"none", "armed", "due", "off"}]
  /\ deadline \in [Conns -> {"none", "running", "passed"}]
  /\ result \in [Conns -> Seq({"OK", "NOMEM", "TIMEDOUT", "NOTFOUND"})]

AcceptTypes ==
  /\ lst \in {"none", "open", "closed"}
  /\ acc \in [Accepts -> {"idle", "refused", "active", "freed"}]
  /\ {backlog, peers} \subseteq 0..MaxPeers /\ failures \in 0..MaxFailures
  /\ {stale, inside, misuse} \subseteq BOOLEAN /\ cur \in Accepts \cup {None}

(* Before the loop has tried anything for a connect.                        *)
Untried(c) == tried[c] = <<>> /\ kernel[c] = "none" /\ ctimer[c] = "none" /\ result[c] = <<>>

(* The addresses 1, 2, ... of n, in this order.                             *)
InOrder(t, n) == Len(t) <= n /\ \A k \in DOMAIN t : t[k] = k

(* A connect, wherever it is: posted with the addresses it has blocks for,  *)
(* waiting for one with a watcher, or over.                                 *)
ConnInv(c) ==
  /\ job[c] \notin {"waiting", "over"} => Untried(c)
  /\ job[c] = "posted" => ("ai" \in mem[c] <=> addrs[c] > 0)
  /\ job[c] = "waiting" => /\ result[c] = <<>> /\ kernel[c] # "given"
                           /\ ctimer[c] \in {"armed", "due"} <=> deadline[c] # "none"
  /\ job[c] = "over" => /\ Len(result[c]) = 1 /\ mem[c] = {} /\ ctimer[c] \notin {"armed", "due"}
                        /\ (kernel[c] = "given") = (result[c] = <<"OK">>)
  /\ InOrder(tried[c], addrs[c])
  /\ result[c] = <<"NOTFOUND">> => Len(tried[c]) = addrs[c]
  /\ job[c] = "waiting" <=> c \in watched

ConnsInv == ConnTypes /\ \A c \in Conns : ConnInv(c)

(* An accept that is watched has not been freed; nor has the one whose      *)
(* handler runs, as long as no callback has cancelled its own.              *)
AcceptsInv ==
  /\ AcceptTypes
  /\ backlog <= peers
  /\ cur # None <=> cpc \in {"accepting", "callback"}
  /\ \A a \in Accepts : a \in watched => acc[a] = "active"
  /\ ~inside => ~misuse /\ (cur # None => acc[cur] = "active")

LoopShape ==
  /\ watched \subseteq Conns \cup Accepts /\ cedge \subseteq watched
  /\ cbatch \in Seq(Conns \cup Accepts)
  /\ todo \subseteq {c \in Conns : job[c] = "posted"}
  /\ cpc \in {"wait", "events", "tasks", "timers", "accepting", "callback", "crashed"}

SettledInv == ConnsInv /\ AcceptsInv /\ LoopShape
-----------------------------------------------------------------------------
(* A step touches one connect.                                              *)
Others(c) == \A x \in Conns \ {c} :
  /\ job'[x] = job[x] /\ mem'[x] = mem[x] /\ addrs'[x] = addrs[x] /\ tried'[x] = tried[x]
  /\ kernel'[x] = kernel[x] /\ ctimer'[x] = ctimer[x] /\ deadline'[x] = deadline[x] /\ result'[x] = result[x]
  /\ x \in watched' <=> x \in watched

LEMMA OneConnect ==
  ASSUME ConnsInv, NEW c \in Conns, Others(c), ConnTypes', ConnInv(c)'
  PROVE  ConnsInv'
<1>1. ASSUME NEW x \in Conns \ {c} PROVE ConnInv(x)'
  <2>1. ConnInv(x)
    BY DEF ConnsInv
  <2>2. /\ job'[x] = job[x] /\ mem'[x] = mem[x] /\ addrs'[x] = addrs[x] /\ tried'[x] = tried[x]
        /\ kernel'[x] = kernel[x] /\ ctimer'[x] = ctimer[x] /\ deadline'[x] = deadline[x] /\ result'[x] = result[x]
        /\ x \in watched' <=> x \in watched
    BY DEF Others
  <2> QED
    BY <2>1, <2>2 DEF ConnInv, Untried
<1> QED
  BY <1>1 DEF ConnsInv

(* No step of a connect touches an accept, and the other way round.         *)
LEMMA ConnectsAlone ==
  ASSUME ConnsInv, UNCHANGED C!connVars, watched' \cap Conns = watched \cap Conns
  PROVE  ConnsInv'
<1>1. ASSUME NEW x \in Conns PROVE ConnInv(x)'
  BY DEF ConnsInv, ConnInv, Untried, C!connVars
<1>2. ConnTypes'
  BY DEF ConnsInv, ConnTypes, C!connVars
<1> QED
  BY <1>1, <1>2 DEF ConnsInv

LEMMA AcceptsAlone ==
  ASSUME AcceptsInv, UNCHANGED C!acceptVars, watched' \cap Accepts \subseteq watched,
         cpc' \in {"accepting", "callback"} <=> cpc \in {"accepting", "callback"}
  PROVE  AcceptsInv'
<1>1. AcceptTypes'
  BY DEF AcceptsInv, AcceptTypes, C!acceptVars
<1> QED
  BY <1>1 DEF AcceptsInv, C!acceptVars

(* A walk over the addresses from the next one.                             *)
LEMMA NextInOrder ==
  ASSUME NEW m \in Nat, NEW n \in 0..m, NEW t \in Seq(1..m), InOrder(t, n),
         NEW k \in (Len(t) + 1)..n \cup {n}
  PROVE  LET i == Len(t) + 1
             u == t \o [j \in 1..(k + 1 - i) |-> i + j - 1]
         IN  u \in Seq(1..m) /\ Len(u) = k /\ InOrder(u, n)
<1> DEFINE i == Len(t) + 1
           d == k + 1 - i
           s == [j \in 1..d |-> i + j - 1]
           u == t \o s
<1>1. Len(t) \in Nat /\ Len(t) <= n /\ n \in Nat /\ n <= m /\ k \in Nat /\ Len(t) <= k /\ k <= n
      /\ \A x \in DOMAIN t : t[x] = x
  BY DEF InOrder
<1>2. d \in Nat /\ d = k - Len(t) /\ i = Len(t) + 1
  BY <1>1
<1>3. DOMAIN t = 1..Len(t)
  OBVIOUS
<1> HIDE DEF i, d
<1>4. \A j \in 1..d : i + j - 1 \in 1..m /\ i + j - 1 = Len(t) + j
  BY <1>1, <1>2
<1>5. s \in Seq(1..m) /\ Len(s) = d /\ \A j \in 1..d : s[j] = Len(t) + j
  BY <1>2, <1>4
<1> HIDE DEF s
<1>6. /\ u \in Seq(1..m) /\ Len(u) = Len(t) + d
      /\ \A x \in 1..(Len(t) + d) : u[x] = IF x <= Len(t) THEN t[x] ELSE s[x - Len(t)]
  <2> DEFINE S == 1..m
  <2>1. t \in Seq(S) /\ s \in Seq(S)
    BY <1>5
  <2> HIDE DEF S
  <2>2. /\ t \o s \in Seq(S) /\ Len(t \o s) = Len(t) + Len(s)
        /\ \A x \in 1..(Len(t) + Len(s)) : (t \o s)[x] = IF x <= Len(t) THEN t[x] ELSE s[x - Len(t)]
    BY <2>1, ConcatProperties
  <2> QED
    BY <1>5, <2>2 DEF S
<1> HIDE DEF u
<1>7. ASSUME NEW x \in 1..(Len(t) + d) PROVE u[x] = x
  <2>1. CASE x <= Len(t)
    <3>1. x \in 1..Len(t) /\ u[x] = t[x]
      BY <1>1, <1>6, <2>1
    <3> QED
      BY <1>1, <1>3, <3>1
  <2>2. CASE x > Len(t)
    <3>1. x - Len(t) \in 1..d /\ u[x] = s[x - Len(t)]
      BY <1>1, <1>2, <1>6, <2>2
    <3> QED
      BY <1>1, <1>5, <3>1
  <2> QED
    BY <1>1, <2>1, <2>2
<1>8. Len(u) = k /\ DOMAIN u = 1..(Len(t) + d)
  BY <1>1, <1>2, <1>6, LenProperties
<1>9. InOrder(u, n)
  BY <1>1, <1>7, <1>8 DEF InOrder
<1> QED
  BY <1>6, <1>8, <1>9 DEF u, s, d, i
-----------------------------------------------------------------------------
(* What the loop does with a connect.                                       *)
Served(c) == /\ ConnTypes' /\ Others(c) /\ ConnInv(c)' /\ job'[c] # "posted"
             /\ watched \ {c} \subseteq watched' /\ watched' \subseteq watched \cup {c} /\ cedge' \subseteq cedge \ {c}

LEMMA FinishServes ==
  ASSUME ConnTypes, NEW c \in Conns, NEW e \in {"OK", "NOMEM", "TIMEDOUT", "NOTFOUND"},
         C!Finish(c, e), result[c] = <<>>, UNCHANGED <<addrs, deadline>>,
         tried' \in [Conns -> Seq(1..MaxAddr)], \A x \in Conns \ {c} : tried'[x] = tried[x],
         InOrder(tried'[c], addrs[c]), e = "NOTFOUND" => Len(tried'[c]) = addrs[c]
  PROVE  Served(c)
<1>1. PICK told \in {"OK", "NOMEM", "TIMEDOUT", "NOTFOUND"} :
        /\ result' = [result EXCEPT ![c] = Append(result[c], told)]
        /\ kernel' = [kernel EXCEPT ![c] = IF told = "OK" THEN "given" ELSE "none"]
        /\ told = "NOTFOUND" => e = "NOTFOUND"
  BY DEF C!Finish, C!Calls
<1>2. /\ mem' = [mem EXCEPT ![c] = {}] /\ job' = [job EXCEPT ![c] = "over"]
      /\ watched' = watched \ {c} /\ cedge' = cedge \ {c}
      /\ ctimer' = [ctimer EXCEPT ![c] = IF ctimer[c] = "none" THEN ctimer[c] ELSE "off"]
  BY DEF C!Finish, C!Released
<1>3. Append(result[c], told) = <<told>>
  OBVIOUS
<1>4. ConnTypes'
  <2>1. <<told>> \in Seq({"OK", "NOMEM", "TIMEDOUT", "NOTFOUND"})
    OBVIOUS
  <2>2. result' \in [Conns -> Seq({"OK", "NOMEM", "TIMEDOUT", "NOTFOUND"})]
    BY <1>1, <1>3, <2>1 DEF ConnTypes
  <2>3. /\ job' \in [Conns -> {"none", "refused", "queued", "posted", "waiting", "over"}]
        /\ mem' \in [Conns -> SUBSET (C!Strings \cup {"job", "state", "ai", "attempt"})]
        /\ ctimer' \in [Conns -> {"none", "armed", "due", "off"}]
        /\ kernel' \in [Conns -> {"none", "connecting", "connected", "failed", "given"}]
    BY <1>1, <1>2 DEF ConnTypes
  <2> QED
    BY <2>2, <2>3 DEF ConnTypes
<1>5. Others(c)
  BY <1>1, <1>2 DEF Others, ConnTypes
<1>6. ConnInv(c)'
  <2>1. /\ job'[c] = "over" /\ mem'[c] = {} /\ ctimer'[c] \notin {"armed", "due"} /\ result'[c] = <<told>>
        /\ kernel'[c] = (IF told = "OK" THEN "given" ELSE "none") /\ c \notin watched'
        /\ addrs'[c] = addrs[c]
    BY <1>1, <1>2, <1>3 DEF ConnTypes
  <2>2. Len(<<told>>) = 1 /\ (<<told>> = <<"OK">> <=> told = "OK") /\ (<<told>> = <<"NOTFOUND">> <=> told = "NOTFOUND")
    OBVIOUS
  <2> QED
    BY <1>1, <2>1, <2>2 DEF ConnInv
<1> QED
  BY <1>2, <1>4, <1>5, <1>6 DEF Served, ConnTypes

LEMMA WalkServes ==
  ASSUME ConnsInv, NEW c \in Conns, job[c] \in {"posted", "waiting"},
         C!TryNext(c, C!NextAddress(c)), UNCHANGED <<addrs, deadline>>
  PROVE  Served(c)
<1>1. ConnTypes /\ ConnInv(c) /\ result[c] = <<>> /\ InOrder(tried[c], addrs[c]) /\ kernel[c] # "given"
  BY DEF ConnsInv, ConnInv, Untried
<1>2. addrs[c] \in 0..MaxAddr /\ MaxAddr \in Nat /\ tried[c] \in Seq(1..MaxAddr) /\ addrs[c] \in Nat
      /\ Len(tried[c]) \in Nat /\ Len(tried[c]) <= addrs[c]
  BY <1>1, ConnectionsAssumption DEF ConnTypes, C!ConnectionsAssumption, InOrder
<1> DEFINE t == tried[c]
           n == addrs[c]
           i == C!NextAddress(c)
           u(k) == t \o [j \in 1..(k + 1 - i) |-> i + j - 1]
<1>3. CASE deadline[c] = "passed"
  <2>1. C!Finish(c, "TIMEDOUT") /\ UNCHANGED tried
    BY <1>3 DEF C!TryNext
  <2> QED
    BY <1>1, <2>1, FinishServes DEF ConnTypes
<1>4. CASE deadline[c] # "passed"
  <2>1. C!WalkFrom(c, i)
    BY <1>4 DEF C!TryNext
  <2>2. ASSUME NEW k \in (Len(t) + 1)..n \cup {n}
        PROVE  u(k) \in Seq(1..MaxAddr) /\ Len(u(k)) = k /\ InOrder(u(k), n)
    BY <1>1, <1>2, NextInOrder DEF C!NextAddress
  <2>3. ASSUME NEW k \in (Len(t) + 1)..n \cup {n}, tried' = [tried EXCEPT ![c] = u(k)]
        PROVE  /\ tried' \in [Conns -> Seq(1..MaxAddr)] /\ \A x \in Conns \ {c} : tried'[x] = tried[x]
               /\ InOrder(tried'[c], n) /\ Len(tried'[c]) = k
    <3> HIDE DEF u, n
    <3> QED
      BY <1>1, <2>2, <2>3 DEF ConnTypes
  <2>4. CASE tried' = [tried EXCEPT ![c] = u(n)] /\ C!Finish(c, "NOTFOUND")
    <3>1. /\ tried' \in [Conns -> Seq(1..MaxAddr)] /\ \A x \in Conns \ {c} : tried'[x] = tried[x]
          /\ InOrder(tried'[c], addrs[c]) /\ Len(tried'[c]) = addrs[c]
      BY <2>3, <2>4
    <3> QED
      BY <1>1, <2>4, <3>1, FinishServes
  <2>5. ASSUME NEW k \in i..n, tried' = [tried EXCEPT ![c] = u(k)], C!Finish(c, "OK")
        PROVE  Served(c)
    <3>1. /\ tried' \in [Conns -> Seq(1..MaxAddr)] /\ \A x \in Conns \ {c} : tried'[x] = tried[x]
          /\ InOrder(tried'[c], addrs[c])
      BY <2>3, <2>5 DEF C!NextAddress
    <3> QED
      BY <1>1, <2>5, <3>1, FinishServes
  <2>6. ASSUME NEW k \in i..n, tried' = [tried EXCEPT ![c] = u(k)],
               kernel' = [kernel EXCEPT ![c] = "connecting"], job' = [job EXCEPT ![c] = "waiting"],
               mem' = [mem EXCEPT ![c] = mem[c] \cup {"attempt"}],
               watched' = watched \cup {c}, cedge' = cedge \ {c},
               ctimer' = [ctimer EXCEPT ![c] = IF deadline[c] = "none" THEN "none" ELSE "armed"],
               UNCHANGED result
        PROVE  Served(c)
    <3>1. /\ tried' \in [Conns -> Seq(1..MaxAddr)] /\ \A x \in Conns \ {c} : tried'[x] = tried[x]
          /\ InOrder(tried'[c], addrs[c])
      BY <2>3, <2>6 DEF C!NextAddress
    <3>2. mem[c] \cup {"attempt"} \in SUBSET (C!Strings \cup {"job", "state", "ai", "attempt"})
      BY <1>1 DEF ConnTypes
    <3> HIDE DEF u
    <3>3. ConnTypes'
      BY <1>1, <2>6, <3>1, <3>2 DEF ConnTypes
    <3>4. Others(c)
      BY <1>1, <2>6, <3>1 DEF Others, ConnTypes
    <3>5. /\ job'[c] = "waiting" /\ kernel'[c] = "connecting" /\ result'[c] = <<>> /\ c \in watched'
          /\ ctimer'[c] \in {"armed", "due"} <=> deadline'[c] # "none"
          /\ InOrder(tried'[c], addrs'[c])
      BY <1>1, <2>6, <3>1 DEF ConnTypes
    <3>6. ConnInv(c)'
      BY <3>5 DEF ConnInv
    <3> QED
      BY <2>6, <3>3, <3>4, <3>5, <3>6 DEF Served
  <2> QED
    BY <2>1, <2>4, <2>5, <2>6 DEF C!WalkFrom
<1> QED
  BY <1>3, <1>4

(* Which keeps the invariant, if nothing else happens.                      *)
LEMMA SettledServed ==
  ASSUME SettledInv, NEW c \in Conns, Served(c), UNCHANGED <<C!acceptVars, cpc>>,
         todo' \subseteq todo \ {c}, cbatch' \in Seq(Conns \cup Accepts)
  PROVE  SettledInv'
<1>1. ConnsInv'
  BY OneConnect DEF SettledInv, Served
<1>2. AcceptsInv'
  <2>1. watched' \cap Accepts \subseteq watched
    BY ConnectionsAssumption DEF Served, C!ConnectionsAssumption
  <2> QED
    BY <2>1, AcceptsAlone DEF SettledInv
<1>3. LoopShape'
  <2>1. watched' \subseteq Conns \cup Accepts /\ cedge' \subseteq watched'
    BY DEF SettledInv, LoopShape, Served
  <2>2. todo' \subseteq {x \in Conns : job'[x] = "posted"}
    BY DEF SettledInv, LoopShape, Served, Others
  <2> QED
    BY <2>1, <2>2 DEF SettledInv, LoopShape
<1> QED
  BY <1>1, <1>2, <1>3 DEF SettledInv
-----------------------------------------------------------------------------
(* Each step.                                                               *)
LEMMA FreshConnect ==
  ASSUME ConnsInv, NEW c \in Conns
  PROVE  /\ job[c] \notin {"waiting", "over"} => result[c] = <<>> /\ tried[c] = <<>> /\ ctimer[c] = "none" /\ kernel[c] = "none"
         /\ job[c] = "waiting" <=> c \in watched
         /\ addrs[c] \in 0..MaxAddr /\ ConnInv(c) /\ ConnTypes
BY DEF ConnsInv, ConnInv, Untried, ConnTypes

(* A step before the loop has the connect.                                  *)
LEMMA SettledEarly ==
  ASSUME SettledInv, NEW c \in Conns, job[c] \notin {"waiting", "over"},
         C!ConnectAsync(c, "none") \/ C!ConnectAsync(c, "running") \/ C!ConnectWorker(c)
  PROVE  SettledInv'
<1>1. /\ result[c] = <<>> /\ tried[c] = <<>> /\ ctimer[c] = "none" /\ kernel[c] = "none"
      /\ c \notin watched /\ addrs[c] \in 0..MaxAddr /\ ConnInv(c) /\ ConnTypes /\ MaxAddr \in Nat
  BY FreshConnect, ConnectionsAssumption DEF SettledInv, C!ConnectionsAssumption
<1>2. UNCHANGED <<tried, kernel, ctimer, C!acceptVars, watched, cedge, cbatch, todo, cpc>>
  BY DEF C!ConnectAsync, C!ConnectWorker, C!loopVars
<1>3. ConnTypes' /\ ConnInv(c)' /\ Others(c)
      /\ job'[c] \in {"refused", "queued", "posted", "over"} /\ \A x \in Conns \ {c} : job'[x] = job[x]
  <2>1. ASSUME NEW d \in {"none", "running"}, C!ConnectAsync(c, d)
        PROVE  ConnTypes' /\ ConnInv(c)' /\ Others(c)
               /\ job'[c] \in {"refused", "queued", "posted", "over"} /\ \A x \in Conns \ {c} : job'[x] = job[x]
    <3>1. /\ deadline' = [deadline EXCEPT ![c] = d] /\ UNCHANGED <<addrs, result>>
          /\ \E j \in {"refused", "queued"} : job' = [job EXCEPT ![c] = j]
          /\ mem' = mem \/ mem' = [mem EXCEPT ![c] = C!Strings \cup {"job"}]
      BY <2>1 DEF C!ConnectAsync
    <3>2. ConnTypes'
      <4>1. C!Strings \cup {"job"} \in SUBSET (C!Strings \cup {"job", "state", "ai", "attempt"})
        OBVIOUS
      <4>2. mem' \in [Conns -> SUBSET (C!Strings \cup {"job", "state", "ai", "attempt"})]
        BY <1>1, <3>1, <4>1 DEF ConnTypes
      <4>3. deadline' \in [Conns -> {"none", "running", "passed"}]
        BY <1>1, <3>1 DEF ConnTypes
      <4>4. job' \in [Conns -> {"none", "refused", "queued", "posted", "waiting", "over"}]
        BY <1>1, <3>1 DEF ConnTypes
      <4> QED
        BY <1>1, <1>2, <3>1, <4>2, <4>3, <4>4 DEF ConnTypes
    <3>3. Others(c)
      BY <1>1, <1>2, <3>1 DEF Others, ConnTypes
    <3>4. job'[c] \in {"refused", "queued"} /\ Untried(c)' /\ c \notin watched' /\ result'[c] = <<>>
          /\ InOrder(tried'[c], addrs'[c])
      BY <1>1, <1>2, <3>1 DEF Untried, ConnTypes, ConnInv
    <3>5. ConnInv(c)'
      BY <3>4 DEF ConnInv
    <3> QED
      BY <1>1, <3>1, <3>2, <3>3, <3>4, <3>5 DEF ConnTypes
  <2>2. CASE C!ConnectWorker(c)
    <3>1. PICK n \in 0..MaxAddr :
            \/ /\ mem' = [mem EXCEPT ![c] = {"state"} \cup (IF n > 0 THEN {"ai"} ELSE {})]
               /\ addrs' = [addrs EXCEPT ![c] = n]
               /\ job' = [job EXCEPT ![c] = "posted"]
               /\ UNCHANGED result
            \/ /\ mem' = [mem EXCEPT ![c] = {}]
               /\ C!Calls(c, "NOMEM")
               /\ job' = [job EXCEPT ![c] = "over"]
               /\ UNCHANGED addrs
      BY <2>2 DEF C!ConnectWorker
    <3>2. UNCHANGED deadline
      BY <2>2 DEF C!ConnectWorker
    <3>3. CASE /\ mem' = [mem EXCEPT ![c] = {"state"} \cup (IF n > 0 THEN {"ai"} ELSE {})]
               /\ addrs' = [addrs EXCEPT ![c] = n]
               /\ job' = [job EXCEPT ![c] = "posted"]
               /\ UNCHANGED result
      <4>1. ConnTypes'
        BY <1>1, <1>2, <3>2, <3>3 DEF ConnTypes
      <4>2. Others(c)
        BY <1>1, <1>2, <3>2, <3>3 DEF Others, ConnTypes
      <4>3. /\ job'[c] = "posted" /\ Untried(c)' /\ c \notin watched' /\ result'[c] = <<>>
            /\ ("ai" \in mem'[c] <=> addrs'[c] > 0) /\ addrs'[c] \in Nat
        BY <1>1, <1>2, <3>3 DEF Untried, ConnTypes
      <4>4. InOrder(<<>>, addrs'[c])
        BY <4>3 DEF InOrder
      <4>5. ConnInv(c)'
        BY <4>3, <4>4 DEF ConnInv, Untried
      <4> QED
        BY <1>1, <3>3, <4>1, <4>2, <4>3, <4>5 DEF ConnTypes
    <3>4. CASE /\ mem' = [mem EXCEPT ![c] = {}]
               /\ C!Calls(c, "NOMEM")
               /\ job' = [job EXCEPT ![c] = "over"]
               /\ UNCHANGED addrs
      <4>1. result' = [result EXCEPT ![c] = <<"NOMEM">>]
        <5>1. Append(<<>>, "NOMEM") = <<"NOMEM">>
          OBVIOUS
        <5> QED
          BY <1>1, <3>4, <5>1 DEF C!Calls
      <4>2. <<"NOMEM">> \in Seq({"OK", "NOMEM", "TIMEDOUT", "NOTFOUND"})
        OBVIOUS
      <4>3. ConnTypes'
        BY <1>1, <1>2, <3>2, <3>4, <4>1, <4>2 DEF ConnTypes
      <4>4. Others(c)
        BY <1>1, <1>2, <3>2, <3>4, <4>1 DEF Others, ConnTypes
      <4>5. /\ job'[c] = "over" /\ mem'[c] = {} /\ ctimer'[c] = "none" /\ kernel'[c] = "none" /\ result'[c] = <<"NOMEM">>
            /\ c \notin watched' /\ InOrder(tried'[c], addrs'[c])
        BY <1>1, <1>2, <3>4, <4>1 DEF ConnTypes, ConnInv
      <4>6. Len(<<"NOMEM">>) = 1 /\ <<"NOMEM">> # <<"OK">> /\ <<"NOMEM">> # <<"NOTFOUND">>
        OBVIOUS
      <4>7. ConnInv(c)'
        BY <4>5, <4>6 DEF ConnInv
      <4> QED
        BY <1>1, <3>4, <4>3, <4>4, <4>5, <4>7 DEF ConnTypes
    <3> QED
      BY <3>1, <3>3, <3>4
  <2> QED
    BY <2>1, <2>2
<1>4. ConnsInv'
  BY <1>3, OneConnect DEF SettledInv
<1>5. AcceptsInv'
  BY <1>2, AcceptsAlone DEF SettledInv
<1>6. LoopShape'
  <2>1. c \notin todo
    <3>1. CASE C!ConnectWorker(c)
      BY <3>1 DEF C!ConnectWorker, SettledInv, LoopShape
    <3>2. CASE C!ConnectAsync(c, "none") \/ C!ConnectAsync(c, "running")
      BY <3>2 DEF C!ConnectAsync, SettledInv, LoopShape
    <3> QED
      BY <3>1, <3>2
  <2> QED
    BY <1>2, <1>3, <2>1 DEF SettledInv, LoopShape
<1> QED
  BY <1>4, <1>5, <1>6 DEF SettledInv

(* The peer answers, or time passes.                                        *)
LEMMA SettledWorld ==
  ASSUME SettledInv, NEW c \in Conns, C!KernelDecides(c) \/ C!DeadlinePasses(c)
  PROVE  SettledInv'
<1>1. ConnInv(c) /\ ConnTypes
  BY FreshConnect DEF SettledInv
<1>2. UNCHANGED <<job, mem, addrs, tried, ctimer, result, C!acceptVars, watched, cbatch, todo, cpc>>
      /\ cedge \subseteq cedge' /\ cedge' \subseteq cedge \cup ({c} \cap watched)
      /\ \/ UNCHANGED deadline /\ kernel[c] = "connecting" /\ \E k \in {"connected", "failed"} : kernel' = [kernel EXCEPT ![c] = k]
         \/ UNCHANGED kernel /\ deadline[c] = "running" /\ deadline' = [deadline EXCEPT ![c] = "passed"]
  BY DEF C!KernelDecides, C!DeadlinePasses, C!loopVars
<1>3. ConnTypes'
  <2>1. kernel' \in [Conns -> {"none", "connecting", "connected", "failed", "given"}]
    BY <1>1, <1>2 DEF ConnTypes
  <2>2. deadline' \in [Conns -> {"none", "running", "passed"}]
    BY <1>1, <1>2 DEF ConnTypes
  <2> QED
    BY <1>1, <1>2, <2>1, <2>2 DEF ConnTypes
<1>4. Others(c)
  BY <1>1, <1>2 DEF Others, ConnTypes
<1>5. (kernel'[c] = "given" <=> kernel[c] = "given") /\ (kernel'[c] = "none" <=> kernel[c] = "none")
      /\ (deadline'[c] = "none" <=> deadline[c] = "none")
  <2>1. CASE UNCHANGED deadline /\ kernel[c] = "connecting"
             /\ \E k \in {"connected", "failed"} : kernel' = [kernel EXCEPT ![c] = k]
    <3>1. kernel'[c] \in {"connected", "failed"} /\ kernel[c] = "connecting" /\ UNCHANGED deadline
      BY <1>1, <2>1 DEF ConnTypes
    <3> QED
      BY <3>1
  <2>2. CASE UNCHANGED kernel /\ deadline[c] = "running" /\ deadline' = [deadline EXCEPT ![c] = "passed"]
    <3>1. c \in DOMAIN deadline /\ deadline[c] = "running" /\ UNCHANGED kernel
      BY <1>1, <2>2 DEF ConnTypes
    <3>2. deadline'[c] = "passed"
      BY <2>2, <3>1
    <3> QED
      BY <3>1, <3>2
  <2> QED
    BY <1>2, <2>1, <2>2
<1>6. ConnInv(c)'
  BY <1>1, <1>2, <1>5 DEF ConnInv, Untried
<1>7. ConnsInv'
  BY <1>3, <1>4, <1>6, OneConnect DEF SettledInv
<1>8. AcceptsInv'
  BY <1>2, AcceptsAlone DEF SettledInv
<1>9. LoopShape'
  BY <1>2 DEF SettledInv, LoopShape
<1> QED
  BY <1>7, <1>8, <1>9 DEF SettledInv
(* The loop's tasks and timers.                                             *)
LEMMA SettledTask ==
  ASSUME SettledInv, NEW c \in Conns, C!ConnectResolved(c) \/ C!OnTimeout(c)
  PROVE  SettledInv'
<1>1. /\ ConnsInv /\ ConnTypes /\ ConnInv(c) /\ addrs[c] \in 0..MaxAddr /\ todo \subseteq {x \in Conns : job[x] = "posted"}
      /\ cbatch \in Seq(Conns \cup Accepts)
      /\ tried \in [Conns -> Seq(1..MaxAddr)] /\ InOrder(tried[c], addrs[c])
  BY FreshConnect DEF SettledInv, LoopShape, ConnTypes, ConnInv
<1>2. UNCHANGED <<addrs, deadline, C!acceptVars, cbatch, cpc>>
  BY DEF C!ConnectResolved, C!OnTimeout
<1>3. CASE C!OnTimeout(c)
  <2>1. C!Finish(c, "TIMEDOUT") /\ ctimer[c] = "due" /\ UNCHANGED <<tried, todo>>
    BY <1>3 DEF C!OnTimeout
  <2>2. job[c] = "waiting" /\ result[c] = <<>>
    BY <1>1, <2>1 DEF ConnInv, Untried
  <2>3. Served(c)
    BY <1>1, <1>2, <2>1, <2>2, FinishServes
  <2>4. todo' \subseteq todo \ {c} /\ cbatch' \in Seq(Conns \cup Accepts)
    BY <1>1, <1>2, <2>1, <2>2
  <2> QED
    BY <1>2, <2>3, <2>4, SettledServed
<1>4. CASE C!ConnectResolved(c)
  <2>1. c \in todo /\ todo' = todo \ {c} /\ job[c] = "posted"
    BY <1>1, <1>4 DEF C!ConnectResolved
  <2>2. result[c] = <<>> /\ tried[c] = <<>> /\ ("ai" \in mem[c] <=> addrs[c] > 0)
    BY <1>1, <2>1 DEF ConnInv, Untried
  <2>3. \/ C!Finish(c, "TIMEDOUT") /\ UNCHANGED tried
        \/ "ai" \notin mem[c] /\ C!Finish(c, "NOTFOUND") /\ UNCHANGED tried
        \/ C!Finish(c, "NOMEM") /\ UNCHANGED tried
        \/ C!TryNext(c, C!NextAddress(c))
    BY <1>4 DEF C!ConnectResolved
  <2>4. Served(c)
    <3>1. ASSUME NEW e \in {"OK", "NOMEM", "TIMEDOUT", "NOTFOUND"}, C!Finish(c, e), UNCHANGED tried,
                 e = "NOTFOUND" => "ai" \notin mem[c]
          PROVE  Served(c)
      <4>1. e = "NOTFOUND" => Len(tried'[c]) = addrs[c]
        BY <1>1, <2>2, <3>1
      <4> QED
        BY <1>1, <1>2, <2>2, <3>1, <4>1, FinishServes
    <3>2. CASE C!TryNext(c, C!NextAddress(c))
      BY <1>1, <1>2, <2>1, <3>2, WalkServes
    <3> QED
      BY <2>3, <3>1, <3>2
  <2> QED
    BY <1>1, <1>2, <2>1, <2>4, SettledServed
<1> QED
  BY <1>3, <1>4

(* An instance has its own copies of the library's operators.               *)
LEMMA SameOperators ==
  ASSUME NEW S
  PROVE  (C!IsFiniteSet(S) <=> IsFiniteSet(S)) /\ C!SetToSeqs(S) = SetToSeqs(S)
<1>1. C!Cardinality(S) = Cardinality(S)
  BY DEF C!Cardinality, Cardinality
<1> QED
  BY <1>1 DEF C!IsFiniteSet, IsFiniteSet, C!SetToSeqs, SetToSeqs, C!IsInjective, IsInjective

(* The loop's rounds.                                                       *)
LEMMA SeqsOf ==
  ASSUME NEW S, IsFiniteSet(S), NEW b \in SetToSeqs(S)
  PROVE  b \in Seq(S)
<1>1. Cardinality(S) \in Nat
  BY FS_CardinalityType
<1>2. b \in [1..Cardinality(S) -> S]
  BY DEF SetToSeqs
<1> QED
  BY <1>1, <1>2

LEMMA SettledRound ==
  ASSUME SettledInv, C!WaitEvents \/ C!RunTasks \/ C!CollectDue \/ C!NextRound
  PROVE  SettledInv'
<1>1. UNCHANGED <<job, mem, addrs, tried, kernel, deadline, result, C!acceptVars, watched>>
      /\ cpc \notin {"accepting", "callback"} /\ cpc' \in {"wait", "events", "tasks", "timers"}
  BY DEF C!WaitEvents, C!RunTasks, C!CollectDue, C!NextRound, C!connVars
<1>2. AcceptsInv'
  BY <1>1, AcceptsAlone DEF SettledInv
<1>3. ConnsInv'
  <2>1. CASE UNCHANGED ctimer
    <3>1. UNCHANGED C!connVars /\ watched' \cap Conns = watched \cap Conns
      BY <1>1, <2>1 DEF C!connVars
    <3> QED
      BY <3>1, ConnectsAlone DEF SettledInv
  <2>2. CASE C!CollectDue
    <3>1. ctimer' = [c \in Conns |-> IF ctimer[c] = "armed" /\ deadline[c] = "passed" THEN "due" ELSE ctimer[c]]
      BY <2>2 DEF C!CollectDue
    <3>2. ConnTypes'
      BY <1>1, <3>1 DEF SettledInv, ConnsInv, ConnTypes
    <3>3. ASSUME NEW c \in Conns PROVE ConnInv(c)'
      <4>1. ConnInv(c)
        BY DEF SettledInv, ConnsInv
      <4>2. (ctimer'[c] \in {"armed", "due"} <=> ctimer[c] \in {"armed", "due"}) /\ (ctimer[c] = "none" => ctimer'[c] = "none")
        BY <3>1
      <4> QED
        BY <1>1, <4>1, <4>2 DEF ConnInv, Untried
    <3> QED
      BY <3>2, <3>3 DEF ConnsInv
  <2> QED
    BY <2>1, <2>2 DEF C!WaitEvents, C!RunTasks, C!NextRound, C!connVars
<1>4. LoopShape'
  <2>1. cedge' \subseteq watched' /\ todo' \subseteq {c \in Conns : job'[c] = "posted"}
    BY <1>1 DEF C!WaitEvents, C!RunTasks, C!CollectDue, C!NextRound, SettledInv, LoopShape
  <2>2. cbatch' \in Seq(Conns \cup Accepts)
    <3>1. CASE C!WaitEvents
      <4>1. cbatch' \in SetToSeqs(cedge) /\ cedge \subseteq Conns \cup Accepts
        BY <3>1, SameOperators DEF C!WaitEvents, SettledInv, LoopShape
      <4>2. IsFiniteSet(Conns \cup Accepts)
        BY FS_Union, SameOperators, ConnectionsAssumption DEF C!ConnectionsAssumption
      <4>3. IsFiniteSet(cedge)
        BY <4>1, <4>2, FS_Subset
      <4>4. cbatch' \in Seq(cedge)
        BY <4>1, <4>3, SeqsOf
      <4> QED
        BY <4>1, <4>4, SeqMonotonic
    <3>2. CASE UNCHANGED cbatch
      BY <3>2 DEF SettledInv, LoopShape
    <3> QED
      BY <3>1, <3>2 DEF C!RunTasks, C!CollectDue, C!NextRound
  <2> QED
    BY <1>1, <2>1, <2>2 DEF SettledInv, LoopShape
<1> QED
  BY <1>2, <1>3, <1>4 DEF SettledInv

LEMMA SettledDispatch ==
  ASSUME SettledInv, C!Dispatch
  PROVE  SettledInv'
<1> DEFINE w == Head(cbatch)
<1>1. cpc = "events" /\ cbatch # <<>> /\ cbatch' = Tail(cbatch) /\ UNCHANGED todo
  BY DEF C!Dispatch
<1>2. w \in Conns \cup Accepts /\ cbatch' \in Seq(Conns \cup Accepts)
  BY <1>1, HeadTailProperties DEF SettledInv, LoopShape
<1>3. \/ UNCHANGED <<C!connVars, C!acceptVars, watched, cedge, cpc>>
      \/ /\ w \in watched /\ w \in Accepts /\ cpc' = "accepting" /\ cur' = w
         /\ UNCHANGED <<C!connVars, lst, acc, backlog, peers, failures, stale, inside, misuse, watched, cedge>>
      \/ /\ w \in watched /\ w \in Conns /\ C!OnWritable(w)
         /\ UNCHANGED <<addrs, deadline, C!acceptVars, cpc>>
  BY DEF C!Dispatch, C!Handles
<1> HIDE DEF w
<1>4. CASE UNCHANGED <<C!connVars, C!acceptVars, watched, cedge, cpc>>
  <2>1. ConnsInv' /\ AcceptsInv'
    BY <1>4, ConnectsAlone, AcceptsAlone DEF SettledInv
  <2>2. LoopShape'
    BY <1>1, <1>2, <1>4 DEF SettledInv, LoopShape, C!connVars
  <2> QED
    BY <2>1, <2>2 DEF SettledInv
<1>5. CASE /\ w \in watched /\ w \in Accepts /\ cpc' = "accepting" /\ cur' = w
           /\ UNCHANGED <<C!connVars, lst, acc, backlog, peers, failures, stale, inside, misuse, watched, cedge>>
  <2>1. ConnsInv'
    BY <1>5, ConnectsAlone DEF SettledInv
  <2>2. w # None /\ acc[w] = "active"
    BY <1>5, ConnectionsAssumption DEF SettledInv, AcceptsInv, C!ConnectionsAssumption
  <2>3. AcceptsInv'
    BY <1>5, <2>2 DEF SettledInv, AcceptsInv, AcceptTypes
  <2>4. LoopShape'
    BY <1>1, <1>2, <1>5 DEF SettledInv, LoopShape, C!connVars
  <2> QED
    BY <2>1, <2>3, <2>4 DEF SettledInv
<1>6. CASE /\ w \in watched /\ w \in Conns /\ C!OnWritable(w)
           /\ UNCHANGED <<addrs, deadline, C!acceptVars, cpc>>
  <2>1. ConnsInv /\ ConnTypes /\ ConnInv(w) /\ job[w] = "waiting" /\ result[w] = <<>>
        /\ tried \in [Conns -> Seq(1..MaxAddr)] /\ InOrder(tried[w], addrs[w])
    BY <1>6, FreshConnect DEF SettledInv, ConnTypes, ConnInv
  <2>2. Served(w)
    <3>1. CASE C!Finish(w, "OK") /\ UNCHANGED tried
      BY <1>6, <2>1, <3>1, FinishServes
    <3>2. CASE C!TryNext(w, C!NextAddress(w))
      BY <1>6, <2>1, <3>2, WalkServes
    <3> QED
      BY <1>6, <3>1, <3>2 DEF C!OnWritable
  <2>3. todo' \subseteq todo \ {w}
    BY <1>1, <2>1 DEF SettledInv, LoopShape
  <2> QED
    BY <1>2, <1>6, <2>2, <2>3, SettledServed
<1> QED
  BY <1>3, <1>4, <1>5, <1>6

(* The listener and its accepts.                                            *)
LEMMA SettledAccept ==
  ASSUME SettledInv,
         \/ C!Listen \/ C!ListenerClose \/ C!PeerConnects \/ C!AcceptOne \/ C!CallbackReturns
         \/ \E a \in Accepts : C!AcceptStart(a) \/ C!AcceptCancel(a)
  PROVE  SettledInv'
<1>1. UNCHANGED <<C!connVars, cbatch, todo>>
  BY DEF C!Listen, C!ListenerClose, C!PeerConnects, C!AcceptOne, C!CallbackReturns, C!AcceptStart, C!AcceptCancel, C!loopVars
<1>2. watched' \cap Conns = watched \cap Conns /\ watched' \subseteq Conns \cup Accepts /\ cedge' \subseteq watched'
      /\ cpc' \in {"wait", "events", "tasks", "timers", "accepting", "callback", "crashed"}
  BY ConnectionsAssumption DEF C!Listen, C!ListenerClose, C!PeerConnects, C!AcceptOne, C!CallbackReturns, C!AcceptStart, C!AcceptCancel, C!loopVars,
         C!Listening, SettledInv, LoopShape, C!ConnectionsAssumption
<1>3. ConnsInv'
  BY <1>1, <1>2, ConnectsAlone DEF SettledInv
<1>4. LoopShape'
  BY <1>1, <1>2 DEF SettledInv, LoopShape, C!connVars
<1>5. AcceptsInv'
  <2> USE ConnectionsAssumption DEF SettledInv, AcceptsInv, AcceptTypes, C!ConnectionsAssumption, C!connVars, C!loopVars, C!acceptVars
  <2>1. CASE C!Listen
    BY <2>1 DEF C!Listen
  <2>2. CASE C!ListenerClose
    BY <2>2 DEF C!ListenerClose
  <2>3. CASE C!PeerConnects
    <3>1. peers' = peers + 1 /\ backlog' = backlog + 1 /\ peers < MaxPeers /\ stale' = FALSE
          /\ UNCHANGED <<lst, acc, failures, inside, misuse, cur, watched, cpc>>
      BY <2>3 DEF C!PeerConnects
    <3>2. backlog' \in 0..MaxPeers /\ peers' \in 0..MaxPeers /\ backlog' <= peers'
      BY <3>1
    <3> QED
      BY <3>1, <3>2
  <2>4. CASE C!AcceptOne
    <3>1. /\ cpc = "accepting" /\ misuse' = (misuse \/ acc[cur] = "freed")
          /\ UNCHANGED <<lst, acc, peers, inside, watched>>
          /\ \/ backlog > 0 /\ backlog' = backlog - 1 /\ cpc' = "callback" /\ UNCHANGED <<failures, stale, cur>>
             \/ backlog = 0 /\ cpc' = "events" /\ cur' = None /\ UNCHANGED <<backlog, failures, stale>>
             \/ /\ failures < MaxFailures
                /\ failures' = failures + 1 /\ stale' = TRUE
                /\ cpc' = "events" /\ cur' = None /\ UNCHANGED backlog
             \/ cpc' = "crashed" /\ cur' = None /\ UNCHANGED <<backlog, failures, stale>>
      BY <2>4 DEF C!AcceptOne
    <3>2. backlog' \in 0..MaxPeers /\ backlog' <= peers' /\ failures' \in 0..MaxFailures /\ stale' \in BOOLEAN
      <4>1. backlog \in 0..MaxPeers /\ peers \in 0..MaxPeers /\ backlog <= peers /\ failures \in 0..MaxFailures
            /\ stale \in BOOLEAN /\ peers' = peers
        BY <3>1
      <4>2. backlog' \in 0..MaxPeers /\ backlog' <= peers'
        <5>1. backlog' = backlog \/ (backlog > 0 /\ backlog' = backlog - 1)
          BY <3>1
        <5> QED
          BY <4>1, <5>1
      <4>3. failures' \in 0..MaxFailures
        <5>1. failures' = failures \/ (failures < MaxFailures /\ failures' = failures + 1)
          BY <3>1
        <5> QED
          BY <4>1, <5>1
      <4>4. stale' \in BOOLEAN
        BY <3>1, <4>1
      <4> QED
        BY <4>2, <4>3, <4>4
    <3>5. misuse' \in BOOLEAN
      <4>1. misuse' = (misuse \/ acc[cur] = "freed")
        BY <3>1
      <4> QED
        BY <4>1, Zenon
    <3>3. cur' \in {cur, None} /\ (cur' # None <=> cpc' \in {"accepting", "callback"})
      BY <3>1
    <3>4. ~inside' => misuse' = FALSE /\ (cur' # None => acc'[cur'] = "active")
      BY <3>1, <3>3
    <3> QED
      BY <3>1, <3>2, <3>3, <3>4, <3>5
  <2>5. CASE C!CallbackReturns
    BY <2>5 DEF C!CallbackReturns
  <2>6. ASSUME NEW a \in Accepts, C!AcceptStart(a) PROVE AcceptsInv'
    BY <2>6 DEF C!AcceptStart
  <2>7. ASSUME NEW a \in Accepts, C!AcceptCancel(a) PROVE AcceptsInv'
    BY <2>7 DEF C!AcceptCancel
  <2> QED
    BY <2>1, <2>2, <2>3, <2>4, <2>5, <2>6, <2>7
<1> QED
  BY <1>3, <1>4, <1>5 DEF SettledInv
-----------------------------------------------------------------------------
LEMMA SettledBegins == C!Init => SettledInv
<1> SUFFICES ASSUME C!Init PROVE SettledInv
  OBVIOUS
<1>1. ConnTypes
  <2>1. <<>> \in Seq(1..MaxAddr) /\ <<>> \in Seq({"OK", "NOMEM", "TIMEDOUT", "NOTFOUND"})
    OBVIOUS
  <2>2. 0 \in 0..MaxAddr
    BY ConnectionsAssumption DEF C!ConnectionsAssumption
  <2> QED
    BY <2>1, <2>2 DEF C!Init, ConnTypes
<1>2. ASSUME NEW c \in Conns PROVE ConnInv(c)
  <2>1. /\ job[c] = "none" /\ addrs[c] = 0 /\ tried[c] = <<>> /\ kernel[c] = "none" /\ ctimer[c] = "none"
        /\ result[c] = <<>> /\ watched = {}
    BY DEF C!Init
  <2>2. InOrder(<<>>, 0) /\ <<>> # <<"NOTFOUND">>
    BY DEF InOrder
  <2> QED
    BY <2>1, <2>2 DEF ConnInv, Untried
<1>3. AcceptsInv
  <2>1. 0 \in 0..MaxPeers /\ 0 \in 0..MaxFailures
    BY ConnectionsAssumption DEF C!ConnectionsAssumption
  <2>2. acc \in [Accepts -> {"idle", "refused", "active", "freed"}] /\ lst \in {"none", "open", "closed"}
    BY DEF C!Init
  <2>3. /\ backlog = 0 /\ peers = 0 /\ failures = 0 /\ stale = FALSE /\ inside = FALSE /\ misuse = FALSE /\ cur = None
        /\ watched = {} /\ cpc = "tasks"
    BY DEF C!Init
  <2>4. AcceptTypes
    BY <2>1, <2>2, <2>3 DEF AcceptTypes
  <2> QED
    BY <2>3, <2>4 DEF AcceptsInv
<1>4. LoopShape
  <2>1. <<>> \in Seq(Conns \cup Accepts)
    OBVIOUS
  <2> QED
    BY <2>1 DEF C!Init, LoopShape
<1> QED
  BY <1>1, <1>2, <1>3, <1>4 DEF SettledInv, ConnsInv

LEMMA SettledInductive == SettledInv /\ [C!Next]_C!vars => SettledInv'
<1> SUFFICES ASSUME SettledInv, [C!Next]_C!vars PROVE SettledInv'
  OBVIOUS
<1>1. ASSUME NEW c \in Conns, C!ConnectAsync(c, "none") \/ C!ConnectAsync(c, "running") \/ C!ConnectWorker(c)
      PROVE  SettledInv'
  <2>1. job[c] \notin {"waiting", "over"}
    BY <1>1 DEF C!ConnectAsync, C!ConnectWorker
  <2> QED
    BY <1>1, <2>1, SettledEarly
<1>2. ASSUME NEW c \in Conns, C!KernelDecides(c) \/ C!DeadlinePasses(c) PROVE SettledInv'
  BY <1>2, SettledWorld
<1>3. ASSUME NEW c \in Conns, C!ConnectResolved(c) \/ C!OnTimeout(c) PROVE SettledInv'
  BY <1>3, SettledTask
<1>4. CASE C!WaitEvents \/ C!RunTasks \/ C!CollectDue \/ C!NextRound
  BY <1>4, SettledRound
<1>5. CASE C!Dispatch
  BY <1>5, SettledDispatch
<1>6. CASE \/ C!Listen \/ C!ListenerClose \/ C!PeerConnects \/ C!AcceptOne \/ C!CallbackReturns
           \/ \E a \in Accepts : C!AcceptStart(a) \/ C!AcceptCancel(a)
  BY <1>6, SettledAccept
<1>7. CASE UNCHANGED C!vars
  <2>1. UNCHANGED <<C!connVars, C!acceptVars, watched, cedge, cbatch, todo, cpc>>
    BY <1>7 DEF C!vars, C!loopVars
  <2>2. ConnsInv' /\ AcceptsInv'
    BY <2>1, ConnectsAlone, AcceptsAlone DEF SettledInv
  <2>3. LoopShape'
    BY <2>1 DEF SettledInv, LoopShape, C!connVars
  <2> QED
    BY <2>2, <2>3 DEF SettledInv
<1> QED
  BY <1>1, <1>2, <1>3, <1>4, <1>5, <1>6, <1>7 DEF C!Next, C!LoopStep

(* What the invariant says of connects and of accepts.                      *)
LEMMA SettledPromised ==
  ASSUME SettledInv
  PROVE  C!ConnectTidy /\ C!StaleAcceptsSkipped
<1>1. C!TypeOK
  BY DEF SettledInv, ConnsInv, AcceptsInv, LoopShape, ConnTypes, AcceptTypes, C!TypeOK
<1>2. ASSUME NEW c \in Conns
      PROVE  /\ Len(result[c]) = (IF job[c] = "over" THEN 1 ELSE 0)
             /\ job[c] = "over" => /\ mem[c] = {} /\ ctimer[c] \notin {"armed", "due"}
                                   /\ (kernel[c] = "given") = (result[c] = <<"OK">>)
             /\ job[c] = "waiting" <=> c \in watched
             /\ job[c] = "waiting" => (ctimer[c] \in {"armed", "due"} <=> deadline[c] # "none")
             /\ \A k \in DOMAIN tried[c] : tried[c][k] = k
             /\ result[c] = <<"NOTFOUND">> => Len(tried[c]) = addrs[c]
  <2>1. ConnInv(c) /\ Len(<<>>) = 0
    BY DEF SettledInv, ConnsInv
  <2>2. Len(result[c]) = (IF job[c] = "over" THEN 1 ELSE 0)
    BY <2>1 DEF ConnInv, Untried
  <2> QED
    BY <2>1, <2>2 DEF ConnInv, InOrder
<1>3. C!StaleAcceptsSkipped
  BY DEF SettledInv, AcceptsInv, C!StaleAcceptsSkipped
<1> QED
  BY <1>1, <1>2, <1>3 DEF C!ConnectTidy

(* A connect calls back once, and then the loop has nothing of it left; it  *)
(* tries the addresses in their order.  An accept may be cancelled from     *)
(* anywhere.                                                                *)
THEOREM ConnectsEndTidily == C!Spec => []C!ConnectTidy
<1>1. C!Init => SettledInv
  BY SettledBegins
<1>2. SettledInv /\ [C!Next]_C!vars => SettledInv'
  BY SettledInductive
<1>3. SettledInv => C!ConnectTidy
  BY SettledPromised
<1> QED
  BY <1>1, <1>2, <1>3, PTL DEF C!Spec

(* Whatever the callbacks of connects, accepts and tasks cancel while an    *)
(* event of the round still names it, a handler comes to use an accept that *)
(* was freed in one way only: its own callback has cancelled it.            *)
THEOREM StaleAcceptsAreSkipped == C!Spec => []C!StaleAcceptsSkipped
<1>1. C!Init => SettledInv
  BY SettledBegins
<1>2. SettledInv /\ [C!Next]_C!vars => SettledInv'
  BY SettledInductive
<1>3. SettledInv => C!StaleAcceptsSkipped
  BY SettledPromised
<1> QED
  BY <1>1, <1>2, <1>3, PTL DEF C!Spec
-----------------------------------------------------------------------------
(* All of it in the specification the runs explore, where connecting and    *)
(* accepting go beside the transfers: neither disturbs what the other has   *)
(* set up, connects end tidily and stale events of accepts are skipped,     *)
(* nothing points to an operation that is over, and every byte is accounted *)
(* for and in order.  Nothing is assumed of what the callbacks do.          *)
THEOREM SocketsTidy ==
  SockSpec => [](NothingDangles /\ BytesAccounted /\ StreamInOrder /\ ConnectionsTidy)
<1>1. SockInit => IInv /\ SettledInv
  BY Begins, SettledBegins DEF SockInit
<1>2. IInv /\ [SockNext]_both => IInv'
  BY Inductive DEF SockNext, both, ConnsAtRest, OpsAtRest
<1>3. SettledInv /\ [SockNext]_both => SettledInv'
  <2>1. SettledInv /\ C!Next => SettledInv'
    BY SettledInductive
  <2>2. SettledInv /\ UNCHANGED conns => SettledInv'
    <3>1. UNCHANGED conns => UNCHANGED C!vars
      BY DEF conns, C!vars, C!connVars, C!acceptVars, C!loopVars
    <3> QED
      BY <3>1, SettledInductive
  <2> QED
    BY <2>1, <2>2 DEF SockNext, both, ConnsAtRest, OpsAtRest
<1>4. IInv => NothingDangles /\ BytesAccounted /\ StreamInOrder
  BY Promised
<1>5. SettledInv => ConnectionsTidy
  BY SettledPromised DEF ConnectionsTidy, C!ConnectionsTidy
<1> QED
  BY <1>1, <1>2, <1>3, <1>4, <1>5, PTL DEF SockSpec
=============================================================================
