------------------------------- MODULE TuaMap -------------------------------
(***************************************************************************)
(* tua_map.c: the open-addressed table behind map<K,V>, with linear         *)
(* probing, tombstones, rehashing and an index for for-in loops, and the    *)
(* references it takes on the strings it stores (tua_str.c).                *)
(*                                                                         *)
(* A string object s has the text Text[s]; the program holds references to  *)
(* it besides the map's.  A key is an integer or a text, and Hash gives its *)
(* full hash; the table uses it modulo its capacity.  Literals, which are   *)
(* not counted, are left out; Nil stands for every value that is no string. *)
(***************************************************************************)
EXTENDS Integers, FiniteSetsExt

CONSTANTS IntKeys,  \* integer keys
          Strs,     \* string objects
          Text,     \* the text of each
          Hash,     \* hash_i64 of an integer key, tua_str_hash32 of a text
          Nil,      \* null
          Absent,   \* stands for the value of a key that is not there
          Cap0,     \* capacity of a new table: 16 in the code
          MaxHeld   \* bound on the references the program holds to a string

Keys == IntKeys \cup {Text[s] : s \in Strs}

ASSUME MapAssumption == /\ Cap0 \in Nat \ {0, 1} /\ MaxHeld \in Nat
                        /\ Hash \in [Keys -> Nat] /\ IntKeys \cap Strs = {}
                        /\ Nil \notin Strs /\ Absent \notin Strs \cup {Nil}

VARIABLES entries,        \* slots 0..capacity-1
          count, tombstones,
          rc,             \* reference count of each string, 0 once freed
          held,           \* the program's share of it
          index,          \* the position of a for-in loop
          looping, seen   \* there is one, and the keys it has been given

tableVars == <<entries, count, tombstones>>
loopVars == <<index, looping, seen>>
mapVars == <<tableVars, rc, held, loopVars>>

Empty == [kind |-> "empty", key |-> Nil, val |-> Nil]
Tombstone == [kind |-> "tombstone", key |-> Nil, val |-> Nil]
NewTable(capacity) == [i \in 0..(capacity - 1) |-> Empty]
Capacity(table) == Cardinality(DOMAIN table)

(* tua_map_free has not been called; the empty table stands for no map.    *)
Exists == DOMAIN entries # {}

KeyOf(a) == IF a \in Strs THEN Text[a] ELSE a
Holds(e, k) == e.kind = "full" /\ KeyOf(e.key) = k

MapInit == /\ entries = NewTable(Cap0) /\ count = 0 /\ tombstones = 0
           /\ rc = [s \in Strs |-> 0] /\ held = [s \in Strs |-> 0]
           /\ index = 0 /\ looping = FALSE /\ seen = {}
-----------------------------------------------------------------------------
(* find_slot goes from the key's home to the key or to the first empty slot.*)
Probe(table, k, n) == (Hash[k] + n) % Capacity(table)
Stops(table, k) == {n \in 0..(Capacity(table) - 1) :
                      LET e == table[Probe(table, k, n)] IN e.kind = "empty" \/ Holds(e, k)}
FindSlot(table, k) == Probe(table, k, Min(Stops(table, k)))
Found(table, k) == Stops(table, k) # {} /\ Holds(table[FindSlot(table, k)], k)

(* find_slot_for_insert: the first tombstone it met on the way, if the key  *)
(* is not there.                                                            *)
FirstTombstone(table, k) ==
  LET met == {n \in 0..(Capacity(table) - 1) : table[Probe(table, k, n)].kind = "tombstone"}
  IN IF met = {} THEN FindSlot(table, k) ELSE Probe(table, k, Min(met))

FindSlotForInsert(table, k) ==
  LET n == Min(Stops(table, k))
      met == {m \in 0..(n - 1) : table[Probe(table, k, m)].kind = "tombstone"}
  IN IF Holds(table[Probe(table, k, n)], k) \/ met = {} THEN Probe(table, k, n)
     ELSE Probe(table, k, Min(met))

(* map_rehash puts the entries into a new table in the order of the old.    *)
Rehashed(table, capacity) ==
  LET placed[i \in 0..Capacity(table)] ==
        IF i = 0 THEN NewTable(capacity)
        ELSE LET e == table[i - 1] p == placed[i - 1]
             IN IF e.kind = "full" THEN [p EXCEPT ![FindSlotForInsert(p, KeyOf(e.key))] = e] ELSE p
  IN placed[Capacity(table)]

(* ensure_capacity counts tombstones as used: a probe needs an empty slot.  *)
CrowdedLive == (count + 1) * 4 >= Capacity(entries) * 3
Crowded == (count + tombstones + 1) * 4 >= Capacity(entries) * 3

Ensured == IF ~Crowded THEN entries
           ELSE IF tombstones > count THEN Rehashed(entries, Capacity(entries))
           ELSE Rehashed(entries, Capacity(entries) * 2)

(* tua_str_retain and tua_str_release, which know only registered strings.  *)
Retain(refs, s) == IF s \in Strs /\ refs[s] > 0 THEN [refs EXCEPT ![s] = @ + 1] ELSE refs
Release(refs, s) == IF s \in Strs /\ refs[s] > 0 THEN [refs EXCEPT ![s] = @ - 1] ELSE refs
-----------------------------------------------------------------------------
(* The program's strings.                                                   *)
NewString(s) == /\ rc[s] = 0 /\ MaxHeld > 0
                /\ rc' = [rc EXCEPT ![s] = 1] /\ held' = [held EXCEPT ![s] = 1]
                /\ UNCHANGED <<tableVars, loopVars>>

DropString(s) == /\ held[s] > 0
                 /\ rc' = Release(rc, s) /\ held' = [held EXCEPT ![s] = @ - 1]
                 /\ UNCHANGED <<tableVars, loopVars>>

(* What the program can name in a call.                                     *)
Named == IntKeys \cup {s \in Strs : held[s] > 0}

(* tua_map_get, whose result tua_value_to_string retains.                   *)
Get(a) == /\ Exists /\ Found(entries, KeyOf(a))
          /\ LET v == entries[FindSlot(entries, KeyOf(a))].val
             IN /\ v \in Strs /\ held[v] < MaxHeld
                /\ rc' = Retain(rc, v) /\ held' = [held EXCEPT ![v] = @ + 1]
          /\ UNCHANGED <<tableVars, loopVars>>

(* A loop ends, or an assignment has moved or added entries behind its      *)
(* back: docs/SPEC.md leaves it undefined from there.                       *)
LoopIsOver == looping' = FALSE /\ index' = 0 /\ seen' = {}

(* tua_map_set: make room, find the slot, keep the old key if there is one, *)
(* and release the old value before the new one is retained.                *)
Set(a, v) ==
  /\ Exists
  /\ LET k == KeyOf(a)
         slot == FindSlotForInsert(Ensured, k)
         e == Ensured[slot]
         isNew == ~Holds(e, k)
         keyed == IF isNew THEN Retain(rc, a) ELSE rc
     IN /\ Stops(Ensured, k) # {}
        /\ entries' = [Ensured EXCEPT ![slot] =
                         [kind |-> "full", key |-> IF isNew THEN a ELSE e.key, val |-> v]]
        /\ count' = IF isNew THEN count + 1 ELSE count
        /\ tombstones' = (IF Crowded THEN 0 ELSE tombstones) - (IF isNew /\ e.kind = "tombstone" THEN 1 ELSE 0)
        /\ rc' = Retain(Release(keyed, e.val), v)
        /\ IF isNew \/ Crowded THEN LoopIsOver ELSE UNCHANGED loopVars
  /\ UNCHANGED held

(* tua_map_delete                                                           *)
DeleteKeepsKey(a) == /\ Exists /\ Found(entries, KeyOf(a))
                     /\ LET slot == FindSlot(entries, KeyOf(a))
                        IN /\ rc' = Release(rc, entries[slot].val)
                           /\ entries' = [entries EXCEPT ![slot] = Tombstone]
                     /\ count' = count - 1 /\ tombstones' = tombstones + 1
                     /\ UNCHANGED <<held, loopVars>>

Delete(a) == /\ Exists /\ Found(entries, KeyOf(a))
             /\ LET slot == FindSlot(entries, KeyOf(a))
                IN /\ rc' = Release(Release(rc, entries[slot].key), entries[slot].val)
                   /\ entries' = [entries EXCEPT ![slot] = Tombstone]
             /\ count' = count - 1 /\ tombstones' = tombstones + 1
             /\ UNCHANGED <<held, loopVars>>

(* References the table holds to s; clear and free release them all.        *)
Uses(s) == Cardinality({i \in DOMAIN entries : entries[i].key = s})
           + Cardinality({i \in DOMAIN entries : entries[i].val = s})
ReleaseAll == rc' = [s \in Strs |-> Max({0, rc[s] - Uses(s)})]

Clear == /\ Exists
         /\ ReleaseAll
         /\ entries' = NewTable(Capacity(entries)) /\ count' = 0 /\ tombstones' = 0
         /\ UNCHANGED <<held, loopVars>>

Free == /\ Exists
        /\ ReleaseAll
        /\ entries' = NewTable(0) /\ count' = 0 /\ tombstones' = 0
        /\ LoopIsOver
        /\ UNCHANGED held

NewMap == /\ ~Exists
          /\ entries' = NewTable(Cap0)
          /\ UNCHANGED <<count, tombstones, rc, held, loopVars>>
-----------------------------------------------------------------------------
(* A for-in loop: llvm_for.c keeps the index, tua_map_iter_next moves it.   *)
Begin == /\ Exists /\ ~looping
         /\ looping' = TRUE
         /\ UNCHANGED <<tableVars, rc, held, index, seen>>

Ahead == {i \in DOMAIN entries : i >= index /\ entries[i].kind = "full"}

IterNext == /\ looping /\ Ahead # {}
            /\ index' = Min(Ahead) + 1
            /\ seen' = seen \cup {KeyOf(entries[Min(Ahead)].key)}
            /\ UNCHANGED <<tableVars, rc, held, looping>>

IterEnd == /\ looping /\ Ahead = {}
           /\ LoopIsOver
           /\ UNCHANGED <<tableVars, rc, held>>

MapNext == \/ \E s \in Strs : NewString(s) \/ DropString(s)
           \/ \E a \in Named : Get(a) \/ Delete(a) \/ \E v \in (Named \cap Strs) \cup {Nil} : Set(a, v)
           \/ Clear \/ Free \/ NewMap
           \/ Begin \/ IterNext \/ IterEnd

MapSpec == MapInit /\ [][MapNext]_mapVars
-----------------------------------------------------------------------------
Slots == [kind : {"empty", "tombstone", "full"}, key : IntKeys \cup Strs \cup {Nil},
          val : Strs \cup {Nil}]

TypeOK == /\ entries \in [0..(Capacity(entries) - 1) -> Slots]
          /\ count = Cardinality({i \in DOMAIN entries : entries[i].kind = "full"})
          /\ tombstones = Cardinality({i \in DOMAIN entries : entries[i].kind = "tombstone"})
          /\ rc \in [Strs -> Nat] /\ held \in [Strs -> 0..MaxHeld]
          /\ index \in Nat /\ looping \in BOOLEAN /\ seen \subseteq Keys

(* Every probe ends, whatever was deleted and inserted before it: no        *)
(* sequence of calls fills the table, and what is stored is what the probe  *)
(* for its key arrives at, so that no key is hidden or stored twice.        *)
ProbesArrive == Exists =>
  /\ \A k \in Keys : Stops(entries, k) # {}
  /\ \A i \in DOMAIN entries : entries[i].kind = "full" =>
       i = FindSlot(entries, KeyOf(entries[i].key))

(* The map's references to its strings are all counted and none is held     *)
(* after its entry is overwritten, deleted or cleared.                      *)
RefsCounted == TypeOK /\ \A s \in Strs : rc[s] = held[s] + Uses(s)
-----------------------------------------------------------------------------
(* What tua_map_get answers.                                                *)
Answer(k) == LET stops == IF Exists THEN Stops(entries, k) ELSE {}
             IN IF stops = {} THEN Absent
                ELSE LET e == entries[Probe(entries, k, Min(stops))]
                     IN IF Holds(e, k) THEN e.val ELSE Absent

Promise == INSTANCE Dictionary WITH
             Values <- Strs \cup {Nil},
             dict <- [k \in Keys |-> Answer(k)]

(* The table answers as a dictionary does, and a loop over it that only     *)
(* deletes or overwrites in place meets every key exactly once.             *)
ImplementsDictionary == Promise!Spec
=============================================================================
