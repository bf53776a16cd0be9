----------------------------- MODULE FsOffload -----------------------------
(***************************************************************************)
(* File operations that run on a pool (rt_fs_async_posix.c) and the         *)
(* bindings that hand them a closure (rt_tua_bind_posix.c).                 *)
(*                                                                         *)
(* A call allocates a context, a copy of the path and a job and posts the   *)
(* job to the pool; a worker does the system calls and posts a task to the  *)
(* loop; the task calls the callback and frees the job.  Each allocation    *)
(* and each post may fail.  The pool and the loop are what Workqueue and    *)
(* EventLoop show of them: FIFO queues, a pool that drains before its       *)
(* tua_workqueue_free returns, a loop that may be left with tasks queued.   *)
(* All operations name the same file: write jobs replace its contents.      *)
(***************************************************************************)
EXTENDS Naturals, Sequences, FiniteSets

CONSTANTS Ops,      \* the calls made, one job each
          Workers,  \* threads the pool may have
          Kinds,    \* the functions called, out of AllKinds
          None

AllKinds == {"read", "write", "stat", "dir"}

ASSUME OffloadAssumption == /\ Kinds \subseteq AllKinds
                            /\ None \notin Ops \cup {"first", "empty", "part"}
                            /\ IsFiniteSet(Workers)

VARIABLES kind,      \* kind[o]: the function that was called
          stage,     \* stage[o]: how far o has come
          err,       \* err[o]: job->err is an error
          data,      \* data[o]: the contents a read has seen
          piece,     \* piece[o][p]: the allocation p of operation o
          queue,     \* the pool's jobs
          team,      \* the threads tua_workqueue_create has started
          working,   \* working[w]: the job worker w has, None when it waits
          pool,      \* "open", "stopping" in tua_workqueue_free, "freed"
          tasks,     \* the loop's tasks: operations that are done
          loop,      \* "running", "stopped" when tua_loop_run returned, "freed"
          file,      \* what the file holds
          accepted,  \* history: operations whose call returned TUA_OK
          called     \* history: the callbacks, and the thread they ran on

vars == <<kind, stage, err, data, piece, queue, team, working, pool, tasks, loop, file, accepted, called>>
job == <<kind, err, data>>
history == <<accepted, called>>

(* What a call allocates, in its order, and what its worker may add.        *)
Wanted(k) == IF k = "write" THEN <<"ctx", "path", "copy", "job">> ELSE <<"ctx", "path", "job">>
Pieces == {"ctx", "path", "copy", "job", "data", "names"}

Init == /\ kind = [o \in Ops |-> "stat"] /\ stage = [o \in Ops |-> "idle"]
        /\ err = [o \in Ops |-> FALSE] /\ data = [o \in Ops |-> None]
        /\ piece = [o \in Ops |-> [p \in Pieces |-> "none"]]
        /\ queue = <<>> /\ team \in SUBSET Workers \ {{}} /\ working = [w \in Workers |-> None] /\ pool = "open"
        /\ tasks = <<>> /\ loop = "running"
        /\ file = "first"
        /\ accepted = <<>> /\ called = <<>>

With(o, ps) == [piece EXCEPT ![o] = [p \in Pieces |-> IF p \in ps THEN "live" ELSE @[p]]]
FreeOf(pieces, ps) == [p \in Pieces |-> IF p \notin ps \/ pieces[p] = "none" THEN pieces[p]
                                        ELSE IF pieces[p] = "live" THEN "freed" ELSE "twice"]
PiecesOf(k) == {Wanted(k)[i] : i \in DOMAIN Wanted(k)}
-----------------------------------------------------------------------------
(* The caller, on any thread                                                *)
Accept(o, k) ==
  /\ stage[o] = "idle" /\ pool = "open"
  /\ kind' = [kind EXCEPT ![o] = k]
  /\ piece' = With(o, PiecesOf(k))
  /\ stage' = [stage EXCEPT ![o] = "queued"]
  /\ queue' = Append(queue, o)
  /\ accepted' = Append(accepted, o)
  /\ UNCHANGED <<err, data, working, pool, tasks, loop, file, called>>

(* The n-th allocation fails, or with all of them made tua_workqueue_post   *)
(* does: TUA_E_CANCELED when the pool stops, TUA_E_NOMEM at any time.       *)
RefuseKeepsCtx(o, k, n) ==
  /\ stage[o] = "idle" /\ pool # "freed"
  /\ kind' = [kind EXCEPT ![o] = k]
  /\ piece' = [piece EXCEPT ![o] = FreeOf(With(o, {Wanted(k)[i] : i \in 1..n})[o], Pieces \ {"ctx"})]
  /\ stage' = [stage EXCEPT ![o] = "refused"]
  /\ UNCHANGED <<err, data, queue, working, pool, tasks, loop, file, history>>

Refuse(o, k, n) ==
  /\ stage[o] = "idle" /\ pool # "freed"
  /\ kind' = [kind EXCEPT ![o] = k]
  /\ piece' = [piece EXCEPT ![o] = FreeOf(With(o, {Wanted(k)[i] : i \in 1..n})[o], Pieces)]
  /\ stage' = [stage EXCEPT ![o] = "refused"]
  /\ UNCHANGED <<err, data, queue, working, pool, tasks, loop, file, history>>
-----------------------------------------------------------------------------
(* A worker of the pool                                                     *)
BeginUnlessStopping(w) == /\ working[w] = None /\ queue # <<>> /\ pool = "open"
                          /\ working' = [working EXCEPT ![w] = Head(queue)]
                          /\ stage' = [stage EXCEPT ![Head(queue)] = "begun"]
                          /\ queue' = Tail(queue)
                          /\ UNCHANGED <<job, piece, pool, tasks, loop, file, history>>

BeginLast(w) == /\ working[w] = None /\ queue # <<>> /\ pool # "freed"
                /\ working' = [working EXCEPT ![w] = queue[Len(queue)]]
                /\ stage' = [stage EXCEPT ![queue[Len(queue)]] = "begun"]
                /\ queue' = SubSeq(queue, 1, Len(queue) - 1)
                /\ UNCHANGED <<job, piece, pool, tasks, loop, file, history>>

Begin(w) == /\ working[w] = None /\ queue # <<>> /\ pool # "freed"
            /\ working' = [working EXCEPT ![w] = Head(queue)]
            /\ stage' = [stage EXCEPT ![Head(queue)] = "begun"]
            /\ queue' = Tail(queue)
            /\ UNCHANGED <<job, piece, pool, tasks, loop, file, history>>

At(w, s) == working[w] # None /\ stage[working[w]] = s

Finish(o, failed) == /\ stage' = [stage EXCEPT ![o] = "worked"]
                     /\ err' = [err EXCEPT ![o] = failed]

(* Any system call or allocation of the worker fails: what it has gathered  *)
(* is freed before the result is passed on.  (Not a write's own write.)     *)
WorkFails(w) == /\ At(w, "begun")
                /\ Finish(working[w], TRUE)
                /\ UNCHANGED <<kind, data, piece, queue, working, pool, tasks, loop, file, history>>

ReadFile(w) == LET o == working[w] IN
               /\ At(w, "begun") /\ kind[o] = "read"
               /\ piece' = With(o, {"data"})
               /\ data' = [data EXCEPT ![o] = file]
               /\ Finish(o, FALSE)
               /\ UNCHANGED <<kind, queue, working, pool, tasks, loop, file, history>>

(* open with O_TRUNC empties the file, tua_write_all_fd fills it or stops   *)
(* on an error with a part written.                                         *)
OpenFile(w) == /\ At(w, "begun") /\ kind[working[w]] = "write"
               /\ stage' = [stage EXCEPT ![working[w]] = "opened"]
               /\ file' = "empty"
               /\ UNCHANGED <<job, piece, queue, working, pool, tasks, loop, history>>

WriteFile(w) == /\ At(w, "opened")
                /\ \E failed \in BOOLEAN : /\ Finish(working[w], failed)
                                           /\ file' = IF failed THEN "part" ELSE working[w]
                /\ UNCHANGED <<kind, data, piece, queue, working, pool, tasks, loop, history>>

Stat(w) == /\ At(w, "begun") /\ kind[working[w]] = "stat"
           /\ Finish(working[w], FALSE)
           /\ UNCHANGED <<kind, data, piece, queue, working, pool, tasks, loop, file, history>>

(* An empty directory leaves names NULL.                                    *)
ReadDir(w) == /\ At(w, "begun") /\ kind[working[w]] = "dir"
              /\ \E ps \in {{}, {"names"}} : piece' = With(working[w], ps)
              /\ Finish(working[w], FALSE)
              /\ UNCHANGED <<kind, data, queue, working, pool, tasks, loop, file, history>>

(* tua_loop_post appends the task; the worker is in tua_loop_wakeup still.  *)
PostDone(w) == /\ At(w, "worked")
               /\ tasks' = Append(tasks, working[w])
               /\ stage' = [stage EXCEPT ![working[w]] = "posted"]
               /\ UNCHANGED <<job, piece, queue, working, pool, loop, file, history>>

ReturnFromPost(w) == /\ At(w, "posted") \/ At(w, "done")
                     /\ working' = [working EXCEPT ![w] = None]
                     /\ UNCHANGED <<job, stage, piece, queue, pool, tasks, loop, file, history>>

(* The callback of the binding frees what it is given and its context,      *)
(* then the job goes.                                                       *)
Completed(o) == LET byCallback == FreeOf(piece[o], {"data", "names", "ctx"})
                IN [piece EXCEPT ![o] = FreeOf(byCallback, {"path", "copy", "job"})]

Called(o, thread) == /\ called' = Append(called, <<o, thread>>)
                     /\ stage' = [stage EXCEPT ![o] = "done"]

(* tua_loop_post had no memory: the worker calls the callback itself.  The  *)
(* one of readdir then frees the names, whoever has freed them before.      *)

CallFromWorker(w) ==
  LET o == working[w]
      left == Completed(o)[o]
  IN /\ At(w, "worked")
     /\ Called(o, "worker")
     /\ piece' = [piece EXCEPT ![o] = IF kind[o] = "dir" THEN FreeOf(left, {"names"}) ELSE left]
     /\ working' = [working EXCEPT ![w] = None]
     /\ UNCHANGED <<job, queue, pool, tasks, loop, file, accepted>>

WorkerStep(w) == \/ Begin(w) \/ WorkFails(w)
                 \/ ReadFile(w) \/ OpenFile(w) \/ WriteFile(w) \/ Stat(w) \/ ReadDir(w)
                 \/ PostDone(w) \/ ReturnFromPost(w) \/ CallFromWorker(w)
-----------------------------------------------------------------------------
(* The loop's thread                                                        *)
DoneTask == /\ loop = "running" /\ tasks # <<>>
            /\ Called(Head(tasks), "loop")
            /\ piece' = Completed(Head(tasks))
            /\ tasks' = Tail(tasks)
            /\ UNCHANGED <<job, queue, working, pool, loop, file, accepted>>

LeaveLoop == /\ loop = "running"
             /\ loop' = "stopped"
             /\ UNCHANGED <<job, stage, piece, queue, working, pool, tasks, file, history>>
-----------------------------------------------------------------------------
(* The owner: workqueueFree, at any time, and loopFree after it, as in      *)
(* tests/rt_fs_stat_readdir_smoke.c and tests/std.                          *)
PoolStop == /\ pool = "open"
            /\ pool' = "stopping"
            /\ UNCHANGED <<job, stage, piece, queue, working, tasks, loop, file, history>>

PoolFreeNoJoin == /\ pool = "stopping" /\ queue = <<>>
                  /\ pool' = "freed"
                  /\ UNCHANGED <<job, stage, piece, queue, working, tasks, loop, file, history>>

PoolFree == /\ pool = "stopping" /\ queue = <<>>
            /\ \A w \in Workers : working[w] = None
            /\ pool' = "freed"
            /\ UNCHANGED <<job, stage, piece, queue, working, tasks, loop, file, history>>

LoopFree == /\ loop = "stopped" /\ pool = "freed"
            /\ loop' = "freed"
            /\ tasks' = <<>>
            /\ UNCHANGED <<job, stage, piece, queue, working, pool, file, history>>
-----------------------------------------------------------------------------
Call(o) == \E k \in Kinds : Accept(o, k) \/ \E n \in 0..Len(Wanted(k)) : Refuse(o, k, n)

Next == /\ \/ \E o \in Ops : Call(o)
           \/ \E w \in team : WorkerStep(w)
           \/ DoneTask \/ LeaveLoop \/ PoolStop \/ PoolFree \/ LoopFree
        /\ UNCHANGED team

(* The operating system runs every worker and the loop's thread, and system *)
(* calls return; the owner that began workqueueFree is joined.              *)
Fairness == /\ \A w \in Workers : WF_vars(w \in team /\ WorkerStep(w) /\ UNCHANGED team)
            /\ WF_vars(DoneTask /\ UNCHANGED team) /\ WF_vars(PoolFree /\ UNCHANGED team)

Spec == Init /\ [][Next]_vars /\ Fairness
-----------------------------------------------------------------------------
Stages == {"idle", "refused", "queued", "begun", "opened", "worked", "posted", "done"}
Contents == Ops \cup {"first", "empty", "part"}

TypeOK == /\ kind \in [Ops -> AllKinds] /\ stage \in [Ops -> Stages]
          /\ err \in [Ops -> BOOLEAN] /\ data \in [Ops -> Contents \cup {None}]
          /\ piece \in [Ops -> [Pieces -> {"none", "live", "freed", "twice"}]]
          /\ queue \in Seq(Ops) /\ tasks \in Seq(Ops) /\ accepted \in Seq(Ops)
          /\ team \subseteq Workers /\ working \in [Workers -> Ops \cup {None}]
          /\ pool \in {"open", "stopping", "freed"} /\ loop \in {"running", "stopped", "freed"}
          /\ file \in Contents
          /\ called \in Seq(Ops \X {"loop", "worker"})

Distinct(list) == \A i, j \in DOMAIN list : list[i] = list[j] => i = j

(* An operation whose call returned TUA_OK waits on one list, once; it has  *)
(* its callback at most once, and has had it when it is over; one whose     *)
(* call returned an error never.                                            *)
CalledOnce == /\ Distinct(queue \o tasks)
              /\ \A i, j \in DOMAIN called : called[i][1] = called[j][1] => i = j
              /\ {called[i][1] : i \in DOMAIN called} = {o \in Ops : stage[o] = "done"}

(* Every allocation is freed once, whichever call failed on the way, and    *)
(* none before the last use: while an operation is under way its job, path, *)
(* context and copy are live, when it is over nothing is.  (That readdir's  *)
(* names are not freed twice is NamesFreedOnce.)                            *)
Balanced == TypeOK /\ \A o \in Ops :
  /\ \A p \in Pieces \ {"names"} : piece[o][p] # "twice"
  /\ stage[o] \in {"queued", "begun", "opened", "worked", "posted"} =>
       \A p \in PiecesOf(kind[o]) : piece[o][p] = "live"
  /\ stage[o] \in {"refused", "done"} => \A p \in Pieces : piece[o][p] # "live"

(* Both, of every order of calls, failures, completions and frees.          *)
EndsOnce == CalledOnce /\ Balanced

(* No worker is inside tua_loop_post, its wakeup included, or has work that *)
(* ends there, when the loop is freed: the join of workqueueFree sees to    *)
(* it, although the task it posted may have run long before.                *)
LoopOutlivesWorkers == loop = "freed" => queue = <<>> /\ \A w \in Workers : working[w] = None

(* With one worker, operations take effect in the order of the calls: a     *)
(* read sees what the latest write before it left, though neither waited    *)
(* for the other.                                                           *)
WritesBefore(i) == {j \in 1..(i - 1) : kind[accepted[j]] = "write" /\ ~err[accepted[j]]}
FailedBefore(i) == {j \in 1..(i - 1) : kind[accepted[j]] = "write" /\ err[accepted[j]]}
ReadsLatestWrite ==
  Cardinality(team) = 1 =>
    \A i \in DOMAIN accepted :
      LET r == accepted[i] IN
      data[r] # None /\ FailedBefore(i) = {} =>
        IF WritesBefore(i) = {} THEN data[r] = "first"
        ELSE \E j \in WritesBefore(i) : data[r] = accepted[j] /\ \A m \in WritesBefore(i) : m <= j

(* The callback comes, even when the pool is freed at once, unless the loop *)
(* is left before.                                                          *)
CallbackComes == \A o \in Ops : stage[o] = "queued" ~> stage[o] = "done" \/ loop # "running"

(* tests/rt_fs_stat_readdir_smoke.c: a readdir callback frees the names, so *)
(* the names are its own and nobody frees them after it.                    *)
NamesFreedOnce == \A o \in Ops : piece[o]["names"] # "twice"
=============================================================================
