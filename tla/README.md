# Tua in TLA+

Tua (`src/tua/`) is a small compiled language: `tuac`, a compiler on LLVM, and a
runtime in C with an event loop, a thread pool, asynchronous files and TCP, and
maps and strings that are reference counted. This directory holds TLA+ modules
of the runtime and of the compiler's algorithms, TLC runs that check them on
small instances, and proofs that the TLA+ proof system checks for instances of
any size. Source paths below are relative to `src/tua/src/`, and `posix/` stands
for `rt/platform/posix/`; `packages/` and `docs/` are those of `src/tua/`.

Contents: 1 the system, 2 the modules and how they correspond to the code,
3 the runs, 4 fairness, 5 what is proved, 6 what the code and its documents
disagree about, 7 what is not modelled, 8 the plan, 9 how to run it.

## 1. The system

The compiler is a pipeline over one syntax tree per module:

```
   source -> lexer -> parser -> module loader -> analyzer -> code generator -> LLVM
                                 imports, names   kinds,      closures, generics,
                                                  moves,      blocks, drops
                                                  borrows
```

In a compiled program one thread runs the event loop and all user code. A
program may have other threads, which post to the loop; the pool's workers run
blocking system calls and post their completions.

```
   user code (closures)                              map<K,V>, strings
        |  rt.post / rt.after / rt.every / net.* / fs.*
        v
   callback bindings ---- box (reference counts)
        |           \
        |            +--> file offload --> workqueue (threads)
        |            +--> tcp             |
        v                  |              | tua_loop_post
   event loop <------------+--------------+
   tasks, timers, watchers, wake pipe
        |
   epoll (kernel)
```

| component | state | operations | calls, shared state | what is hard | correct when |
|---|---|---|---|---|---|
| workqueue, `rt/rt_workqueue.c` | list of items, `stop`, threads, mutex and condition variable | create, post, worker loop, free | runs the file and resolve jobs | wakeups against sleeping workers, free against posts, creation that fails half way | no job waits while everyone sleeps; accepted jobs run once, in order, also when the pool is being freed |
| event loop, `posix/rt_loop_epoll.c` | task list, sorted timer list, watcher list, self-pipe, `stop` | post, timer start and cancel, io start and cancel, stop, run, free | called by every other part, tasks and timers from any thread | lists are detached and run with the loop unlocked; edges are reported once; structures are freed when no list has them | nothing posted is slept through; a cancelled timer or watcher is not called, nor freed while something points to it |
| callback bindings, `posix/rt_tua_bind_posix.c`, `rt/rt_box.c` | contexts and handles that own a reference to a closure's environment | post, after, every, cancel of every; their file and TCP forms | loop, file offload, tcp | the binding goes out of scope at any time; a cancel on another thread meets the call | an environment lives as long as something may call it, and is released once |
| file offload, `posix/rt_fs_async_posix.c` | a job per operation: path, data, names, result | readfile, writefile, stat, readdir | posts to the pool, the worker posts to the loop | every allocation and post may fail, at both ends; pool and loop are freed while work is under way | one callback or one error; each piece of memory freed once; the loop outlives the workers |
| tcp, `posix/rt_net_posix.c` | an operation with its offset, its watcher, its deadline's timer; an attempt per address; a listener | connect, accept, read, write, close | watchers and timers of the loop, resolve on the pool | readiness against deadline, partial writes, a second operation on one socket, bursts of peers against edge-triggered events | each operation ends once, leaves nothing registered, and reports the bytes it moved; no peer is forgotten |
| map, `tua_map.c` | slots, count, tombstones | new, get, set, delete, clear, free, for-in | retains and releases strings | tombstones and probe sequences, rehash in place, overwriting | it answers as a dictionary; probes end; references balance |
| strings, `tua_str.c` | registry of managed pointers with counts | alloc, retain, release, slices, UTF-8 | map, bindings, tcp | the registry is itself a table with tombstones, and not locked | counts are exact; text stays text |
| bytes and 16-bit floats, `tua_bytes.c` | one buffer each, read-only or not | bounds-checked access, copies, conversions | | overflow of offset + length, rounding | nothing outside a buffer is touched; conversions are exact or nearest |
| lexer and parser, `lexer.c`, `parser.c` | position, current token, a `>>` half split, error flags | scan, recursive descent with backtracking | the parser asks the lexer | speculative generic calls and casts that are given up | a text is read as the tree it was written from |
| module loader, `tuac_frontend.c`, `tuac_fs.c` | table of modules being loaded, exports, aliases | load, scan imports, resolve | parser, file system | import cycles, preludes, clashes of names | every module is loaded once and compiled after its imports; a name means one thing |
| ownership and borrow checker, `analyzer.c` | moved flags, borrows with their last use | one pass over the syntax tree | decides what the generator may drop | expiry of borrows across loops, branches, copies of references | no accepted program uses a moved or dangling variable |
| numeric kinds, `analyzer.c`, `llvm/llvm_expr.c` | | inference, promotion, casts, operators | two sets of tables, written apart | sign, width, saturation, NaN | the generated type is the inferred one; the number is the one meant or its absence is told |
| control flow, `llvm/llvm_if.c`, `llvm_for.c`, ... | basic blocks, loop stack, labels, scopes | lowering of statements, tail calls | LLVM | blocks that end twice or never, phis, drops on the way out | the blocks do what the statements mean |
| closures, `llvm/llvm_expr.c`, `compiler.c`, `rt/rt_box.c` | boxes and environments, counted | capture, box, call, drop | strings, drops | which variables need a box; nested lambdas | a lambda shares its variables with its function, and boxes are freed once |
| generics, `compiler.c`, `llvm/llvm_call.c` | templates, instances by mangled name | infer, instantiate | module loader's names | the context of a template's module against the caller's | a call goes to the instance for its types, made once |
| structs and traits, `compiler.c`, `llvm/llvm_expr.c`, `llvm/llvm_call.c` | structs with their methods, compiled functions, vtables | resolve a field or method, check an impl, build a vtable and a drop | generics, drops | two searches written apart, by functions and by signatures; the order of statements | a name reaches the one member there is, or is an error; a drop releases each value inside once |
| JSON scanner, `packages/clib/json/tua_json.c` | | find by key or path, read strings, numbers, tables | maps | escapes, truncated texts | it finds what the document says |
| matrix pools, `packages/clib/llm/tua_llm_q4.c`, `tua_llm.c` | threads, job number, count of workers at it | matrix times vector on n threads | | late workers, resizing between products | a product returns with each row written once |

`PROJECT.json` lists the components with their sources and status, and under
`hazards` the lines where the behaviours above bite, each with the property that
would notice.

## 2. The modules

Order of reading: the pool, the loop, what is built on them, the values, then the
compiler's passes in the order of the pipeline.

| module | models | stated against | run as | proofs |
|---|---|---|---|---|
| `Workqueue` | `rt/rt_workqueue.c`, condition variable | `WorkPool` | `MCPools` | `PoolsProofs` |
| `GemvPool` | the pools of `tua_llm_q4.c` and `tua_llm.c` | | `MCPools` | `PoolsProofs` |
| `EventLoop` | tasks, timers, wake pipe, stop, free of `posix/rt_loop_epoll.c` | `LoopTasks` | `EventLoop`, `MCLoop` | `EventLoopProofs` |
| `IoWatchers` | watchers and event rounds of `posix/rt_loop_epoll.c`, epoll | | `MCLoop` | `IoWatchersProofs` |
| `CallbackBindings` | post, after, every and cancel of `posix/rt_tua_bind_posix.c`; boxes | | `CallbackBindings` | `CallbackBindingsProofs` |
| `FsOffload` | `posix/rt_fs_async_posix.c` and its bindings | | `FsOffload` | `FsOffloadProofs` |
| `TcpOps` | read and write of `posix/rt_net_posix.c` | | `MCTcp` | `TcpProofs` |
| `TcpConnections` | connect and accept of `posix/rt_net_posix.c` | | `MCTcp`, `TcpConnections` | `TcpProofs` |
| `TuaMap` | `tua_map.c`, retain and release of `tua_str.c` | `Dictionary` | `MCValues` | `TuaMapProofs` |
| `BorrowCheck` | moves and borrows of `analyzer.c` | `Ownership` | `MCValues` | `OwnershipProofs` |
| `Ownership` | retains, releases, moves and drops that are emitted | an abstract heap | `MCValues` | `OwnershipProofs` |
| `Lexer` | `lexer.c` | `LexerCases` | `MCCases` | |
| `Parser` | `parser.c` | `SourceText` | `MCCases` | |
| `ModuleLoader` | `tuac_frontend.c`, `tuac_fs.c`, lookups of `compiler.c` | `LoaderCases` | `MCCases` | |
| `Conversions` | numeric kinds of `analyzer.c` and the code generator | `CompilerCases` | `MCCases` | |
| `Generics` | inference and instances of `compiler.c`, `llvm/llvm_call.c` | `GenericCases` | `MCCases` | |
| `Dispatch` | embedded structs, traits and vtables, drops of structs in `compiler.c`, `llvm/llvm_expr.c`, `llvm/llvm_call.c` | `DispatchCases` | `MCCases` | |
| `Lowering` | statements to blocks, `llvm/llvm_if.c`, `llvm_for.c`, `llvm_while.c`, `llvm_goto.c`, `llvm_loop.c`, `compiler.c` | `LoweringCases` | `MCCases` | |
| `Closures` | capture, boxes and calls of lambdas | `ClosureCases` | `MCCases`, `ClosureCases` | |
| `JsonScan`, `Buffers` | `tua_json.c`, text of `tua_str.c`; `tua_bytes.c` | `LibraryCases` | `MCCases` | |

How they compose. The upper modules do not contain the lower ones; each states
in its header what it takes from them, and takes only what a run or theorem of
the lower module shows: `FsOffload` uses the pool as a FIFO list that is drained
before `tua_workqueue_free` returns (`WorkPool`) and the loop as a FIFO list of
tasks (`LoopTasks`); `CallbackBindings` uses the loop as tasks in order and
timers whose call may come just after a cancel on another thread
(`CancelIsFinal`); `TcpOps` and `TcpConnections` use rounds of events, tasks and
timers in the order of `tua_loop_run`, and watchers that are not called once
cancelled (`EventsAlive`). The three implementation relations are checked as
PROPERTYs of the runs: `ImplementsPool`, `ImplementsTasks`,
`ImplementsDictionary`; that each step of the detailed module is one of the
abstract module, or none, is also proved (section 5). `Ownership` EXTENDS
`BorrowCheck`: what it executes is what the checker accepts. `SourceText` writes the trees that `Parser` reads,
`LexerCases` spells the tokens, and one property goes through both.

A module whose constants can be given in a `.cfg` is run as it is.

Two modules in one run. `MCPools`, `MCLoop`, `MCTcp` and `MCValues` each hold two modules
that share no state. Their next-state relation lets either of them step as long
as the other is in an initial state: the union of their behaviours and not the
product. `MCCases` does the same for algorithms without a state of their own: from
an idle state one action picks one input, `case`, and the properties have the
form `[][\A c \in {case'} : ...]_case`, so that the answer is worked out once per
input.

An action of a module with threads is one critical section or one stretch of
code between two points where something else may happen: taking a mutex, a
system call, a call of user code. Allocation failure and failing system calls
are disjuncts.

**Workqueue.** `owner` is the thread in `tua_workqueue_create` and
`tua_workqueue_free`; `pc[w]`, `holding[w]` and `asleep` are the place of worker
w in `tua_worker_main`. `Sleep` is `tua_cond_wait` with the mutex held:
testing the list and going to sleep are one step, because a post needs the
mutex. `Take` and `RunJob` are separate, the job runs unlocked. `PostRefused`
has both reasons, no memory and `stop`. `Signal` wakes any one sleeper,
`SpuriousWakeup` any sleeper without a signal. `FreeStop` is the broadcast,
`FreeJoin` the joins, `FreeRest` the freeing of leftover items; a create that gets only
some of its threads goes through the same three.

**GemvPool.** `pool` says which of the two pools a behaviour is about: they cut
the rows differently (even shares against rounded-up ones) and reset different
fields. `Gemv` is the call: few rows or one thread are done inline, a pool of
another size is destroyed (`Destroy`, `Join`) and made anew (`CreateThread`),
then `Submit` raises `jobId` under the mutex and `Await` waits for `working` to
reach zero. A worker waits for a job number other than its own (`Sleep`,
`Take`), computes unlocked and reports. The pool assumes one calling thread, and
so does the model.

**EventLoop.** The calls (`Post`, `StartTimer`, `CancelTimer`, `Stop`) are the
critical section of `tua_loop_post` and its kin; the `write` to the pipe is the
later step `Wakeup`, so everything may happen in between. The pipe holds
`PipeCap` bytes and drops what does not fit; `edge` is epoll's edge-triggered
event for it, which `Awakened` consumes and `Drain` (reading the pipe empty)
does not restore. `pc` follows `tua_loop_run`: `Enter` computes the timeout
under the lock, then `Awakened`, `TimedOut` or `Interrupted` (EINTR), `Drain`,
`DetachTasks`, one `BeginTask`/`EndTask` per task, `CollectDue`, and per timer
`CheckActive` (reads `active` under the lock), `FireTimer`, `EndTimer`. A
timer's memory is `timer[t].mem`; `Pruned` is `tua_loop_prune_timers_locked`.
`quiet` and `fired` are history.

**IoWatchers.** `io[i]` is a `tua_io_t`, whose memory is given out again by
`Reuse`. The kernel's side is `epoll` (registration per descriptor), `rdy` (its
ready list) and `level` (descriptors with data). `Report` moves one entry of
`rdy` to `batch` and drops those no longer ready; `EndWait` ends `epoll_wait`
when the list is empty or `MaxEvents` are taken. `Dispatch` tests `active`
before the call. `Start` fails on a descriptor that is registered already
(`StartFails`) and leaves an inactive structure; `Prune` frees inactive ones at
the end of a round. `Close` requires that no active watcher has the descriptor,
as the callers in `posix/rt_net_posix.c` see to.

**CallbackBindings.** `refs[c]` is the counter in the box of closure c, `bound`
whether the program's variable is in scope. `Register` retains and arms;
`RegisterFails` is any failure, with what was retained released again.
`CancelEvery` and `PostFree` are the two halves of `tua_timer_every_cancel_cl`;
`CheckTimer` and `CallTimer` are the loop's test of `active` and its call, with
room for a cancel in between. A closure can be passed by whoever has it: in
scope, or being called.

**FsOffload.** `stage[o]` follows an operation from call to callback, `piece[o]`
is the state of each allocation (`none`, `live`, `freed`, `twice`). `Refuse` is a
call that fails after n allocations, `PostDone` the worker's `tua_loop_post`,
`ReturnFromPost` its return (the wakeup is inside, the task may have run by
then), `CallFromWorker` the call of the callback by the worker when that post
fails. All operations name one file, whose contents `file` tells who wrote it.

**TcpOps.** A call tries the system call first and calls back inside the call
unless it would block. `Wait` registers watcher and, perhaps, deadline.
`WaitEvents`, `OnReady`, `RunTasks`, `CollectDue`, `OnTimeout` and `NextRound`
are a round of the loop. Bytes are counted; `out` and `taken` are the history of a
socket, for each byte the operation (`Bytes`) that sent or took it. `Overlap` says whether the program starts a write while another waits
on the same socket. `hup` stands for a peer that has shut its side down, after
which a write sends what it may or fails.

**TcpConnections.** A connect passes through three hands: `ConnectAsync` posts a
job, `ConnectWorker` resolves the name and posts the result, and on the loop
`ConnectResolved` starts the attempt. `WalkFrom` goes from address to address, as
`tua_connect_try_next` does, past those whose socket, connect, watcher or timer
fails; `NextAddress`, `OnWritable` and `OnTimeout` take up where one attempt ended;
`Finish` calls back and `Released` is what is freed with it. `mem[c]` lists the
blocks the connect owns, `tried[c]` the addresses in order. An accept is a watcher
whose `AcceptOne` steps call the program back for each peer until `accept(2)` has
none; in between the program may do anything its callback can (`UserCode`), cancel
that accept too. `misuse` records that a handler went on with an accept that was freed,
where the model ends (`crashed`), `inside` that a callback cancelled its own accept, and
`stale` that `accept(2)` failed and left peers in the backlog.

**TuaMap.** `entries` is the table; `Probe`, `FindSlot`, `FindSlotForInsert`,
`Rehashed` and `Ensured` are `find_slot`, `find_slot_for_insert`, `map_rehash`
and `ensure_capacity`. A key is an integer or the text of a string object, so
that two objects may be one key. `rc` is the count of a string, `held` the
program's share. `Begin`, `IterNext` and `IterEnd` are a for-in loop, as
`llvm/llvm_for.c` emits it. `Set` requires that a probe ends; that it always
does is `ProbesArrive`. An assignment that adds a key or rehashes ends the
modelled loop, for the language leaves a loop undefined from there.

**BorrowCheck** is the analyzer's pass over a program of a small statement
language, written flat: a block statement, its statements, its end. `LastUse` is
the analyzer's look ahead for the last statement of the block that names a
reference, `Active` a borrow that has not expired, `MoveVar` and `MayNotMove` the
rules of moves, `DeclareBorrows` what a declaration borrows and from whom,
`ConstView` the read-only view. **Ownership** executes what is accepted: `Compile`
is what is emitted for an expression (retain, hand over, new box), `DropVar`,
`DropBlock` and `DropScopes` the drops, on a heap where every object has a count
and remembers that it was freed. A behaviour is a program that is written and
executed statement by statement; `Families` bound it. The checker sees the whole
program and the machine only its past, and a prefix of an accepted program is
accepted, so this explores every program of a family. The last six members of
`AllForms` are forms that the compiler accepts and gets wrong (section 6); the
families leave them out.

**Lexer, Parser, SourceText.** `Lexer` works on strings, character by character,
as the C does. `Parser` has a function per function of `parser.c`, on token
kinds; a state `p` is the tokens, the index of the current one, how far a `>>` has
been split, and the error flags, so backtracking is going back to an old `p`, of
which the C restores only a part. A loop that does not advance and a NULL that is dereferenced
put the parser in a state of their own (`stop`). `SourceText` writes a tree
with the parentheses its operators need; the property is that lexer and parser
together give the tree back.

**ModuleLoader.** A world is what one compilation finds: the statements of each
file, the order in which `readdir` gives the standard library, the packages.
`moduleLoad`, `moduleScanImports` and `moduleApplyStdPreludeToModule` fold over it;
`compileModuleIntoMain` and the `Resolve...` operators are the lookups of the code
generator. `LoaderCases` says what a name should mean; for a name that two modules of the
standard library offer, of which `docs/SPEC.md` says nothing, that is the first `readdir` gave.

**Conversions** has two halves that the compiler keeps apart too: what the
analyzer infers and allows (`inferBinary`, `atAssignable`) and what is emitted
(`emitBinaryExpr`, `emitCastExpr`, `checkedCastToOption`). Values are bit patterns
of scaled widths (1, 2, 3, 4 and 8 bits for i1 to i64) and numbers of halves for
floats; results LLVM leaves undefined are `Poison`.

**Generics.** Types are trees; `inferTypeArgsForGenericCall`,
`canonicalizeTypeForGenericArg`, `mangleGenericInstanceName` and
`compilerInstantiateGenericFunc` are the functions of those names. `ctx` is what
the compiler's fields say while it compiles a call: its module, what the type
parameters stand for, the parameters in scope.

**Dispatch.** A program is a sequence of statements, folded over the compiler's tables:
the structs with what has been declared of them, the functions that exist, drops,
vtables and the instances of bounded calls. `Search` is both searches of the code
generator, by fields or compiled functions, and the one of trait impls, by declared
methods; they differ in the fields they go through (`fieldLooksEmbedded`). Each use
in a program notes the path and function it reaches. `DispatchCases` says it again
from sets of paths, without an order of search, and takes from the statements only
which of them come before (of the order of declarations `docs/SPEC.md` says nothing).

**Lowering.** An emission is a record with the blocks so far, the one being
written, the loop stack, the labels and the scopes; each `emit...` operator is the
function of that name. `LoweringCases` runs the blocks, runs the statements, gives both
the same results of calls, and compares the traces.

**Closures.** The walkers (`collectLambdaUsesStmt` and its kin) are sets of node
kinds each goes into, for that is where they differ; `BoxedLocals` decides what
lives in a box; `Eval` and `Exec` run a function on a heap of counted boxes, once
as compiled and once as it is meant, where a lambda's variables are the function's.

**JsonScan, Buffers.** Operators named after the C functions. A position is
the index of a byte; `Answer` and `Error` are the return codes.
`LibraryCases` writes documents from trees and asks for every path in them, in
them and in all their prefixes.

## 3. The runs

| run | instance | states | what it shows |
|---|---|---|---|
| `pools` | 3 workers, 4 jobs; matrix pools of up to 3 threads, 4 rows, 3 products | 58,500 | posts and free race, creation stops early, sleepers wake by themselves: no lost wakeup, each job in one place, free drops nothing, and the pool implements `WorkPool` with its liveness; a product returns, with every row written once and no worker late |
| `loop_timers` | the loop's thread and one other, 1 task, 2 timers, delays 0 to 2, one-shot and repeating, pipe of 1 byte, clock to 2 | 1,770,000 | no lost wakeup, timer memory and order, cancelled timers stay quiet |
| `loop_rounds` | 2 descriptors, 3 watchers, rounds of 1 event; and the loop's thread and two others, 2 tasks, 1 timer, clock to 1 | 104,000 | events point to live watchers, kernel and `active` agree, no edge lost, none starves; tasks as in `LoopTasks`, timers fire, stop makes `tua_loop_run` return |
| `callbacks` | 2 closures, 2 registrations, the loop's thread and one other | 40,300 | what may be called is alive, counts are exact, everything is released |
| `fs_offload` | 2 operations of any of 4 kinds, pools of 1 and 2 threads | 189,000 | one callback or one error, memory freed once, loop outlives workers, reads see earlier writes on a pool of one, the callback comes |
| `tcp` | 2 operations on 1 socket, 2 bytes each, kernel buffer of 2; 1 connect over 2 addresses, 1 accept, 2 peers | 135,000 | nothing dangles, bytes are accounted for, streams do not mix, deadlines end; a connect ends once and leaves nothing behind, stale events of accepts are skipped, no peer is forgotten |
| `values` | programs of 4 and 5 statements over 3 variables; 3 keys, 2 string objects with one text, table of 2 slots at first | 369,000 | accepted programs touch nothing freed, read nothing moved, release what they own; probes end and arrive, references balance, the map implements `Dictionary` |
| `cases` | inputs of the algorithms, see below | 251,000 | numbers, text to tree, lookups, members and traits, instances, blocks, closures, documents, buffers |
| `fs_names` | 1 readdir, 1 worker | violation | section 6 |
| `tcp_borrow` | 1 write, 1 socket | violation | section 6 |
| `tcp_accept` | 1 accept, 1 peer, 1 connect | violation | section 6 |
| `loops` | 1 function with a `for` loop | violation | section 6 |

Every run explores its whole state space. No run has a state constraint: the
bounds are the finite sets above and the guards that name `MaxTime`, `PipeCap`,
`Buffer`, `MaxHeld`, `MaxCalls`, `MaxPeers`, `MaxFailures`, `MaxVars` and the
fields of `Families`. Why they are enough:

- Three workers let one sleep, one be busy and one be on its way while a signal
  is sent; four jobs leave one on the list with all three busy.
- Three products with one, two or three threads give growth, shrinking and a
  product on an unchanged pool; four rows over three threads do not divide.
- Two timers are what it takes for one to be collected with another, inserted
  before another, or cancelled by another's callback; a pipe of one byte is the
  pipe that is always full. Two tasks show order, and a task posted while the
  batch runs.
- Rounds of one event (64 in the code) make every second event wait for the next
  round. Three watchers over two descriptors give a second watcher on one
  descriptor and a watcher on a reused number; `Reuse` makes the supply of
  structures endless.
- Two file operations are a write and a read of one file, in either order, on one
  thread or on two.
- Two bytes against a buffer of two, partly full at first, give writes
  that send nothing, a part or everything, twice in a row. Two addresses are a first
  that fails in each of its ways and a last; two peers are a burst that one event
  announces, and an accept that is cancelled anywhere, between the two as well.
- Four statements are a loop or branch with a declaration before, a use inside and
  a use after; the families of five add a second reference, lambda or turn.
- A table of two slots fills with tombstones after two deletions, is rehashed in
  place and doubles twice, to eight; the keys' homes coincide, wrap around the
  end and part again as it grows. The code starts with 16 slots and uses the
  same load factor of 3/4.
- `cases`: every pair of numeric kinds with values around zero, the sign bit, the
  last value, each mantissa's end and NaN; every text of four characters out of
  thirteen; trees of expressions two operators deep in every arrangement, types
  nested three deep, each kind of statement in each kind of block, each kind of declaration;
  functions with every loop, jump and exit, two levels deep, with all results of
  their first four calls and traces of 12 events, a `break`, `continue` or `goto` leaving
  only blocks that have declared nothing yet; lambdas under each kind of
  expression and statement, and lambdas in lambdas; three modules that import each other
  in every way that imported names can clash with each other; generic functions called from each other over
  two modules; three structs inside each other, embedded or in a field that is const, has a
  value or another name, with a method on any of them before or after the impl of a trait and the
  uses of it, paths of fewer than three fields (`MaxPath`, 16 in the code); JSON documents three deep with a limit of two in place of 512.

The runs of a pool, loop or program that may end or idle, and the unions, do not
check for deadlock: a freed pool or loop, a program whose registrations are used
up, a case that is done. That something goes on where it must is said by the
liveness properties.

Some properties are conjunctions of what belongs together and is broken by one
hazard: `EndsOnce` (one callback, each piece freed once), `RefsBalance` (also that
what may be called is alive), `FreeDropsNothing` (also that no thread is left),
`OwnersCounted`, `ConnectionsTidy` (also that only a callback that cancels its own accept
can make a handler use a freed one), `LoopServes`
(timers fire, stop makes `tua_loop_run` return), `ConnectionsServed`, `NumbersExact`. Type invariants of the modules whose runs
check safety are part of one of these, except those that are only proved (section 5).

Each property has a mutant in `PROJECT.json`, a plausible bug in the code it
is about, with which its run fails: a wakeup that is not sent, a cancel that
frees at once, a load factor that forgets tombstones, an inner lambda's names
that the outer does not capture, and so on. The mutants are the definitions of
the modules that `Next` does not use.

## 4. Fairness

Fairness is stated only of threads that the operating system schedules and of
calls that return; nothing makes a program call, post, cancel or free.

- `Workqueue`: each worker, and the owner once it has begun to free. A failed
  create goes on to free.
- `GemvPool`: the calling thread and each worker. Nothing makes the program call
  again.
- `EventLoop`: the loop's thread, the second half of a call that was begun, and
  the clock. Callbacks return.
- `IoWatchers`: the loop's thread; a callback drains its descriptor and returns
  (strongly fair: other steps of the callback may come in between any number of
  times in the model, since descriptors and watchers can be reused forever).
  The callbacks of `posix/rt_net_posix.c` read until EAGAIN or cancel.
- `CallbackBindings`: a cancel that was begun goes on; the loop's thread takes
  each task and each one-shot timer in the end, strongly fair since the other
  steps of the loop alternate with it.
- `FsOffload`: workers, the loop's tasks, and the owner that has begun to free
  the pool. Without fairness for leaving the loop: `CallbackComes` allows for it.
- `TcpOps`: the loop's thread; an armed deadline is collected in the end, which
  `TimerFires` and `NoLostWakeup` of `EventLoop` show.
- `TcpConnections`: the loop's thread, the workers (a resolver returns) and time,
  which reaches a deadline. The kernel need not decide about a connection, nor
  peers come.

## 5. What is proved

Eight modules hold proofs, for every module of the runtime, for the map and for the
ownership of values; together some 15,800 obligations. They assume the named ASSUME of the
modules they extend, nothing else, and TLC evaluates each of these on the runs (those of
`GemvPool` and `TcpConnections` are definitions that `MCPools` and `MCTcp` assume). What
is in them besides the types of the bounds:

| assumption | says | because |
|---|---|---|
| `PoolAssumption`, `WatcherAssumption`, `BindingAssumption` | the word for nothing (`NoJob`, `None`) is no job, watcher, closure; rounds have at least one event; the loop's thread is none of the others | names |
| `LoopAssumption` | delays are numbers, a pipe holds at least one byte | `pipe(2)` |
| `OffloadAssumption` | the set of workers is finite | a worker is a `pthread_t` of an array; one worker is told by counting |
| `TcpAssumption`, `ConnectionsAssumption` | sockets, connects and accepts are finite sets, connects are not accepts | descriptors and structures are; the loop's round goes through them as a sequence |
| `GemvAssumption` | there may be at least one thread | `clamp_threads` takes fewer than one as one |
| `OwnershipAssumption` | a family of programs has strings, maps and known forms, and a body that runs runs at least once | what the model writes programs from |
| `MapAssumption` | no integer key is a string object; hashes are numbers; the table has at least two slots | a map has keys of one kind; `tua_map.c` starts with 16 |

Sets of threads, jobs, timers, closures, operations, keys and strings, lengths of
transfers, buffers, pipes and rounds, delays, threads and rows of a product, variables and
statements of a program, the hash and the size of a table are otherwise arbitrary.

Every proof has the same outline: an invariant `IInv` that is inductive and was
checked by TLC first (not the one of `Ownership`, which is about all the programs that
may come of one and which TLC cannot list), a lemma per group of actions that it is kept,
and the promised properties as consequences. What `IInv` adds to the properties is where the arguments
are:

**PoolsProofs**, the work queue: `TypeCorrect`, `WakeupsKept` (NoLostWakeup),
`JobsInOnePlace` (OnePlace), `GracefulFree` (FreeDropsNothing), `PoolKeepsPromise`.
`IInv` adds `Creation` (a job was accepted only if all threads were started: otherwise a
job might be posted to a pool without a worker, and NoLostWakeup is not inductive),
`StopIsFree` (`stop` is set by free alone) and `WorkerPlaces` (sleepers are inside
the wait loop; a worker leaves only a stopped and empty pool; after the joins all
have left). FreeDropsNothing follows: accepted jobs are queued, held or finished;
after the joins the list is empty, for a worker left, and nobody holds anything, for
nobody runs (`NothingLeft`, which the property says as well).

The matrix pools: `RowsOnce` (RowsWrittenOnce), and `PoolsSafe`, which says all of it of
the specification that is run. `GInv` adds `Working` (while the caller waits, `working`
counts the workers that have not reported, and each of them has this call's job number
ahead of it or this call's arguments in hand; otherwise all have reported, so none is late
when the pool is cut down) and `Written1` (a row is written exactly if it is in the share
of a worker that has done its share). That the shares part the rows is `Shares`, for any
number of threads and rows and both ways to cut them: the `q4` pool rounds a share up, so that the last
threads may have fewer rows or none, and the other gives thread t the rows from `m*t/nt`
to `m*(t+1)/nt`. `RowsCut` writes either as a sequence of cuts that does not decrease, and a
row lies between two of them (`LeastNatural`, below).

**EventLoopProofs**: `WakeupsArrive` (NoLostWakeup), `TimersOwned` (TimerMemory),
`CancelsAreFinal` (CancelIsFinal), `TasksInOrder`. NoLostWakeup speaks of the loop
waiting; a task may be posted at any other moment, so `WakeupsKept` says more: a byte
in the pipe has its edge until the pipe is drained, and tasks have a wakeup under way
until they are detached, wherever the loop stands. That is why a full pipe, which
drops a byte, loses no wakeup. `ListsOwn` adds that no timer is in a list twice,
`Places` which of the detached lists may have entries at which point of a round,
`CancelsSound` that a timer that is active, or whose flag was just read, has no
cancel to respect. Half of the module is about the list operations: pruning keeps the
order and drops what is inactive (`PrunedFacts`), insertion keeps a list sorted
(`InsertSortedFacts`), the due timers are a prefix (`CollectFacts`).

**IoWatchersProofs**: `TypeCorrect` (TypeOK), `EventsPointToLive` (EventsAlive),
`RegistrationAgrees` (Registered), `EdgesAreKept` (EdgeKept). `IInv` adds
`ReadyOnce` (the ready list holds active watchers, each once: without it removing
a cancelled watcher from the list might leave a second entry behind) and `Rounds`
(tasks run with no events left, which is why pruning there frees nothing that an
event points to; an active watcher has a descriptor). Lemmas `WithReadyAdds` and
`WithoutReadyRemoves` say what the two operations on the list do.

**CallbackBindingsProofs**: `TypeCorrect`, `ReferencesBalance` (RefsBalance). What is
called must still be owned when it is called, which depends on who can release it:
`QueueSound` (what is queued is queued once), `CurrentOwned` (a post or one-shot timer
being called is no longer queued, a repeating one may be cancelled but its freeing is
a later task of the same thread), `CancelsSound` (a handle between the halves of its
cancel belongs to one thread) and `InlineKept`. Counting is by `OwnerGained` and
`OwnerLost`: the owners of a closure are a finite set, and a step changes it by one.

**FsOffloadProofs**: `TypeCorrect`, `EachEndsOnce` (EndsOnce), `LoopIsLast`
(LoopOutlivesWorkers), `ReadsFollowWrites` (ReadsLatestWrite). `Shape` ties an
operation's stage to the list it is in, the worker that has it, its allocations and
the callbacks so far. ReadsLatestWrite needs `InOrder` (the queue is the rest of what
was accepted) and `Follows`: on one worker only the last call begun may be unfinished,
and the file is what the writes before left, except between an open that truncates
and its write, or after a write that failed.

**TcpProofs**, transfers: `TypeCorrect`, `NothingPointsToTheDead` (NothingDangles),
`BytesAddUp` (BytesAccounted), `WritesUnmixed` (StreamInOrder). `Registered` adds what
an operation is before and while it waits, and that only watched sockets have an
edge; `Wire` says of StreamInOrder that the bytes of a write that waits are the last on
the wire, which is why the rest may follow. `BytesAddUp` counts entries of the
histories (`LongerCount`).

Connects and accepts: `ConnectsEndTidily` (ConnectTidy), `StaleAcceptsAreSkipped`
(StaleAcceptsSkipped), and `SocketsTidy`, which says all four invariants of the
specification that is run, ConnectionsTidy among them. `SettledInv` says for each stage
of a connect what it owns, has tried and is registered for; `WalkServes` that going on to the next address ends in one that waits or
in the callback. Nothing is assumed of what callbacks do: they may cancel the accept
that calls them, from where the code touches freed memory (section 6), and
StaleAcceptsSkipped says that this is the only way there. For that, the handler
is inside the loop around `accept(2)` only for an accept that is active, until a callback
has cancelled its own.

**TuaMapProofs**: `TypeCorrect`, `EveryProbeEnds` (ProbesArrive), `ReferencesBalance`
(RefsCounted), `TableIsADictionary` (ImplementsDictionary, the whole property of the
run: it has no fairness). `TableInv` adds that `count` and `tombstones` count the slots
and stay below three quarters, so that an empty slot is left for a probe to end at
(`RoomLeft`); `RefInv` counts a string's uses in the table; `LoopInv` that a for-in
loop has been given the keys behind its index and no others. `VisitsAll`: a probe
passes every slot. `PutArrives` and `BuryArrives`: writing to the slot the insertion
chose, and leaving a tombstone, change no probe but that of their key.
`RehashFacts`: the table built slot by slot has the entries of the old one, each where
its probe arrives. That is an induction over the slots. The library's induction
theorems cannot be used, but the set of numbers at which the claim fails is a set, and
one that is not empty has a least member (`LeastNatural`, from the well-foundedness of
`<`), which contradicts the step (`BuildsOn`).

**OwnershipProofs**: `MemoryIsSafe` (NoUseAfterFree), `ReadsAreCurrent` (NoStaleRead),
`CountsCoverOwners` (OwnersCounted), and `PlainProgramsSafe`, all three of the
specification that is run. They are about programs of any length over any number of
variables, with strings, maps, references, `const` views, moves, blocks, branches and
returns, nested as deep as one likes, in which a loop's body runs once or not at all and
there is no lambda (`PlainFamily`; of the families that are run, the second is one). A
program is written statement by statement and run as it is written, so the theorems say
of each program that the checker accepts that what the code generator emits for it is safe
at every statement. What `Steady` adds:

- The checker's answer about a program depends on what comes later, for a borrow ends
  with the last use of the borrower. So `Sound` is not about the program written so far
  but about every program that extends it and is accepted up to here (`Extends`,
  `Prior`): in all of them the checker and the code generator know the same of the
  variables (`Agrees`), and a map that has gone is marked as moved (`Emptied`).
- `Backed`: a variable that owns nothing, that is a reference or a view, has an owner in the
  same block or one around it, which in every such program is lent to it, and keeps its value
  unless the borrower is never used again (`Secured`). This is why a move, an assignment or
  the end of a block that the checker passes leaves no reference behind that will be read.
- `Fit`: the count of each object covers its owners among the variables in scope and what
  the statement at hand holds, a map has at most one, and the count of a string is no more
  than that if no call was given one (`Exact`: a call keeps a count). A drop at the end of a block, at
  a return, or of the value an assignment replaces is a step from one set of owners to
  another (`Fit` has a lemma for each operation on the heap).

Dropping a block or all scopes, and the checker's pass, go over sequences by recursive
functions; that what holds at 0 and is kept holds at every index is `Upward`, again from
`LeastNatural`.

Refinements: `PoolKeepsPromise`, `TasksInOrder` and `TableIsADictionary` prove that
initial states map to initial states and every step to a step of the abstract module or
to none.

Only model-checked:

- Liveness, that is all `~>` properties and the fairness in ImplementsPool and
  ImplementsTasks, and whatever rests on ENABLED: the provers have neither.
- The compiler and the libraries (`cases`). They recur over syntax trees, tokens
  and texts with RECURSIVE operators, for which the provers are not available, and what
  they compute for every input is an induction over data.
- `Ownership` for programs with lambdas, whose boxes and environments own what they
  capture, and for loop bodies that run more than once, where a statement meets a checker
  that has seen it once: `PlainFamily` leaves these out. Outside the families of the runs
  are forms that the compiler accepts and gets wrong (section 6).
- That a matrix product ends (GemvCompletes), as it is liveness.


## 6. Where code and documents disagree

Four runs end in a violation, and each states what the repository says:

- `fs_names`: when `tua_loop_post` has no memory, `tua_readdir_worker` calls the
  callback itself and frees the names after it (`posix/rt_fs_async_posix.c:436`).
  The callback has freed them: it owns them, as
  `tests/rt_fs_stat_readdir_smoke.c:40` and `tua_readdir_cl_cb` show, and the
  ordinary path, `tua_readdir_done_task`, leaves them alone.
- `tcp_borrow`: a write that would block keeps the pointer to a string that its
  caller lent (`posix/rt_net_posix.c:621`), without a copy. `docs/SPEC.md:803`
  says a borrowing callee may use the string during the call and may not keep
  it for an asynchronous callback.
- `tcp_accept`: `tua_accept_on_ready` takes one peer after another through the accept's
  structure, also when the callback has cancelled the accept, which frees it
  (`posix/rt_net_posix.c:766` and `:821`). `std/net.tua:51` says that the handle can be
  cancelled, and `tests/std/std_rt_net_async_loopback.tua:47` does so in the callback of a read
  that `onAccept` starts, which a read that completes at once calls before it returns.
- `loops`: `emitForStmtInc` (`llvm/llvm_for.c:479`) compiles only a postfix
  expression on a variable, and compiles it as adding 1 to the variable's slot:
  `i--` counts up, `i = i + 1` is left out, and for a counter in a box it is the
  box's address that grows. `docs/SPEC.md:150` and `:168` say otherwise.

The following were noticed while reading. They have no run of their own; where a
module shows one it is named. The modules of the runtime are as the code is and their
properties say what they except. The cases and families of the compiler's runs leave out
the inputs on which code and documents differ.

Runtime:

- `docs/SPEC.md:772` (“取消/错误/loopFree … 释放那份引用”) asks that freeing a loop
  release the closures of pending registrations; `tua_loop_free`
  (`posix/rt_loop_epoll.c:287`) drops tasks and timers and their contexts stay
  (`CallbackBindings.LoopFree`).
- `rt.after` with a delay of 0 or less (`posix/rt_tua_bind_posix.c:104`) calls the
  closure inside the call and on the caller's thread; `std/rt.tua:86` says
  callbacks run on the loop's thread.
- A repeating timer's handle is lost when the freeing task cannot be posted
  (`leaked` in `CallbackBindings`).
- A write that has sent a part and then cannot register its watcher
  (`posix/rt_net_posix.c:631`) returns an error, and the count of what was sent is
  lost (`TcpOps.WriteAsync`, `Refuse`).
- A read whose event says HUP (`posix/rt_net_posix.c:419`) ends with an error even
  when data is left.
- `tua_tcp_connect_async` leaks its job and two strings when the pool refuses it
  (`posix/rt_net_posix.c:376`; the job's state `refused`, of which `ConnectTidy`
  does not ask what it owns), and says NOTFOUND also when every address refused.
- A second write on a socket while the first waits goes out between the first one's parts
  (`posix/rt_net_posix.c:585`; `StreamInOrder` supposes there is none, `Overlap`).
- A failing `accept` leaves the rest of the backlog until another peer comes (line 775; `ConnectionsServed` allows for it).
- `tua_io_cancel` on another thread may free a watcher between the loop's test of
  `active` and the callback (`posix/rt_loop_epoll.c:427`); no caller does that.
- Deadlines multiply milliseconds by 1,000,000 and wrap (`rt/rt_cancel.c:25`); the
  epoll timeout and timers are rounded down to milliseconds.
- String counts and their registry are not synchronised (`tua_str.c:272`), though
  strings may reach other threads through closures.
- `tua_bytes_copy`, `tua_str_from_bytes_copy` and the float conversions add and
  multiply caller's numbers without a test for overflow (`Buffers` with lengths near
  the bound); a NaN may become an infinity or a zero as bf16.
  Overlong UTF-8 is taken for UTF-8.
- When `malloc` or `pthread_create` fails, a matrix pool goes on to join threads that
  were never created (`GemvPool` has no such failure).
- `tua_json_parse_key_path_string_long_map` leaks its map when a text ends right
  after `{`; the merges' keys keep 32 bits of an id.

Parser and lexer:

- `parseBlockStatement` loops forever on a nested block that does not advance
  (`parser.c:1562`); `= 5` where an expression must stand dereferences NULL. Both are
  the `stop` of a parser state.
- `(1) - x` reads as a cast of `-x`; `if (a) == (b) {` is misread; a one-line
  `{ return }` is an error; the parser's backtracking does not restore the line.
- Newlines in comments of several lines do not advance the line; `1.5e` is an
  error token; the literal of an int and the type `int` are one token.

Modules and names:

- `private` is not enforced through a namespace (`llvm/llvm_call.c:3381`,
  `docs/SPEC.md:433`). For types an alias, also one of the prelude, wins over the
  module's own declaration (`compiler.c:1211`), for functions the own one wins;
  importing a name that the module declares, or a module whose default namespace is such a
  name, is not reported (`docs/SPEC.md:467`, `:474`): an error to `LoaderCases`, whose worlds
  have no such import (`Clashes`).
- Cyclic imports are allowed (`docs/SPEC.md:447`), but functions of the module that is
  compiled later are not found. Two paths may have one sanitized prefix. A name the
  standard library exports twice depends on the order of `readdir`.

Kinds and casts:

- Arguments, returns and fields extend unsigned integers by their sign
  (`docs/SPEC.md:96`); only declarations and assignments are in `NumbersExact`.
  Boxing a u32 into `any` does so too, and an f16 becomes nil.
- `x as long` of a double of 2^63 is Some (`docs/SPEC.md:227`). `==` between signs
  is accepted and compares bits.

Ownership (`AllForms`, the last six, and others): a copy of a reference, a
parenthesised move-only variable, moving a string out (which releases twice,
against §10.0 of `docs/SPEC.md`), a constant closure, a lambda that copies a captured
string, a move of a variable that a lambda captures, the capture of a view. Also: a closure that captures a
constant view outlives the borrow, the body of a while moves in each turn, a string
passed to a borrowing parameter loses one release, boxed strings are never freed.

Control flow and closures:

- `break`, `continue` and `goto` leave blocks without dropping their variables
  (`llvm/llvm_loop.c:23`, `llvm/llvm_goto.c`), and so does the tail-call rewriting, where
  `docs/SPEC.md:764` (also `:618`, `:693`) has variables dropped at the end of their scope.
  `LoweringCases` says what the document does, and leaves out jumps from a block that has
  declared a variable by then. The conditions of loops do not go through the truthiness
  that `docs/SPEC.md:154` promises; a for-in over a map with string keys retains in
  each turn and never releases; a goto of a label that is not there
  leaves a block without an end; a label right after a jump is not compiled.
- `exprHasLambdaLiteral` does not look into struct initialisers and casts: a function
  whose only lambda is there captures addresses of its stack. The walker of uses
  has no case for array literals, casts, guard, if-let and unsafe blocks.
- A for-in variable is in a box only where all locals are (`llvm/llvm_for.c:229`); a
  lambda that outlives the loop keeps the address of a slot.
- The environment of a lambda that is passed to a plain function, called at once or
  returned in a chain of calls is never released; a closure's signature is looked
  up by the variable's name alone.

Structs and traits (`Dispatch` is as the code is; of these `DispatchCases` has only the
third):

- A plain field `base: Base` promotes as `...Base` does (`llvm/llvm_expr.c:28`), where
  `docs/SPEC.md:329` names only the latter; for a trait's impl only the latter counts. To
  `DispatchCases` only `...Base` does, and no struct has the other.
- A method called `drop` is taken for the struct's own drop, so that its fields are
  not released (`compiler.c:782`), against `docs/SPEC.md:383`. A method that is defined
  twice, and an impl of an unknown struct, are printed as errors and the compilation
  goes on (`compiler.c:3271`), against `docs/SPEC.md:406`.
- Statements count in their order, of which the documents say nothing: an impl of a trait
  before a nearer method is defined keeps the promoted one in the vtable, and a second impl
  of a pair, with methods, changes calls through a bound but not those of objects.
- A path of 16 or more embedded fields finds nothing, without a message.
- Outside the model: the type of a vtable call with an array parameter is not the
  wrapper's (`typeToLLVMType` of `llvm/llvm_call.c`); assigning to a trait object that
  has been moved drops the old value without a test for null
  (`llvm/llvm_expr.c:3406`); `s.f = s.f` of a string releases it before it is retained.

Generics (`compiler.c:1669`, `llvm/llvm_call.c:1070`): names are mangled alike for
bf16, f8, bf8 and `any`, and for all function types, so such instances are shared
(`docs/SPEC.md:487`); a parameter `&T` given a `Ref<S>` infers `T` as `Ref<S>`; a struct
spelled `S` and `mod__S` conflicts with itself; a message for an inference that
failed reads what has been freed.

## 7. What is not modelled

- `epoll_wait` failing with anything but EINTR ends the loop; the watchers' side
  of that and failing reads of the pipe are left out, as no correct use of the
  descriptors produces them.
- Closing a socket while an operation waits on it (`posix/rt_net_posix.c:62`):
  `TcpOps` is about sockets that stay open. `std/net.tua` leaves that to the program.
- The bindings of TCP and file calls beyond the memory their callbacks free.
- Backends for kqueue and poll: the same interface, not built on Linux; win32,
  which answers `TUA_E_UNSUPPORTED` to everything.
- The string registry's own table: a table like the map's, which doubles and is
  never shrunk; arrays, single operations on one object.
- Mutexes as such: a mutex is the atomicity of the step it protects; lock order
  does not arise, for no path takes two.
- Of the analyzer: what a `Slice` and a `Ref` into a map borrow, for-in's exclusive
  borrow, struct fields, Option. Of the generator: the layout of structs, enums, static
  methods, the moves of trait objects, strings and `any` as operands, the text of
  literals, external functions, attributes.
- Of the loader: reading files and the messages of its errors.
- The kernels of the llm package (quantisation, attention, sampling): numerics over
  floats, in one thread each; the BPE tokenizer's merging.
- Pure I/O (synchronous files, standard streams), the driver, the other packages,
  which are one call of a library each.

## 8. Plan

Done: the modules of section 2. What would come next, in this order:

1. Proofs: `Ownership` with lambdas, for which the count of a box has to cover the
   environments that capture it, and with loop bodies that run twice, for which `Agrees`
   has to hold again at the body's first statement.
2. The registry of managed strings (`tua_str.c`), and closing a socket under an
   operation that waits.
3. When the drops of structs, trait objects and Options run (`compiler.c` 782-933,
   `analyzer.c` 4250-4393), as further kinds of `Ownership`; views into maps in
   `BorrowCheck`.
4. Enums and static methods in `Dispatch`.

## 9. Running

In this directory, `tlc -config Pools.cfg MCPools.tla` and likewise for the other
pairs in `PROJECT.json`; the longest run takes about two minutes. `tlapm M.tla` for
each of the eight proof modules: `PoolsProofs`, `EventLoopProofs`, `IoWatchersProofs`,
`CallbackBindingsProofs`, `FsOffloadProofs`, `TcpProofs`, `TuaMapProofs`,
`OwnershipProofs`; the last takes about eight minutes, the others about two at most.
