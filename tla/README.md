# A verification project for shen-rust

shen-rust is a port of the Shen language to Rust. It takes the KLambda (KL) of
the Shen kernel, evaluates it with a tree-walker, with a bytecode machine and
with code compiled ahead of time, keeps every value in a mark-sweep heap of its
own, and wraps the kernel's loader with a cache of typecheck results. These
modules model the parts where an error would be a wrong answer, a dangling
reference or an endless wait rather than a failed unit test, check them with
TLC on small instances, and prove the safety of the heap, the safepoints, the
budgets, the function tables, the typecheck cache and the frames of the bytecode
machine for all values of the constants with TLAPS.

Paths below are relative to `crates/shen-rust/src/` unless they start with
`kernel/`, `crates/` or `tests/`.

## 1. Inventory

### Parts of the system

| Part | Code | State it keeps | Operations |
|---|---|---|---|
| GC heap | `gc/heap.rs`, `gc/node.rs` | blocks of nodes, mark bits, free list, live bitmap, trigger and request flags, `sweep_incomplete` | `alloc_*`, cell writes, `grow`, `collect`, `collect_at_safepoint[_retaining]`, `enable_request_gc`, `Drop` |
| Safepoints | `interp/eval.rs`, `vm/exec.rs`, `value.rs` | thread-local `GC_DEPTH`, `TW_HAZARDS`, `EXEC_DEPTH`, `LIVE_INTERPS`, `GC_ACTIVE`; the Rust stack | funnels, trampolines, hazard guards, `exec`, `gc_safepoint`, `maybe_collect_mid_run`, making and dropping an `Interp` |
| Tree-walker | `interp/eval.rs`, `kl/ast.rs`, `env.rs` | function table, globals, `closure_bytecode` cache | `eval`, `apply`, the special forms, `defun` |
| Bytecode compiler | `vm/compiler.rs`, `vm/opcode.rs` | compile frames, slots, upvalues, jump patches | `compile_fn`, `compile_closure`, `compile_*` |
| Bytecode machine | `vm/exec.rs` | registers, one operand stack, suspended frames | the dispatch loop |
| Budgets | `interp/eval.rs`, `error.rs` | remaining steps, deadline, clock counter | `set_budget`, `set_deadline`, `clear_budget`, `charge_step` |
| Load | `kernel/klambda/load.kl`, `t-star.kl` | types in force, `(tc)` flag | `load`, `shen.typecheck`, `declare` |
| Typecheck cache | `interp/tc_cache.rs` | rolling chain, stack of load contexts, gensym counter, cache directory | `load_wrapper`, `typecheck_wrapper`, `write_cache`, `read_cache` |
| Function tables | `env.rs`, `interp/eval.rs`, `aot/runtime.rs`, `aot/overlay.rs`, `primitives.rs` | function cells, and the direct table of raw fn pointers beside them | `defun`, `register_native`, `register_aot_direct`, overrides and overlays; `apply_named`, `apply_direct` |
| Boot | `interp/boot.rs`, `aot/mod.rs`, `jit/mod.rs` | the order in which everybody above installs | loading the kernel's files or one shaken slice, initialising, installing |
| KL-to-Rust compiler | `crates/klcompile` | none at run time | emits direct, sealed and inlined calls, and `trap-error` |
| JIT | `jit/` | code memory, `pending_error` | compile and call (experimental, off by default) |
| Values | `value.rs`, `primitives.rs`, `symbol.rs` | the interner | tagging, equality, the number tower |
| Periphery | `kl/parser.rs`, `bin/`, `crates/shenffi`, `cedar/`, the code generators, the kernel sources and generated code | - | reading, start-up, command line, C interface |

### How they interact

* **Calls.** The host calls `Interp::eval` or `apply`. The tree-walker calls a
  compiled closure by entering `exec`; `exec` keeps compiled calls on its own
  stack and goes back through `Interp::apply` for the rest. Compiled Rust
  code calls either, through the table. Every pair of engines can be on the
  Rust stack at once, to any depth.
* **Shared state.** All engines share the function table, the globals and the
  heap. Two `Interp`s of one thread share the heap and the four counters, but
  not the tables. Processes share the source files and the cache directory.
* **Callbacks.** Releasing a node runs a host object's `Drop`, and marking runs
  its `gc_edges`; a native function may re-enter its `Interp` or make another.
* **Deferred calls.** Growing the heap only *asks* for a collection. It runs at
  a later safepoint, when the counters say that every handle can be found.

### What is hard, and what makes each part correct

The code runs on one thread per heap; there are no locks. The difficulty is in
*nesting*: what an activation deep in the Rust stack still relies on when
another one, later and higher up, changes the world.

* **Heap.** Unwinds out of the middle of a sweep, collections that see only
  some of the roots, borrows into payloads that are not roots. Correct if
  nothing reachable or borrowed is freed, a payload is released exactly once,
  the free list and the bitmap are exact, and growth is never silent.
* **Safepoints.** Handles in malloc'd containers that nobody enumerates; guards
  that straddle the moment request mode is switched on; panics; sibling
  `Interp`s. Correct if a collection loses nothing the stack holds, and if a
  request is served.
* **VM.** Frames share a stack, tail calls overwrite the frame they read from,
  slots and upvalues are numbered by a compiler that also gives bodies up.
  Correct if it cannot be told from the tree-walker and tail calls take no
  space.
* **Budgets.** Exhaustion must survive handlers, nesting, and another
  evaluation by the same host. Correct if steps and lateness are bounded, a
  cancellation is not caught, and a limited evaluation ends.
* **Typecheck cache.** A verdict is replayed in another process, after edits,
  failures and crashes. Correct if a session cannot tell that it was replayed.
* **Function tables.** A name is bound in a cell and, for compiled callers, in a
  slot; boot binds some names four times, and programs, hosts and overlays go
  on. Correct if every caller gets what the name is bound to, no installer
  covers an override, and the property store is read by the functions that
  filled it.

`PROJECT.json` lists each hazard at the line where it bites and the properties
that would catch it.

## 2. Modules

```
ObjectGraph <-- ObjectStore (abstract)          Values <-- Kl <-- VmCompiler <-- Engines
     ^               ^                          Values <-- VmMachine <-- Engines <-- VmExec
     |               |                          VmMachine <-- VmFrames <-- VmExec <-- VmExecMC
     |               |                          VmFrames <-- VmFramesProofs
     |               |                          Safepoints <-- SafepointsProofs
     +-- GcHeap -----+ refines                  Budget <-- BudgetProofs
           ^-- GcHeapMC, GcHeapProofs           FunctionTable (abstract) <-- Dispatch
                                                      Dispatch <-- DispatchMC, DispatchProofs
KernelLoad (abstract) <-- TcCache <-- TcCacheMC
                             ^-- TcCacheProofs <-- TcReplayProofs <-- TcAlignProofs
```

**GcHeap** (`gc/heap.rs`). One record `heap` holds the fields of `struct Heap`:
node kinds, edges, mark set, free list (as multiplicities, so that a double
push would show), live bitmap, `len`, request mode and trigger. `boxes` counts
the Rust allocations behind a node. Methods are operators on that record
(`Grown`, `Placed`, `MarkPhase`, `Sweep`, `Retuned`), so an allocation that
collects, grows and pops is one action. `SweepEnds` is every place a sweep may
stop: at the end, or at a node whose host `Drop` panics; the node itself is
then already reset. Marking is a least fixed point that skips nodes already
marked, which is why stale marks would be fatal and why an interrupted heap
refuses to collect. `collectionEnabled` tells a heap capped by its constructor,
which collects inside an allocation from a root slice the caller gives, from
the live one, which only asks. The client holds handles in `globals` (precise roots), in
`locals` (seen by the conservative scan, together with arbitrary junk words)
and `borrows` (seen by nobody).

**ObjectStore** is the promise: what the program needs is there and only the
program changes it; anything else may vanish at any time. `GcHeap` implements
it with `content <- kind`.

**Safepoints** (`interp/eval.rs`, `vm/exec.rs`). A stack of activations: host,
funnel (`eval`, `apply`), scope (a trampoline of the tree-walker), buffer
(arguments held across a dispatch), native, exec, and the direct entries of compiled code (`apply_named`,
`apply_direct`, `apply_value`) that a host may call. Each has `words` (native
stack, scanned) and `boxed` (malloc'd, not scanned), and remembers which guards
it holds. Guards are taken only if request mode was on at that moment, as in
the code, and are dropped on return, error and panic alike. `Return` and `Poll` are
the two places that may serve a request; their roots are the ones each place
enumerates in the code. A direct entry takes no guard: `aot/runtime.rs` forbids
it to a host once collecting is on. `HostContract` says whether hosts obey; with
collecting off they may always enter, and the model lets them.

**Values, Kl, VmCompiler, VmMachine, Engines, VmExec.** `Values` has the tagged
values, `Kl` expressions, scopes and the world a program acts on. `VmCompiler` is
the compiler as a function from bodies to instructions, including what it
refuses. `VmMachine` is one activation of `exec`: its registers, the operand stack
and the suspended frames, and one op (`Step`), whose second argument is what a
callee answers that the machine does not run itself. `Engines` ties the knot:
the tree-walker (`Eval`, `Apply`) runs a compiled closure by running the machine
to its end (`Run`), and the machine gets its answers from native functions and
from `Apply` (`Elsewhere`). Integers past `FixnumMax` become floats, as `add` and
the inlined primitive do it. `VmExec` runs one outer activation op by op. Indices
are 0-based as in the code.

**VmFrames** is the same activation with everything around it left open: any
code, values and functions, and any answers of the callees. `exec` checks little
of what it runs, as it trusts the compiler; `WellFormed` says what it trusts.
From the code alone, `Heights` gives the number of operands above the locals
before each op that control can reach (a jump behind a tail call is `Dead`);
each op must find its operands in its own frame, name a slot or an upvalue that
exists, and go on only where the height agrees. `Contract` asks that compiled
code is well formed when a call enters it, and that callees run elsewhere come
back without an internal error. `VmExec!KeepsContract` holds the compiler, the
tree-walker and nested activations to it.

**KernelLoad** is the loader without a cache, for several sessions over shared
files. A typecheck is a lookup of the types in force. **TcCache** adds the
cache around the same actions and implements `KernelLoad` by keeping its
variables unchanged in name and meaning. Hashes are injective; the cache file
is written by its system calls (open and truncate, write, rename, remove), each
a step at which the process may die or another may act. `TypeNames` are the
types a file may mention; `TypeOK` says besides the types of all records that a
session has exactly one context per load in progress, whichever way loads end.

**Dispatch** (`env.rs`, `interp/boot.rs`, `primitives.rs`, `aot/`, and where the
JIT and the cache install). `tables` has the cells and the slots. A function is
what it computes (`of`), its arity, and the engine that runs it (`code`); the
kernel's body is the same function when walked, compiled or jitted. `Boot` is
the order of the two boot sequences, and each step of it is an action, guarded
by what the environment asks for (`config`). Then the kernel runs: programs and
the host rebind names, a source is loaded, its overlay is installed, properties
are used, and three kinds of callers call: by name, from compiled code through
the slot, and sealed, which names the Rust function itself. `layouts` collects
the meanings of `hash`, `put` and `get` at every use of the property store, and
whether that was while the source was loading: a slice of the S42 kernel
(`config.fills`) has no `shen.initialise`, and its declarations put the
properties themselves.
**FunctionTable** is the promise: one table, and a call does what the entry
bound at that moment does with the arguments it gets. `Dispatch` implements it
with `table <- Table`, the meanings of the cells; sealed calls are outside, as
they have their own property.

**Budget** (`charge_step` and its neighbours). A stack of activations of the
tree-walker, the VM and compiled code, with the mark `trap` on a caller inside
a `trap-error`.

A trailing `\* mutant` marks an operator that is not part of the model. It is
the form of the definition below it that a plausible bug would take;
`PROJECT.json` pairs each with the property it violates.

## 3. Runs

| Run | Shows | Bounds |
|---|---|---|
| `gc_request` | a capped heap or the live one, grow-only and then in request mode: safety of memory, free list, payloads; no silent growth; a poisoned heap stays so; implements `ObjectStore` | 3 one-slot blocks, `Cons` and `Closure` nodes, 2 locals, 1 global, 1 borrow; cap 2 |
| `gc_footprint` (violated) | the heap of a client with a constant live set grows without bound | one live leaf, 6 blocks |
| `safepoints` | no collection loses a handle; the counters tell the stack; natives run counted; requests are served, and only at rest | 1 handle, 2 `Interp`s, 5 activations, a poll every 2nd op |
| `safepoints_host` (violated) | a host that enters compiled code directly with collecting on | 1 handle, 1 `Interp`, 4 activations |
| `vm` | VM and tree-walker agree, the machine never breaks, frames stay apart, the compiler's code is well formed wherever it is entered, tail calls are flat, it halts | all forms nested two deep around three atoms, each with the largest fixnum and a boolean as argument; 16 loops, 0 to 4 turns; operands up to 3, jumps up to 12; 200 ops |
| `tc_edits` | with the cache every load is the kernel's load, no gensym twice, no torn recording left, one context per load | one session at a time, 3 files, 5 moves |
| `tc_stable` | what was recorded is replayed, and to its end; only a crash leaves a torn file | two sessions at once, 3 files, 4 moves |
| `tc_half_done` (violated) | a load that fails after changing a type | 2 files, 5 moves |
| `dispatch` | slots mirror cells, one property store once the source is loaded, overrides stand, calls implement `FunctionTable` | 11 names, one of each sort, in 3 files; every boot configuration; 2 names rebound; up to 2 arguments |
| `dispatch_sealed` (violated) | a sealed call runs the kernel's body of an overridden name | the same |
| `budget` | steps within the grant, less than a period late, cancellations only unwind, limited evaluations end | budget 3, period 3, 3 activations, all engines |
| `budget_swallowed` (violated) | compiled `trap-error` catches a cancellation | the same |

### Why these bounds are enough

* *Heap.* One slot per block makes every allocation a growth, so each order of
  growth, request and collection occurs. Three slots are enough for an
  interrupted sweep with a node before, at and after the panicking one, and
  for a cycle with a node hanging off it. A capped heap collects with slots to
  spare and without. The proofs below remove the bounds.
* *Safepoints.* Five activations hold host, funnel, buffer and exec with one
  more on top: the deepest chain in which a lower container and two execs
  interfere. The counters treat handles alike, so one handle is enough for
  one to be lost; two `Interp`s are one more than `LIVE_INTERPS` allows. A
  period of 2 makes op without and op with a poll alternate. The proofs remove
  these bounds too. The host's trace needs four: host, direct entry, native,
  funnel.
* *VM.* Two levels put every form in every position of every other: what a form
  needs of its context (slots, tail position, operands below) is decided by
  the form directly around it. The loops add what depth does not: turns,
  mutual calls, captured loop variables. Small operand limits make the
  compiler refuse some bodies, so that compiled and walked functions mix;
  `FixnumMax` 3 puts the boundary of the number tower in reach of every sum.
  `MaxOps` is beyond the longest of these runs, so a loop that never ends runs
  past it, and `Finishes` fails.
* *Cache.* A move is a file loaded at the top, an edit or a crash; starting is
  free. Five moves allow: load, edit, crash, load, and one more of them. Nested
  loads, loads under traps, `(tc -)` in between, macros and unhashable values
  are in the files. Two sessions are all that can contend for one temporary
  file; they need two loads each, to record and to replay.
* *Dispatch.* What a step does to a name depends only on the sets the name is
  in, so one name per combination that occurs is enough; the proofs remove the
  bound.
* *Budget.* A period of 3 differs from a budget by one either way; three
  activations hold a trap, its callee, and a handler above.

### Fairness

* `Budget` alone states liveness, `LimitedEnds`, under `WF_vars(Runs)`, an
  evaluation that can go on does, and `WF_vars(Expire)`, a deadline passes in
  time. One thread runs and waits for nothing, so the code justifies the first;
  nothing is assumed of the host.
* Where a bound says more than "eventually", it is stated as one. `ServedInTime`
  says that each turn of the VM's loop serves a request or brings its poll
  nearer; `Finishes` that a program ends within a number of ops. Neither needs
  fairness.

Deadlock is checked in `Dispatch`, whose kernel runs on for ever. It is not
elsewhere: a machine that has halted, a heap that was dropped, a user out of
moves and an idle host really stop.

## 4. What is proved

Eight modules prove, for every value of the constants that the `ASSUME`s of their
components admit (positive block size and period, natural bounds, kinds among
the real ones, finite sets of nodes and `Interp`s, names in their files,
contents that are sequences of forms):

* **GcHeapProofs**: `TypeCorrect`, `MemorySafety`, `SingleRelease`,
  `FreeListCorrect`, `GrowthIsPaced`, `PoisonIsFinal` and `Refinement`
  (`Spec => ImplementsStore`).

  `NoUseAfterFree` is not inductive. A collection may free only unmarked
  nodes, so one needs that marking covers what is reachable; it skips marked
  nodes, so that needs that *no mark survives a collection*, unless a
  sweep was interrupted; a slot is reused from the free list, so that must be
  exact; and an allocated node must not name a free one, because a new node in
  that slot would appear in it. `HeapInv` says these of one heap record: edges
  closed over allocated nodes and no marks, both unless `sweepIncomplete`; free
  list and bitmap exact; one box per payload. `Inv` adds that what the client
  reaches is allocated. The argument follows the code: `SweepKeepsInv` (for
  every end of a sweep), `MarkPhaseComplete`, `CollectKeeps`, then
  `CollectReclaims`: at depth 0 there are no borrows, and in the middle of a
  run every node with a payload is a root. Each action then either moves
  handles, reclaims or allocates, and each of these is a step of `ObjectStore`.

  `NoSilentGrowth` is inductive next to `Inv`: a heap that grew without a
  request was still short of its trigger, and whatever lowers the trigger
  (`Retuned`) starts the count anew. `PoisonIsFinal` is about steps: a poisoned
  heap refuses, and a free slot is all that an allocation can overwrite.

* **SafepointsProofs**: `TypeCorrect`, `CountersAgree`, `NativesAreGuarded`,
  `ServedOnlyAtRest`, `ServedWithinPeriod`, `NothingIsLost`.

  The guards remember whether they counted, so the invariant `SInv` counts
  *flags*: each counter is the number of frames whose flag is set (`Counts`,
  by the lemmas `CountPush`, `CountPop`, `CountTop`), and `Stack` says which
  frames carry which flag once collecting is possible, that the frame above the
  host is a guarded door or a direct entry, and that all frames belong to living `Interp`s. A
  counter below zero is impossible because the frame that leaves is counted.
  `CountersAgree` follows for every host. `NativesAreGuarded`, `ServedOnlyAtRest`
  and `NothingIsLost` assume `HostContract`, and are false without it (run
  `safepoints_host`): a direct entry is then made only with collecting off, and
  that it stays off beneath the entry is a fact about `maybe_enable_gc`, which
  counts the entry's `Interp`. `NothingIsLost` adds `Kept`
  (what stack and tables hold is alive). Its two hard steps are the two
  safepoints: at a funnel's exit a depth of zero means the host alone is below
  (`LastDoor`); in the VM's loop `EXEC_DEPTH = 1` and `TW_HAZARDS = 0` mean that
  the only malloc'd container is the machine's own (`OnlyOne`), and
  `LIVE_INTERPS = 1` that its tables are all there are (`OneInterp`).

* **DispatchProofs**: `TypeCorrect`, `DirectTableMirrors`, `StoreIsOne`,
  `OverridesPrevail` and `Refinement` (`Spec => ImplementsTable`).

  `Mirrors` needs more: compiled callers pass the arity of the generated code
  and nobody compares it with the slot's, so `Coherent` says that they agree;
  and `install_jit` fills a slot without writing the cell, so `LeafIsKernel`
  says that the cell still holds the kernel's function by then. The store is
  settled (`StoreIsSettled`) except between the installation of the compiled
  kernel and that of the overrides, when nothing uses it: this is why the order
  of boot matters. `StoreAssumption` says what the proof takes from outside: no
  file after `sys.kl` defines `hash`, and nobody rebinds the functions of the
  store, which the kernel refuses for its system functions. `StoreIsOne` excepts,
  as `PropertiesFindable` does, what a slice puts while it loads (section 5).

* **BudgetProofs**: `TypeCorrect`, `BudgetRespected`, `DeadlineRespected`,
  `CancellationNotTrapped`.

  `WithinBudget` follows from `Balanced` (charged plus remaining stay within the
  grant). `WithinPeriod` needs `Counted`: every late step has turned the
  counter, and once it wraps the steps are parked at zero, so that a handler
  cannot go on. `CancellationUnwinds` needs `Remembered`: while `compiled` is
  false no activation on the stack is compiled code. `Room` bounds the stack
  while something runs.

* **TcCacheProofs**: `TypeCorrect`, `GensymsMoveOn`, `OnlyCrashesTear`, and
  three theorems of `NoTornLeft`.

  `TypeOK` is inductive and holds the one thing every other argument about the
  cache stands on: contexts and loads in progress match one to one, whether a
  load ends, fails, fails under a trap or never finds its file. Torn files need
  `FilesOwned`: an inode has one path, and whoever links or holds it has the
  same key, so a rename publishes what was written under that key. `TornKept`
  then follows a torn inode to the writer who still holds it. It is kept by
  every step except a crash of a writer whose temporary file another session
  also holds (`CrashesApart`), which is a real way to leave a torn file
  (section 5): `NoTornFiles` assumes that away, `NoTornFilesAlone` assumes that
  no two sessions write under one key at a time, and `NoTornFilesOfOne` assumes
  only that there is one session. `OnlyCrashesTear` is the other side: with any
  number of sessions under one name, a torn inode without a writer appears only
  in the step in which the session writing it ends (`OrphansStep`).

* **TcReplayProofs**: `ReplayIsSound` and `ReplayIsSoundUnfailing`
  (`ImplementsLoad`).

  The comment "Same key => same environment" is the theorem. A *place* is what a
  session has completed (the chain) and where it stands in each load in
  progress. Every place but the first has one place before it, so `Reach`, the
  least set of pairs (place, types in force) closed under the steps of a load,
  gives each place one set of types (`ReachUnique`). The proof then shows that
  the key and the checkpoints of a context tell the place (`PlaceIn`): the
  digest of an enclosing load holds one chain per load form it has passed, so
  counting chains finds the load form it waits at (`LoadsTellApart`, `FrameOf`),
  and whether a digest begins with the hash of a form tells whether that load
  typechecks. The invariant `Sound` says of each session that is still
  recordable that it is at such a place with these types (`Standing`), that
  contexts keep step with their loads (`Level`, `Link`), and of each recording,
  in memory or on disk, that its verdicts are those of the places it names
  (`SoundRecording`). A poisoned context keeps its place, but what it has of a
  recording is no longer used.

  The two hypotheses are what the code needs. `EditsApart`: no file changes
  between the wrapper's hash and the kernel's read. `FailuresLeaveNoTrace`: no
  trap catches a load that fails, and once the failure has taken the enclosing
  loads down, the types in force are those its completed loads tell. Without
  either, TLC finds the replay unsound (section 5). `ReplayIsSoundUnfailing` has
  plainer hypotheses: edits wait for reads, and no failure unwinds.

* **TcAlignProofs**: `ReplaysAlign` and `ReplaysAlignUnedited`
  (`ReplaysAligned`), `RepeatsAreReplayed` and `RepeatsAreReplayedUnedited`
  (`RepeatsReplay`).

  On a disk that stays as it is, which chains and `(tc)` flags a load goes
  through is a function of where it starts (`Walk`, `WalkUnique`). Every
  recording is `Whole`: its checkpoints are those of the walk from its key. A
  replay that has the same key follows the same walk, so each nested load
  returns with the chain the recording has next, each form has the hash it has
  next, and the replay is never poisoned. The hypothesis is that nobody edits
  and no load is given up: an edit of a nested file or a failure is what the
  code answers by poisoning the replay. `ReplaysAlignUnedited` asks the first
  of the constants instead of the behaviour.

  That a repeated history is replayed is a statement about keys, and a key holds
  the gensym counter beside the history: the pins of a replay must leave the
  counter where the recorded work left it. Every place has a last way into it,
  which costs what the kernel's read, or the check and the evaluation of one
  form, spends; `Count` is the least set of pairs (place, gensyms spent) closed
  under these ways, and gives each place one number (`CountUnique`). The
  invariant `Counted` says that a session that is still recordable has spent the
  number of its place, plus the check of a form it is about to evaluate; that
  every key has the number of the place where its load began (`CountsKey`); and
  that every entry and end of a recording, in memory or on disk, pins to the
  number of the place it is served at (`CountsRecording`). So a replayed verdict
  and a computed one leave the same counter (`CheckingCounts`), as do a replayed
  and a computed load (`EndedCounts`), and two keys with one history are equal
  (`SameKey`). The hypothesis is that of `ReplaysAlign`, whose invariant this one
  stands on: a poisoned replay, or a load given up, leaves a counter that no
  history tells, and later loads miss their recordings.

* **VmFramesProofs**: `ExecSound`, `WellFormedNeverBroken`, `FramesApart` and
  `CallersKept`, of `VmFrames!Exec`.

  `StackLaidOut` says of each frame that it starts right above the operands of
  its caller, and of the running one that it has as many operands as `Heights`
  says. It is inductive together with what makes the frames go on (`Sound`): the
  running code is well formed and stands at a live op, and a suspended frame
  stands at an op whose height counts the result it waits for, so at least one.
  An op that stays in its frame changes the depth by its `Effect` and touches
  nothing below its locals (`GoesOn`). A call takes its callee and arguments
  from its own frame, so the new frame begins where the caller's operands end
  (`EnteredGood`); a tail call moves the arguments down to where the frame began
  and resizes (`ReplacedGood`), a self tail call moves them and cuts the
  rest (`SelfTailCallOp`); a return cuts down to the callee's slot, which leaves
  the caller with the height it waits for (`Leaves`). That `exec` never meets one
  of its internal errors is `WellFed`: each check of the code is implied.

  The argument is one of assumption and guarantee. Its assumption, `Contract`, is
  what TLC checks on all programs of the run `vm` as `KeepsContract`; a callee that
  is itself an activation of `exec` keeps its half of it by this very theorem.
  That the compiler emits well-formed code for *every* body would be an induction
  over expressions.

Reachability is written as the intersection of all closed sets (`ObjectGraph`,
`Reach`, `Walk`), so the proofs exhibit closed sets and need no induction.

### Only model-checked

* `LimitedEnds`: fairness and `ENABLED` are outside the prover's reach.
* `Equivalent`, `TailCallsStayFlat`, `Finishes` and `KeepsContract` of `VmExec`:
  they speak of the compiler and of both evaluators, which are recursive over
  expressions, and that is out of the prover's reach.

## 5. Where code and words disagree

Runs that find a violation:

1. `gc_footprint`: the trigger is evaluated only inside `grow`, which adds a
   block anyway (`gc/heap.rs:429`). Every time the free list runs dry one block
   is added for good. README.md:77 promises a bounded heap.
2. `safepoints_host`: the comment of `EngineGuard` (`interp/eval.rs:280`) says
   that `aot::runtime::apply_*` push the activation depth. They do not
   (`aot/runtime.rs:31-60`): the duty is the host's, and a debug assertion
   looks. A host that ignores it has a funnel exit nested in its call collect
   over the arguments the running native function borrows.
3. `tc_half_done`: a top-level load that fails after a `declare` leaves the
   rolling chain alone, so the next load has a key recorded under other types
   (`interp/tc_cache.rs:638`).
4. `budget_swallowed`: the match that klcompile emits for `trap-error` ignores
   the kind of the error (`crates/klcompile/src/lib.rs:1088`).
5. `dispatch_sealed`: `SEAL_EXCLUDE` lacks `shen.x.features.current`
   (`crates/klcompile/src/lib.rs:1502`), which boot overrides, so the calls of
   that name in its own file keep the kernel's body. The comment at the seal
   says that overrides win after install.

Seen while modelling, without a run:

* `compile_cond` yields `()` when no clause applies (`vm/compiler.rs:613`); the
  tree-walker raises "cond: no clause matched" (`interp/eval.rs:1285`). Every
  `cond` of the programs of `vm` therefore ends in a clause that applies.
* A slice of the S42 kernel fills the property store by top-level forms of its
  declarations (`interp/boot.rs:440-447`), by the slice's own `hash` and `put`;
  `boot_from_kl_source` installs the natives only after that (`boot.rs:282-283`),
  where `primitives.rs:41-46` wants them live before. `PropertiesFindable`
  excepts these uses. Without the exception TLC finds the trace: load the slice,
  install, use a property. The vendored 43.2 kernel, and the 41.2 slice, which
  has `shen.initialise`, are not affected.
* Inlined `vector?` tests for an absvector with a non-negative integer in slot
  0 differently from the kernel's definition (`vm/compiler.rs:738`,
  `kernel/klambda/sys.kl`). `Kl!CallNative` is the kernel's; no program of the
  run applies it to an absvector.
* `SelfTailCall` jumps into the running code even if the function has been
  redefined by that code in the meantime. Programs that redefine are left out.
* `load_wrapper` hashes the file and the kernel reads it again
  (`tc_cache.rs:550`). An edit in between is recorded under the old content's
  key; `EditsAnyTime = TRUE` shows it as a violation of `ImplementsLoad`.
* Two sessions that record one key use the same temporary name
  (`tc_cache.rs:480-487`): the second truncates the file the first is about to
  rename, and a crash then leaves a torn recording. Readers take it for a miss,
  so `ImplementsLoad` is not affected; `NoTornLeft` is checked with one session,
  and `NoTornFiles` names the crash that breaks it with several. What holds with
  two sessions is `TornOnlyByCrash`.
* A failed load under a trap need not change a type to make a replay unsound. It
  poisons the context around it, whose digest then stands still
  (`tc_cache.rs:734`), so a load nested further on has a key that does not count
  it. Let `p` be a trapped load of `a`, a declaration of `g`, and a plain load
  of `a`; let `a` use `g`. One session loads `p`. Another loads `a` twice, which
  fails, and then `p`: the trapped load of `a` replays a verdict for a `g`
  that nobody has declared. `ReplayIsSound` therefore excludes failures that a
  trap catches.
* A slot is called without comparing the arguments with the arity
  (`aot/runtime.rs:43-47` says partial applications fall back). A compiled call
  with too few arguments of a name with a slot fails; no `.kl` file of the
  kernel makes one, so compiled calls of the model are saturated.
* An overlay checks that its names are bound and have its arity. Over a
  redefinition of equal arity made before the install it is more than the
  "pure speed swap" of `aot/overlay.rs:12`.
* The sealed call of `shen.length-h` in `sys.kl` bypasses the JIT's slot for
  it. Both compute the same; only speed is lost.
* `tc_cache.rs:862` says that `register_native` does not clear the direct slot;
  it does (`interp/eval.rs:735`).
* The JIT's `cond` without a clause that applies also answers the empty list
  (`jit/codegen.rs`, `lower_cond_tail`), like the bytecode.
* Compiled code charges no steps. `LimitedEnds` and `CancellationUnwinds`
  therefore except evaluations that entered it.

## 6. Not modelled

Of the 156 thousand lines of Rust about 135 thousand are the kernel's own `.kl`
files in another form, written by klcompile into `aot/kernel/`. They have no
logic of their own: what a kernel function computes is the kernel's affair, and
how compiled code calls, charges and traps is in `Dispatch` and `Budget`. So
the definitions here translate a small share of all lines, but about a fifth of
the hand-written ones, and the larger part of those that keep state. The rest:

* *The prover* behind `shen.typecheck`: a lookup of types keeps what matters to
  the cache, that a verdict depends on everything declared before.
* *Reader, command line, C interface, code generators, interner, Cedar demo*:
  sequential code whose errors tests find.
* *Primitives* other than integer addition, equality, `number?` and the ones
  that override kernel functions: pure functions of their arguments.
* *The registers and words of the conservative scan*: one set of words; that
  the scan sees every register is a matter of its assembly.
* *JIT code generation and its error slot*: experimental, off by default, and
  refused when collection is on. General jitted code tests the error flag after
  each call that may fail. Where jitted functions enter the direct table is in
  `Dispatch`.
* *The receipt of an overlay* (hashes of source, kernel and format): one test
  that passes or not; what passing does not cover is in section 5.
* *The address-keyed cache of closure bodies* grows with the program
  (`interp/eval.rs:354`); no bound is promised, so none is checked.

## 7. Plan

1. `Interp` redefinition inside loops for the VM: `SelfTailCall` against a
   function that has been rebound.
2. The translation of klcompile for binding forms, against the tree-walker, as
   `VmCompiler` does for bytecode.

## 8. Running

    tlc -config GcHeapRequest.cfg GcHeapMC.tla
    tlapm GcHeapProofs.tla

The module and the configuration of each run are in `PROJECT.json`. The longest
runs take a minute or two with two workers; the proofs, from nothing, about as
long each, `TcReplayProofs` and `TcAlignProofs` up to ten minutes.
