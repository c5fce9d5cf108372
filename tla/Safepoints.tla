----------------------------- MODULE Safepoints -----------------------------
(***************************************************************************)
(* When the interpreter of shen-rust lets a deferred collection run, and   *)
(* what that collection can see (interp/eval.rs, vm/exec.rs).              *)
(*                                                                         *)
(* One thread runs a stack of Rust activations: the host at the bottom,    *)
(* then funnels (Interp::eval and apply), tree-walker trampolines,         *)
(* argument buffers held across a dispatch, native functions, VM           *)
(* activations and the direct entries of compiled code (apply_named,       *)
(* apply_direct, apply_value), which a host may call too.  A Value sits    *)
(* either in native words, which the conservative scan finds, or in a      *)
(* malloc'd container, which nothing finds unless it is enumerated.  Four  *)
(* thread-local counters, kept by RAII guards, decide whether a pending    *)
(* request may be served: at an outermost funnel exit, or in the dispatch  *)
(* loop of the only exec.                                                  *)
(*                                                                         *)
(* Handles stand for Cons nodes: a retaining collection sweeps them too.   *)
(***************************************************************************)
EXTENDS Naturals, Sequences, FiniteSets

CONSTANTS
  Handles,      \* nodes the program allocates
  Interps,      \* Interp instances that may live on the thread
  Period,       \* GC_CHECK_PERIOD, ops between two polls of one exec
  MaxFrames,    \* bound: activations on the stack, the host included
  HostContract  \* BOOLEAN: hosts keep to the contract of aot/runtime.rs

ASSUME SafepointConstants ==
  /\ Period \in Nat \ {0} /\ MaxFrames \in Nat \ {0}
  /\ IsFiniteSet(Handles) /\ IsFiniteSet(Interps) /\ HostContract \in BOOLEAN

VARIABLES
  frames,       \* the Rust stack, host first
  tables,       \* Interp -> handles in its tables and pins (gc_roots)
  live,         \* Interps alive
  alive,        \* nodes not swept
  gcActive,     \* GC_ACTIVE: request mode is on for this thread
  pending,      \* Heap::gc_pending
  GC_DEPTH, TW_HAZARDS, EXEC_DEPTH, LIVE_INTERPS,   \* thread-local counters
  unwinding     \* a panic is unwinding the stack

counters == <<GC_DEPTH, TW_HAZARDS, EXEC_DEPTH, LIVE_INTERPS>>
vars == <<frames, tables, live, alive, gcActive, pending, counters, unwinding>>

Kinds == {"host", "funnel", "scope", "buffer", "native", "exec", "direct"}

FrameType ==
  [kind : Kinds, interp : Interps,
   words : SUBSET Handles,     \* in native stack slots and registers
   boxed : SUBSET Handles,     \* in a malloc'd container of the activation
   owned : BOOLEAN,            \* the container exists
   guarded : BOOLEAN,          \* a DepthGuard or EngineGuard counts the frame
   hazard : BOOLEAN,           \* counted in TW_HAZARDS
   counted : BOOLEAN,          \* counted in EXEC_DEPTH
   countdown : 1 .. Period,    \* exec: gc_countdown
   polled : BOOLEAN]           \* exec: past the loop top, at its next op;
                               \* direct: its one call is still to be made

Frame(kind, i, words) ==
  [kind |-> kind, interp |-> i, words |-> words, boxed |-> {}, owned |-> FALSE,
   guarded |-> FALSE, hazard |-> FALSE, counted |-> FALSE,
   countdown |-> Period, polled |-> FALSE]

Top == frames[Len(frames)]
Below == SubSeq(frames, 1, Len(frames) - 1)
WithTop(f) == [frames EXCEPT ![Len(frames)] = f]
Holds(f) == f.words \cup f.boxed
One(b) == IF b THEN 1 ELSE 0

\* A dispatch moves a buffer's contents on and leaves the loop top of an exec.
Suspended(f) ==
  IF f.kind = "buffer" THEN [f EXCEPT !.words = {}, !.boxed = {}]
  ELSE [f EXCEPT !.polled = FALSE]
Pushed(caller, f) == Append(WithTop(caller), f)

AtOp == ~unwinding /\ (Top.kind = "exec" => Top.polled)
Room == Len(frames) < MaxFrames
MayCall == AtOp /\ Room /\ (Top.kind = "direct" => Top.polled)

(* ---- collecting -------------------------------------------------------- *)

ScannedWords(fs) == UNION {fs[k].words : k \in DOMAIN fs}

\* gc_safepoint: an exit that is not outermost, or beside a sibling, declines.
Depth0Allows(depth) == depth = 0 /\ pending /\ LIVE_INTERPS <= 1

\* maybe_collect_mid_run: every malloc'd container on the thread must be ours.
MidRunAllowsHazards == pending /\ EXEC_DEPTH = 1 /\ LIVE_INTERPS = 1  \* mutant
MidRunAllows ==
  pending /\ EXEC_DEPTH = 1 /\ TW_HAZARDS = 0 /\ LIVE_INTERPS = 1

SurvivingOnly(roots) == alive' = alive \cap roots /\ pending' = FALSE

(* ---- the interpreter's activations -------------------------------------- *)

Init ==
  \E i \in Interps :
    /\ frames = <<Frame("host", i, {})>>
    /\ tables = [j \in Interps |-> {}]
    /\ live = {} /\ alive = {}
    /\ gcActive = FALSE /\ pending = FALSE /\ unwinding = FALSE
    /\ GC_DEPTH = 0 /\ TW_HAZARDS = 0 /\ EXEC_DEPTH = 0 /\ LIVE_INTERPS = 0

Callees(f) == IF f.kind \in {"host", "native"} THEN live ELSE {f.interp}

\* Interp::eval and apply, from the host, a native function, the VM's fallback
\* for callees it does not run itself, or the tree-walker (thaw, trap-error,
\* the second half of an over-application).
EnterFunnel ==
  /\ MayCall /\ Top.kind # "funnel"
  /\ \E i \in Callees(Top), w \in SUBSET Holds(Top) :
       frames' = Pushed(Suspended(Top),
                        [Frame("funnel", i, w) EXCEPT !.guarded = gcActive])
  /\ GC_DEPTH' = GC_DEPTH + One(gcActive)
  /\ UNCHANGED <<tables, live, alive, gcActive, pending,
                 TW_HAZARDS, EXEC_DEPTH, LIVE_INTERPS, unwinding>>

\* eval_in: a trampoline starts on a scope borrowed from its caller.
EnterTrampoline ==
  /\ AtOp /\ Room /\ Top.kind \in {"funnel", "scope", "buffer"}
  /\ frames' = Append(frames, Frame("scope", Top.interp, {}))
  /\ UNCHANGED <<tables, live, alive, gcActive, pending, counters, unwinding>>

\* Scope::make_mut and enter_frame: a binding goes to an owned buffer, counted
\* once, when the borrowed scope is first promoted.
Promote ==
  /\ AtOp /\ Top.kind = "scope"
  /\ \E fresh \in BOOLEAN :       \* a tail call clears the old bindings
       frames' = WithTop([Top EXCEPT
         !.boxed = (IF fresh THEN {} ELSE Top.boxed) \cup Top.words, !.words = {},
         !.owned = TRUE, !.hazard = Top.hazard \/ (~Top.owned /\ gcActive)])
  /\ TW_HAZARDS' = TW_HAZARDS + One(~Top.owned /\ gcActive)
  /\ UNCHANGED <<tables, live, alive, gcActive, pending,
                 GC_DEPTH, EXEC_DEPTH, LIVE_INTERPS, unwinding>>

\* A container is counted iff it really is on the malloc heap.
ArmsInline(spilled) == gcActive                                \* mutant
Arms(spilled) == spilled /\ gcActive

\* eval_args' vector, a native call's arguments, the extra arguments of an
\* over-application, call_strict's lambda locals: inline in the native frame,
\* or in a malloc'd buffer with a HazardGuard for as long as it is held.
HoldArguments ==
  /\ AtOp /\ Room /\ Top.kind \in {"funnel", "scope", "buffer"}
  /\ \E spilled \in BOOLEAN, v \in SUBSET Holds(Top) :
       /\ frames' = Pushed(Suspended(Top),
            [Frame("buffer", Top.interp, IF spilled THEN {} ELSE v) EXCEPT
               !.boxed = IF spilled THEN v ELSE {}, !.owned = spilled,
               !.hazard = Arms(spilled)])
       /\ TW_HAZARDS' = TW_HAZARDS + One(Arms(spilled))
  /\ UNCHANGED <<tables, live, alive, gcActive, pending,
                 GC_DEPTH, EXEC_DEPTH, LIVE_INTERPS, unwinding>>

\* The next argument's value joins the ones already in the vector.
PushArgument ==
  /\ AtOp /\ Top.kind = "buffer" /\ Top.owned /\ Top.words # {}
  /\ frames' = WithTop([Top EXCEPT !.boxed = @ \cup Top.words, !.words = {}])
  /\ UNCHANGED <<tables, live, alive, gcActive, pending, counters, unwinding>>

\* apply_named, apply_direct and apply_value called by the host: no guard counts
\* the activation.  It borrows its arguments from an array or a Vec of the host's.
\* Compiled code calls them beneath an activation that is there already.
HostApply ==
  /\ AtOp /\ Room /\ Top.kind = "host"
  /\ HostContract => ~gcActive
  /\ \E i \in live, spilled \in BOOLEAN, v \in SUBSET Top.words :
       frames' = Pushed([Top EXCEPT !.words = @ \ v],
         [Frame("direct", i, IF spilled THEN {} ELSE v) EXCEPT
            !.boxed = IF spilled THEN v ELSE {}, !.owned = spilled,
            !.polled = TRUE])
  /\ UNCHANGED <<tables, live, alive, gcActive, pending, counters, unwinding>>

\* A native call borrows its arguments from the caller's buffer or VM stack,
\* which stays as it is until the call returns.
CallNative ==
  /\ MayCall /\ Top.kind \in {"buffer", "native", "exec", "direct"}
  /\ frames' = Pushed([Top EXCEPT !.polled = FALSE],
                      Frame("native", Top.interp, {}))
  /\ UNCHANGED <<tables, live, alive, gcActive, pending, counters, unwinding>>

\* A native reads what its borrowed argument slice, the frame below, holds.
ReadArguments ==
  /\ AtOp /\ Top.kind = "native"
  /\ \E h \in Holds(frames[Len(frames) - 1]) :
       frames' = WithTop([Top EXCEPT !.words = @ \cup {h}])
  /\ UNCHANGED <<tables, live, alive, gcActive, pending, counters, unwinding>>

\* exec is a public door: it counts as an activation and as an exec, but its
\* own exit serves no request.  It copies its arguments into its own stack.
EngineGuardNone == FALSE                                      \* mutant
EngineGuard == gcActive

EnterExec ==
  /\ MayCall /\ Top.kind \in {"host", "buffer", "native", "direct"}
  /\ \E i \in Callees(Top), v \in SUBSET Holds(Top) :
       frames' = Pushed(Suspended(Top),
         [Frame("exec", i, {}) EXCEPT !.boxed = v, !.owned = TRUE,
            !.guarded = EngineGuard, !.counted = gcActive])
  /\ GC_DEPTH' = GC_DEPTH + One(EngineGuard)
  /\ EXEC_DEPTH' = EXEC_DEPTH + One(gcActive)
  /\ UNCHANGED <<tables, live, alive, gcActive, pending,
                 TW_HAZARDS, LIVE_INTERPS, unwinding>>

\* The top of exec's loop: every Period ops it may collect, with the
\* interpreter's tables and its own stack, frames and constants as roots.
TickedOnce(n) == IF n = 1 THEN 1 ELSE Period                   \* mutant
Ticked(n) == IF n = 1 THEN Period ELSE n - 1

PollRoots == tables[Top.interp] \cup Top.boxed \cup ScannedWords(frames)

Poll ==
  /\ ~unwinding /\ Top.kind = "exec" /\ ~Top.polled
  /\ frames' = WithTop([Top EXCEPT !.polled = TRUE,
                 !.countdown = IF gcActive THEN Ticked(@) ELSE @])
  /\ IF gcActive /\ Top.countdown = 1 /\ MidRunAllows
     THEN SurvivingOnly(PollRoots)
     ELSE UNCHANGED <<alive, pending>>
  /\ UNCHANGED <<tables, live, gcActive, counters, unwinding>>

\* Any other op of the VM: a value moves between words and the VM stack.
VmOp ==
  /\ AtOp /\ Top.kind = "exec"
  /\ \E v \in SUBSET Holds(Top) :
       frames' = WithTop([Top EXCEPT !.polled = FALSE, !.boxed = v, !.words = {}])
  /\ UNCHANGED <<tables, live, alive, gcActive, pending, counters, unwinding>>

\* Allocation may grow the heap past its trigger; it never collects.
Alloc ==
  /\ AtOp /\ Top.kind \in {"scope", "native", "exec"}
  /\ \E h \in Handles \ alive, outgrown \in BOOLEAN :
       /\ alive' = alive \cup {h}
       /\ frames' = WithTop([Top EXCEPT !.words = @ \cup {h}, !.polled = FALSE])
       /\ pending' = (pending \/ (outgrown /\ gcActive))
  /\ UNCHANGED <<tables, live, gcActive, counters, unwinding>>

\* The running Interp's tables: (set), put, defun, host pins; and the reverse.
Access ==
  /\ AtOp /\ Top.kind \in {"scope", "native"}
  /\ \E h \in Handles :
       \/ /\ h \in Holds(Top) /\ h \notin tables[Top.interp]
          /\ tables' = [tables EXCEPT ![Top.interp] = @ \cup {h}]
          /\ UNCHANGED frames
       \/ /\ h \in tables[Top.interp] /\ h \notin Top.words
          /\ frames' = WithTop([Top EXCEPT !.words = @ \cup {h}])
          /\ UNCHANGED tables
       \/ /\ h \in tables[Top.interp]
          /\ tables' = [tables EXCEPT ![Top.interp] = @ \ {h}]
          /\ UNCHANGED frames
       \/ /\ h \in Top.words
          /\ frames' = WithTop([Top EXCEPT !.words = @ \ {h}])
          /\ UNCHANGED tables
  /\ UNCHANGED <<live, alive, gcActive, pending, counters, unwinding>>

(* ---- leaving an activation ----------------------------------------------- *)

\* A HazardGuard remembers whether it counted, not whether it could have.
DisarmsAnyBuffer(f) == (f.owned /\ f.kind = "buffer") \/ f.hazard \* mutant
Disarms(f) == f.hazard

\* The guards of a frame go with it, however it is left.
GuardsDropped(f) ==
  /\ GC_DEPTH' = GC_DEPTH - One(f.guarded)
  /\ TW_HAZARDS' = TW_HAZARDS - One(Disarms(f))
  /\ EXEC_DEPTH' = EXEC_DEPTH - One(f.counted)
  /\ UNCHANGED LIVE_INTERPS

Returned(result) ==
  [Below EXCEPT ![Len(frames) - 1].words = @ \cup result]

Depth0Roots(result) ==
  tables[Top.interp] \cup result \cup ScannedWords(Below)

\* A frame returns a value or an error; a funnel then offers to collect, its
\* depth guard already dropped.
Return ==
  /\ AtOp /\ Len(frames) > 1
  /\ \E result \in SUBSET Holds(Top) :
       /\ Cardinality(result) <= 1
       /\ frames' = Returned(result)
       /\ GuardsDropped(Top)
       /\ IF Top.kind = "funnel" /\ Top.guarded
             /\ Depth0Allows(GC_DEPTH - One(Top.guarded))
          THEN SurvivingOnly(Depth0Roots(result))
          ELSE UNCHANGED <<alive, pending>>
  /\ UNCHANGED <<tables, live, gcActive, unwinding>>

\* A panic drops the guards on its way and offers no collection.
Panic ==
  /\ AtOp /\ Top.kind = "native"
  /\ unwinding' = TRUE
  /\ UNCHANGED <<frames, tables, live, alive, gcActive, pending, counters>>

Unwind ==
  /\ unwinding
  /\ IF Len(frames) = 1
     THEN unwinding' = FALSE /\ UNCHANGED <<frames, counters>>
     ELSE frames' = Below /\ GuardsDropped(Top) /\ UNCHANGED unwinding
  /\ UNCHANGED <<tables, live, alive, gcActive, pending>>

(* ---- Interps come and go -------------------------------------------------- *)

\* maybe_enable_gc: only a sole Interp, made while none is running, may switch
\* the thread's heap to request mode.
MayEnableBesideSiblings(others) == GC_DEPTH = 0                \* mutant
MayEnable(others) == GC_DEPTH = 0 /\ others = {}

NewInterp ==
  /\ AtOp /\ Top.kind \in {"host", "native"}
  /\ \E i \in Interps \ live, wanted \in BOOLEAN :
       /\ live' = live \cup {i} /\ LIVE_INTERPS' = LIVE_INTERPS + 1
       /\ gcActive' = (gcActive \/ (wanted /\ MayEnable(live)))
  /\ UNCHANGED <<frames, tables, alive, pending,
                 GC_DEPTH, TW_HAZARDS, EXEC_DEPTH, unwinding>>

DropInterp ==
  /\ AtOp /\ Top.kind \in {"host", "native"}
  /\ \E i \in live :
       /\ \A k \in 2 .. Len(frames) : frames[k].interp # i
       /\ live' = live \ {i} /\ LIVE_INTERPS' = LIVE_INTERPS - 1
       /\ tables' = [tables EXCEPT ![i] = {}]
  /\ UNCHANGED <<frames, alive, gcActive, pending,
                 GC_DEPTH, TW_HAZARDS, EXEC_DEPTH, unwinding>>

\* The host forgets a handle it kept on its stack.
HostForget ==
  /\ Top.kind = "host" /\ Top.words # {}
  /\ frames' = WithTop([Top EXCEPT !.words = {}])
  /\ UNCHANGED <<tables, live, alive, gcActive, pending, counters, unwinding>>

Next ==
  \/ EnterFunnel \/ EnterTrampoline \/ Promote
  \/ HoldArguments \/ PushArgument \/ HostApply \/ CallNative \/ ReadArguments
  \/ EnterExec \/ Poll \/ VmOp \/ Alloc \/ Access
  \/ Return \/ Panic \/ Unwind
  \/ NewInterp \/ DropInterp \/ HostForget

Spec == Init /\ [][Next]_vars

(* ---- properties ------------------------------------------------------------ *)

\* Every variable has its type; no counter has gone below zero.
TypeOK ==
  /\ frames \in Seq(FrameType) /\ Len(frames) \in 1 .. MaxFrames
  /\ tables \in [Interps -> SUBSET Handles] /\ live \subseteq Interps
  /\ alive \subseteq Handles
  /\ gcActive \in BOOLEAN /\ pending \in BOOLEAN /\ unwinding \in BOOLEAN
  /\ GC_DEPTH \in Nat /\ TW_HAZARDS \in Nat /\ EXEC_DEPTH \in Nat
  /\ LIVE_INTERPS \in Nat

\* No collection sweeps a node that a suspended or running activation, the
\* host's stack or a live Interp's table still holds.
NothingLost ==
  /\ \A k \in DOMAIN frames : Holds(frames[k]) \subseteq alive
  /\ \A i \in live : tables[i] \subseteq alive

\* The counters say what is on the stack: a malloc'd container no root covers
\* is counted while collecting is possible at all, across errors and panics.
Running(kinds) == {k \in DOMAIN frames : frames[k].kind \in kinds}
Containers(kinds) == {k \in Running(kinds) : frames[k].owned}
CountersTellTheStack ==
  gcActive =>
    /\ TW_HAZARDS = Cardinality(Containers({"scope", "buffer"}))
    /\ EXEC_DEPTH = Cardinality(Running({"exec"}))
    /\ GC_DEPTH = Cardinality(Running({"funnel", "exec"}))
    /\ LIVE_INTERPS = Cardinality(live)

\* Compiled code counts on a guarded activation below it: while collecting is
\* possible, no native function and no direct entry runs with the counter of
\* activations at zero (debug_assert_gc_safe_entry).  A host that enters it
\* directly may do so with collecting off; it must not be switched on meanwhile.
EntriesGuarded == gcActive /\ Running({"native", "direct"}) # {} => GC_DEPTH > 0

\* No exit nested in an engine entry sweeps what the entry works on from the
\* malloc heap, a machine's stack or the arguments a native function borrows:
\* eval.rs:283 of exec and aot::runtime::apply_*, "entering one of these pushes
\* the activation depth so that a *nested* `eval`/`apply` exit can never look
\* outermost while the entry's malloc'd state [...] is live".
EntriesKeepTheirState ==
  /\ \A k \in Running({"exec"}) : frames[k].boxed \subseteq alive
  /\ \A k \in Running({"native"}) : frames[k - 1].boxed \subseteq alive

\* A request is served in the VM's loop or with nothing of the interpreter on
\* the stack: then no suspended frame can hold a borrow into a node's payload.
ServedAtRest ==
  [][pending /\ ~pending' =>
       \/ Top.kind = "exec" /\ Len(frames') = Len(frames)
       \/ Len(frames') = 1]_vars

\* A request does not wait on a VM activation that could serve it: while the
\* only exec runs ops with no hazard below it, every turn of its loop serves the
\* request or brings the poll that will one nearer.
CouldServe ==
  gcActive /\ Top.kind = "exec" /\ EXEC_DEPTH = 1 /\ TW_HAZARDS = 0 /\ LIVE_INTERPS = 1
NextPoll(fs) == fs[Len(fs)].countdown
ServedInTime ==
  [][CouldServe /\ pending /\ ~Top.polled /\ ~unwinding =>
       ~pending' \/ NextPoll(frames') < NextPoll(frames)]_vars
=============================================================================
