------------------------------- MODULE GcHeap -------------------------------
(***************************************************************************)
(* The non-moving mark-sweep heap of shen-rust (gc/heap.rs): allocation,   *)
(* growth by whole blocks, the request-mode trigger, the full, retaining   *)
(* and cap collections, a sweep interrupted by a panicking payload Drop    *)
(* and the poisoned heap it leaves.  One record `heap` holds the fields of *)
(* struct Heap; operators on it stand for the methods, so that a handler   *)
(* which collects, grows and pops in one call is one action.               *)
(*                                                                         *)
(* The client of the heap is the interpreter: handles in its containers    *)
(* (globals, enumerated precisely), handles in native frames (locals,      *)
(* found by the conservative scan) and borrows into node payloads held by  *)
(* suspended frames (borrows, found by nobody).                            *)
(***************************************************************************)
EXTENDS Naturals, FiniteSets

CONSTANTS
  Block,        \* BLOCK_SIZE, slots added by one grow
  MaxBlocks,    \* bound: blocks a run may add
  Kinds,        \* node kinds the client allocates (bound on the inputs)
  MaxEdges,     \* bound: edges of one node
  MaxLocals, MaxGlobals, MaxBorrows,   \* bounds: handles of each sort
  Modes,        \* collection_enabled of the heaps to make: TRUE Heap::new(cap),
                \* FALSE Heap::grow_only()
  Cap,          \* soft node-count cap of Heap::new
  Floor,        \* trigger floor given to enable_request_gc
  UsizeMax      \* usize::MAX, the trigger of a heap not in request mode

Nodes == 0 .. Block * MaxBlocks - 1

AllKinds     == {"Cons", "Float", "Vec", "Blob", "Closure", "Opaque"}
PayloadKinds == {"Vec", "Blob", "Closure", "Opaque"}  \* own a Rust allocation
TracedKinds  == {"Cons", "Vec", "Closure"}            \* have outgoing edges
HostKinds    == {"Closure", "Opaque"}                 \* run host code on Drop

ASSUME ConstantsAssumption ==
  /\ Block \in Nat \ {0} /\ MaxBlocks \in Nat /\ MaxEdges \in Nat
  /\ MaxLocals \in Nat /\ MaxGlobals \in Nat /\ MaxBorrows \in Nat
  /\ Kinds \subseteq AllKinds
  /\ Modes \subseteq BOOLEAN /\ Cap \in Nat /\ Floor \in Nat
  /\ UsizeMax \in Nat

INSTANCE ObjectGraph

VARIABLES
  heap,      \* the fields of struct Heap that change
  collectionEnabled,   \* the one that its constructor fixes
  globals, locals, borrows,
  retunedAt  \* history: heap.len when the trigger was last computed

client == <<globals, locals, borrows>>
vars == <<heap, collectionEnabled, globals, locals, borrows, retunedAt>>

Held == globals \cup locals

(* ---- struct Heap ----------------------------------------------------- *)

NewHeap ==
  [kind |-> [n \in Nodes |-> "Free"],   \* Node::kind, of every slot to come
   edges |-> [n \in Nodes |-> {}],      \* slots named by the payload words
   boxes |-> [n \in Nodes |-> 0],       \* live Rust allocations behind the node
   mark |-> {}, liveBits |-> {},
   free |-> [n \in Nodes |-> 0],        \* occurrences on the free list
   len |-> 0,                           \* all.len()
   requestMode |-> FALSE, gcPending |-> FALSE,
   lastLive |-> 0, liveAtLastCollect |-> 0,
   nextTrigger |-> UsizeMax, minTrigger |-> 0,
   sweepIncomplete |-> FALSE,
   dropped |-> FALSE]                   \* Heap::drop has run

HeapType ==
  [kind : [Nodes -> AllKinds \cup {"Free"}], edges : [Nodes -> SUBSET Nodes],
   boxes : [Nodes -> Nat], mark : SUBSET Nodes, liveBits : SUBSET Nodes,
   free : [Nodes -> Nat], len : Nat,
   requestMode : BOOLEAN, gcPending : BOOLEAN,
   lastLive : Nat, liveAtLastCollect : Nat,
   nextTrigger : Nat, minTrigger : Nat,
   sweepIncomplete : BOOLEAN, dropped : BOOLEAN]

All(h)       == 0 .. h.len - 1
Allocated(h) == {n \in Nodes : h.kind[n] # "Free"}
FreeSlots(h) == {n \in Nodes : h.free[n] > 0}

(* ---- growth and slots ------------------------------------------------- *)

\* Footprint has grown past the last live set by the trigger.
OutgrownLate(h) == h.len > h.liveAtLastCollect + h.nextTrigger   \* mutant
Outgrown(h) == h.len >= h.liveAtLastCollect + h.nextTrigger

GrownOneMore(h) ==                                               \* mutant
  LET block == h.len .. h.len + Block
  IN [h EXCEPT !.gcPending = h.gcPending \/ (h.requestMode /\ Outgrown(h)),
               !.len = h.len + Block,
               !.free = [n \in Nodes |-> IF n \in block THEN h.free[n] + 1
                                                       ELSE h.free[n]]]
Grown(h) ==
  LET block == h.len .. h.len + Block - 1
  IN [h EXCEPT !.gcPending = h.gcPending \/ (h.requestMode /\ Outgrown(h)),
               !.len = h.len + Block,
               !.free = [n \in Nodes |-> IF n \in block THEN h.free[n] + 1
                                                       ELSE h.free[n]]]

CanGrow(h) == h.len + Block <= Block * MaxBlocks

\* Pop slot n off the free list and write the node into it.
Placed(h, n, k, ops) ==
  [h EXCEPT
    !.free = [h.free EXCEPT ![n] = @ - 1],
    !.liveBits = h.liveBits \cup {n},
    !.mark = h.mark \ {n},
    !.kind = [h.kind EXCEPT ![n] = k],
    !.edges = [h.edges EXCEPT ![n] = IF k \in TracedKinds THEN ops ELSE {}],
    !.boxes = [h.boxes EXCEPT ![n] = IF k \in PayloadKinds THEN @ + 1 ELSE @]]

(* ---- mark --------------------------------------------------------------- *)

\* mark_edge ignores a node already marked: its edges are not followed again.
Enqueued(h, roots) ==
  {n \in Nodes : \A S \in SUBSET Nodes :
     /\ roots \ h.mark \subseteq S
     /\ \A m \in S : h.edges[m] \ h.mark \subseteq S
     => n \in S}

RetainSeedsNoClosure(h) == {n \in All(h) : h.kind[n] \in {"Vec", "Blob", "Opaque"}} \* mutant
RetainSeeds(h) == {n \in All(h) : h.kind[n] \in PayloadKinds}

\* The scan takes a word for a root only if it names a slot whose bit is set.
MarkPhase(h, precise, words, retain) ==
  h.mark \cup Enqueued(h, (IF retain THEN RetainSeeds(h) ELSE {})
                            \cup (words \cap h.liveBits) \cup precise)

(* ---- sweep -------------------------------------------------------------- *)

\* Where a sweep may end: past the last slot, or at a node whose Drop panics.
SweepEnds(h, M) ==
  {h.len} \cup {n \in All(h) \ M : h.kind[n] \in HostKinds}

\* The nodes a sweep that ends at `end` takes from the unmarked ones; that
\* order of `all` decides what an unwind leaves behind.
Swept(h, M, end) == {n \in All(h) : n < end} \ M
Dropped(h, M, end) == {n \in All(h) \ M : n <= end}

\* free_resource resets a node to Free before it runs the payload's Drop: the
\* node whose Drop panics is reset too.
ResetNodesLate(h, M, end) == Swept(h, M, end)              \* mutant
ResetNodes(h, M, end) == Dropped(h, M, end)

FreeResources(h, M, end) ==
  LET reset == ResetNodes(h, M, end)
  IN [h EXCEPT
       !.kind = [n \in Nodes |-> IF n \in reset THEN "Free" ELSE h.kind[n]],
       !.edges = [n \in Nodes |-> IF n \in reset THEN {} ELSE h.edges[n]],
       !.boxes = [n \in Nodes |->
                   IF n \in Dropped(h, M, end) /\ h.kind[n] \in PayloadKinds
                   THEN h.boxes[n] - 1 ELSE h.boxes[n]]]

\* The free list is cleared and rebuilt; an unwind skips the last push.
RebuiltFreeStale(h, M, end) ==                             \* mutant
  [n \in Nodes |-> IF n \in Swept(h, M, end) THEN h.free[n] + 1 ELSE h.free[n]]
RebuiltFree(h, M, end) ==
  [n \in Nodes |-> IF n \in Swept(h, M, end) THEN 1 ELSE 0]

Sweep(h, M, end) ==
  [FreeResources(h, M, end) EXCEPT
    !.mark = {n \in M : n > end},
    !.liveBits = h.liveBits \ Dropped(h, M, end),
    !.free = RebuiltFree(h, M, end),
    !.sweepIncomplete = (end # h.len),
    !.lastLive = IF end = h.len THEN Cardinality(M) ELSE h.lastLive]

\* A heap whose sweep was interrupted refuses to collect, for good.
Refused(h) == [h EXCEPT !.requestMode = FALSE, !.gcPending = FALSE]

CollectOutcomesUnpoisoned(h, precise, words, retain) ==    \* mutant
  LET M == MarkPhase(h, precise, words, retain)
  IN {Sweep(h, M, end) : end \in SweepEnds(h, M)}
CollectOutcomes(h, precise, words, retain) ==
  IF h.sweepIncomplete
  THEN {Refused(h)}
  ELSE LET M == MarkPhase(h, precise, words, retain)
       IN {Sweep(h, M, end) : end \in SweepEnds(h, M)}

Unwound(h, g) == g.sweepIncomplete /\ ~h.sweepIncomplete

MaxOf(a, b) == IF a >= b THEN a ELSE b

Retuned(h) == [h EXCEPT !.liveAtLastCollect = h.lastLive,
                        !.nextTrigger = MaxOf(h.lastLive, h.minTrigger),
                        !.gcPending = FALSE]

(* ---- the heap's operations, driven by its client ---------------------- *)

Init ==
  /\ heap = NewHeap
  /\ collectionEnabled \in Modes
  /\ globals = {} /\ locals = {} /\ borrows = {}
  /\ retunedAt = 0

\* obtain_slot_with: collect at the cap, then grow if that freed nothing.
ObtainOutcomes(h, roots) ==
  IF FreeSlots(h) = {} /\ collectionEnabled /\ h.len >= Cap
  THEN CollectOutcomes(h, roots, {}, FALSE)
  ELSE {h}

\* The allocation traces its own operands beside the client's root slice.
AllocRootsOnly(roots, ops) == roots                        \* mutant
AllocRoots(roots, ops) == roots \cup ops

WithSlots(h) == IF FreeSlots(h) = {} THEN Grown(h) ELSE h

\* alloc_*: the client's root slice may leave out the operands themselves, the
\* allocation roots them.  An unwind out of the collection loses the object.
Alloc ==
  \E k \in Kinds, ops \in SUBSET Held, omitted \in SUBSET Held :
    /\ Cardinality(ops) <= MaxEdges /\ omitted \subseteq ops
    /\ k \notin TracedKinds => ops = {}
    /\ collectionEnabled \/ omitted = {}
    /\ Cardinality(locals) < MaxLocals
    /\ \E g \in ObtainOutcomes(heap, AllocRoots(Held \ omitted, ops)) :
         IF Unwound(heap, g)
         THEN heap' = g /\ UNCHANGED locals
         ELSE /\ FreeSlots(g) # {} \/ CanGrow(g)
              /\ \E n \in FreeSlots(WithSlots(g)) :
                   /\ heap' = Placed(WithSlots(g), n, k, ops)
                   /\ locals' = locals \cup {n}
    /\ UNCHANGED <<globals, borrows, retunedAt>>

\* vec_set, set_cons_head, set_cons_tail: overwrite one cell, tying cycles.
WriteCell ==
  \E n \in Held, old \in SUBSET Nodes, new \in SUBSET Held :
    /\ heap.kind[n] \in {"Vec", "Cons"}
    /\ old \subseteq heap.edges[n]
    /\ Cardinality(old) <= 1 /\ Cardinality(new) <= 1
    /\ Cardinality((heap.edges[n] \ old) \cup new) <= MaxEdges
    /\ heap' = [heap EXCEPT !.edges =
                  [heap.edges EXCEPT ![n] = (@ \ old) \cup new]]
    /\ UNCHANGED <<client, retunedAt>>

\* Heap::collect with an explicit root slice, the owner of a capped heap's call.
Collect ==
  /\ collectionEnabled
  /\ heap' \in CollectOutcomes(heap, Held, {}, FALSE)
  /\ UNCHANGED <<client, retunedAt>>

\* collect_at_safepoint[_retaining]; `junk` is the stale words on the stack.
\* An unwind skips the lines that retune the trigger and clear the request.
Safepoint(retain) ==
  /\ heap.gcPending        \* both callers test gc_request_pending first
  /\ \E junk \in SUBSET Nodes :
       \E g \in CollectOutcomes(heap, globals, locals \cup junk, retain) :
         /\ heap' = IF Unwound(heap, g) THEN g ELSE Retuned(g)
         /\ retunedAt' = IF Unwound(heap, g) THEN retunedAt ELSE g.len
         /\ UNCHANGED client

\* At depth 0 no suspended frame borrows from a payload.
CollectAtSafepoint == borrows = {} /\ Safepoint(FALSE)

CollectAtSafepointRetaining == Safepoint(TRUE)

EnableRequestGc ==
  /\ ~collectionEnabled /\ ~heap.requestMode
  /\ heap' = [heap EXCEPT !.requestMode = TRUE,
                          !.minTrigger = MaxOf(Floor, 1),
                          !.nextTrigger = MaxOf(Floor, 1)]
  /\ retunedAt' = heap.len
  /\ UNCHANGED client

\* Heap::drop reclaims every node; a payload Drop that panics leaks the rest.
DropHeap ==
  \E end \in SweepEnds(heap, {}) :
    /\ heap' = [FreeResources(heap, {}, end) EXCEPT !.dropped = TRUE]
    /\ globals' = {} /\ locals' = {} /\ borrows' = {}
    /\ UNCHANGED retunedAt

(* ---- the client moves handles about ---------------------------------- *)

Load ==
  \E n \in Held : \E m \in heap.edges[n] :
    /\ Cardinality(locals) < MaxLocals
    /\ locals' = locals \cup {m}
    /\ UNCHANGED <<heap, globals, borrows, retunedAt>>

Forget ==
  \E n \in locals :
    /\ locals' = locals \ {n}
    /\ UNCHANGED <<heap, globals, borrows, retunedAt>>

\* A global is set, overwriting any handle it held before.
SetGlobal ==
  \E new \in SUBSET locals, old \in SUBSET globals :
    /\ Cardinality(new) <= 1 /\ Cardinality(old) <= 1
    /\ Cardinality((globals \ old) \cup new) <= MaxGlobals
    /\ globals' = (globals \ old) \cup new
    /\ UNCHANGED <<heap, locals, borrows, retunedAt>>

\* A frame keeps a reference into a payload and may lose the base handle.
Borrow ==
  \E n \in Held :
    /\ ~collectionEnabled /\ heap.kind[n] \in PayloadKinds
    /\ Cardinality(borrows) < MaxBorrows
    /\ borrows' = borrows \cup {n}
    /\ UNCHANGED <<heap, globals, locals, retunedAt>>

EndBorrow ==
  \E n \in borrows :
    /\ borrows' = borrows \ {n}
    /\ UNCHANGED <<heap, globals, locals, retunedAt>>

Next ==
  /\ ~heap.dropped
  /\ UNCHANGED collectionEnabled
  /\ \/ Alloc \/ WriteCell \/ Collect
     \/ CollectAtSafepoint \/ CollectAtSafepointRetaining
     \/ EnableRequestGc \/ DropHeap
     \/ Load \/ Forget \/ SetGlobal \/ Borrow \/ EndBorrow

Spec == Init /\ [][Next]_vars

(* ---- properties ---------------------------------------------------------- *)

\* A slot past the end of `all` has no node, is on no list and set in no bitmap.
Ungrown(h) ==
  \A n \in Nodes \ All(h) : /\ h.kind[n] = "Free" /\ h.edges[n] = {} /\ h.boxes[n] = 0
                           /\ h.free[n] = 0 /\ n \notin h.liveBits \cup h.mark

\* Every variable has its type, and slots not yet grown hold nothing: no growth,
\* sweep or drop reaches past the block it appends (heap.rs:429, grow).
TypeOK ==
  /\ heap \in HeapType /\ Ungrown(heap) /\ collectionEnabled \in BOOLEAN
  /\ heap.len <= Block * MaxBlocks
  /\ globals \subseteq Nodes /\ locals \subseteq Nodes /\ borrows \subseteq Nodes
  /\ retunedAt \in Nat

\* No use after free: whatever the program still reaches, and whatever payload
\* a suspended frame borrows, is an allocated node of a slot in the heap.
NoUseAfterFree ==
  /\ Reach(Held, heap.edges) \subseteq Allocated(heap)
  /\ \A n \in borrows : heap.kind[n] \in PayloadKinds

\* A payload is released exactly when its node is: never twice, though a
\* sweep may be cut short by the Drop it runs and Heap::drop comes after it.
PayloadReleasedOnce ==
  \A n \in Nodes :
    heap.boxes[n] = IF heap.kind[n] \in PayloadKinds THEN 1 ELSE 0

\* The free list names each slot at most once and only slots that hold nothing;
\* unless a sweep was interrupted it names all of those.  The live bitmap the
\* conservative scan trusts agrees with the node headers.
FreeListExact(h) ==
  /\ \A n \in All(h) :
       h.free[n] = 1 \/ (h.free[n] = 0 /\ (h.kind[n] # "Free" \/ h.sweepIncomplete))
  /\ \A n \in FreeSlots(h) : h.kind[n] = "Free"
  /\ h.liveBits = Allocated(h)
SlotsAccounted == heap.dropped \/ FreeListExact(heap)

\* While no request is pending a heap in request mode has not grown since its
\* trigger was computed by more than that trigger and the block in use.
NoSilentGrowth ==
  heap.requestMode /\ ~heap.gcPending /\ heap.len > retunedAt
    => heap.len < heap.liveAtLastCollect + heap.nextTrigger + Block

\* Once a sweep was interrupted no node is reclaimed again, whichever handler
\* runs, until the heap itself is dropped: its mark bits are stale.
PoisonedNeverReclaims ==
  [][heap.sweepIncomplete /\ ~heap'.dropped =>
       /\ heap'.sweepIncomplete
       /\ \A n \in Allocated(heap) : heap'.kind[n] = heap.kind[n]]_vars

\* The heap implements the store the interpreter is programmed against.
Store == INSTANCE ObjectStore WITH
  Absent <- "Free", content <- heap.kind, edges <- heap.edges
ImplementsStore == Store!Spec
=============================================================================
