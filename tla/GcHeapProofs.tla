---------------------------- MODULE GcHeapProofs ----------------------------
(***************************************************************************)
(* Proofs about GcHeap for every block size, bound, kind set and mode:     *)
(* type correctness, memory safety, single release of payloads, exactness  *)
(* of the free list, and that the heap implements ObjectStore.             *)
(***************************************************************************)
EXTENDS GcHeap, FiniteSetTheorems, TLAPS

(* ---- reachability ------------------------------------------------------ *)

\* Reachability contains its roots, is closed, and is the least such set.
LEMMA ReachClosed ==
  ASSUME NEW e \in [Nodes -> SUBSET Nodes], NEW R \in SUBSET Nodes
  PROVE  /\ R \subseteq Reach(R, e)
         /\ Closed(Reach(R, e), e)
         /\ Reach(R, e) \subseteq Nodes
<1>1. R \subseteq Reach(R, e)
  BY DEF Reach
<1>2. Reach(R, e) \subseteq Nodes
  BY DEF Reach
<1>3. ASSUME NEW n \in Reach(R, e), NEW m \in e[n]
      PROVE  m \in Reach(R, e)
  <2>1. m \in Nodes
    BY <1>2
  <2>2. ASSUME NEW S \in SUBSET Nodes, R \subseteq S, Closed(S, e)
        PROVE  m \in S
    BY <2>2 DEF Reach, Closed
  <2>3. QED
    BY <2>1, <2>2 DEF Reach
<1>4. QED
  BY <1>1, <1>2, <1>3 DEF Closed

\* Every closed set that contains the roots contains what they reach.
LEMMA ReachLeast ==
  ASSUME NEW e, NEW R, NEW S \in SUBSET Nodes, R \subseteq S, Closed(S, e)
  PROVE  Reach(R, e) \subseteq S
BY DEF Reach

\* What is reachable from fewer roots or along fewer edges is reachable.
LEMMA ReachMonotone ==
  ASSUME NEW e \in [Nodes -> SUBSET Nodes], NEW f \in [Nodes -> SUBSET Nodes],
         NEW R \in SUBSET Nodes, NEW Q \in SUBSET R,
         \A n \in Nodes : f[n] \subseteq e[n]
  PROVE  Reach(Q, f) \subseteq Reach(R, e)
<1>1. /\ R \subseteq Reach(R, e)
      /\ Closed(Reach(R, e), e)
      /\ Reach(R, e) \in SUBSET Nodes
  BY ReachClosed
<1>2. Closed(Reach(R, e), f)
  BY <1>1 DEF Closed
<1>3. QED
  BY <1>1, <1>2, ReachLeast

(* ---- the invariant of one heap record --------------------------------- *)

\* The slots of a heap are finitely many natural numbers (gc/heap.rs, blocks).
LEMMA NodesFacts ==
  /\ Block \in Nat \ {0} /\ Block * MaxBlocks \in Nat
  /\ Nodes \subseteq Nat
  /\ IsFiniteSet(Nodes)
<1>1. Block \in Nat /\ MaxBlocks \in Nat /\ Block # 0
  BY ConstantsAssumption
<1>2. Block * MaxBlocks \in Nat
  BY <1>1
<1>3. IsFiniteSet(0 .. Block * MaxBlocks - 1)
  BY <1>2, FS_Interval
<1>4. QED
  BY <1>1, <1>2, <1>3 DEF Nodes

\* Slots past the end are not yet there; only an unwound sweep leaves stale
\* marks, or a node that names a freed slot.
HeapInv(h) ==
  /\ h \in HeapType
  /\ h.len <= Block * MaxBlocks
  /\ \A n \in Nodes : n >= h.len => h.kind[n] = "Free" /\ h.free[n] = 0 /\ h.edges[n] = {}
  /\ \A n \in Nodes : h.boxes[n] = IF h.kind[n] \in PayloadKinds THEN 1 ELSE 0
  /\ FreeListExact(h)
  /\ h.mark \subseteq All(h)
  /\ h.sweepIncomplete \/ h.mark = {}
  /\ h.sweepIncomplete \/ Closed(Allocated(h), h.edges)

\* Growing by a block (gc/heap.rs, grow) appends free slots and disturbs nothing
\* that is allocated.
LEMMA GrownKeepsInv ==
  ASSUME NEW h, HeapInv(h), CanGrow(h)
  PROVE  /\ HeapInv(Grown(h))
         /\ Grown(h).kind = h.kind /\ Grown(h).edges = h.edges
         /\ Grown(h).dropped = h.dropped
         /\ Grown(h).sweepIncomplete = h.sweepIncomplete
<1>1. Block \in Nat \ {0} /\ Block * MaxBlocks \in Nat /\ Nodes \subseteq Nat
  BY NodesFacts
<1>2. h \in HeapType
  BY DEF HeapInv
<1> DEFINE g == Grown(h)
<1>3. /\ g.kind = h.kind /\ g.edges = h.edges /\ g.boxes = h.boxes
      /\ g.mark = h.mark /\ g.liveBits = h.liveBits
      /\ g.sweepIncomplete = h.sweepIncomplete /\ g.dropped = h.dropped
      /\ g.len = h.len + Block
  BY <1>2 DEF Grown, HeapType
<1>4. g.free = [n \in Nodes |-> IF n \in h.len .. h.len + Block - 1
                                THEN h.free[n] + 1 ELSE h.free[n]]
  BY <1>2 DEF Grown, HeapType
<1>5. h.len \in Nat /\ h.free \in [Nodes -> Nat]
  BY <1>2 DEF HeapType
<1> HIDE DEF g
<1>6. /\ g.free \in [Nodes -> Nat]
      /\ \A n \in Nodes : g.free[n] = IF n >= h.len /\ n < h.len + Block
                                       THEN h.free[n] + 1 ELSE h.free[n]
  <2>1. \A n \in Nodes : h.free[n] \in Nat /\ h.free[n] + 1 \in Nat
    BY <1>5
  <2>2. \A n \in Nodes : n \in h.len .. h.len + Block - 1
                          <=> n >= h.len /\ n < h.len + Block
    BY <1>1, <1>5
  <2>3. QED
    BY <1>4, <2>1, <2>2
<1>7. g \in HeapType
  <2> USE DEF g
  <2>1. g.len \in Nat
    BY <1>1, <1>3, <1>5
  <2>2. g.gcPending \in BOOLEAN
    BY <1>2 DEF Grown, HeapType
  <2>3. g = [h EXCEPT !.gcPending = g.gcPending, !.len = g.len, !.free = g.free]
    BY <1>2 DEF Grown, HeapType
  <2> HIDE DEF g
  <2>4. QED
    BY <1>2, <1>6, <2>1, <2>2, <2>3 DEF HeapType
<1> HIDE DEF g
<1>8. g.len <= Block * MaxBlocks
  BY <1>3 DEF CanGrow
<1>9. FreeListExact(g)
  <2>1. \A n \in All(g) : n \in Nodes
    BY <1>1, <1>3, <1>5, <1>8 DEF All, Nodes
  <2>2. \A n \in Nodes : n \in All(g) => n \in All(h) \/ (h.len <= n /\ n < h.len + Block)
    BY <1>1, <1>3, <1>5 DEF All
  <2>3. \A n \in All(h) : n < h.len /\ n \in Nodes
    BY <1>1, <1>5 DEF All, HeapInv, Nodes
  <2>4. \A n \in Nodes : h.len <= n => h.kind[n] = "Free" /\ h.free[n] = 0
    BY DEF HeapInv
  <2>5. FreeListExact(h)
    BY DEF HeapInv
  <2>6. ASSUME NEW n \in All(g)
        PROVE  g.free[n] = 1 \/ (g.free[n] = 0 /\ (g.kind[n] # "Free" \/ g.sweepIncomplete))
    <3>1. CASE n \in All(h)
      <4>1. n \in Nodes /\ n < h.len
        BY <2>3, <3>1
      <4>2. g.free[n] = h.free[n]
        BY <1>1, <1>5, <1>6, <4>1
      <4>3. QED
        BY <1>3, <2>5, <3>1, <4>2 DEF FreeListExact
    <3>2. CASE n \notin All(h)
      <4>1. n \in Nodes /\ h.len <= n /\ n < h.len + Block
        BY <2>1, <2>2, <3>2
      <4>2. g.free[n] = 0 + 1
        BY <1>1, <1>5, <1>6, <2>4, <4>1
      <4>3. QED
        BY <4>2
    <3>3. QED
      BY <3>1, <3>2
  <2>7. \A n \in FreeSlots(g) : g.kind[n] = "Free"
    BY <1>1, <1>3, <1>5, <1>6, <2>4, <2>5 DEF FreeListExact, FreeSlots
  <2>8. g.liveBits = Allocated(g)
    BY <1>3, <2>5 DEF FreeListExact, Allocated
  <2>9. QED
    BY <2>6, <2>7, <2>8 DEF FreeListExact
<1>10. \A n \in Nodes : n >= g.len => g.kind[n] = "Free" /\ g.free[n] = 0 /\ g.edges[n] = {}
  BY <1>1, <1>3, <1>5, <1>6 DEF HeapInv
<1>11. g.mark \subseteq All(g)
  BY <1>1, <1>3, <1>5 DEF HeapInv, All
<1>12. HeapInv(g)
  <2>1. Allocated(g) = Allocated(h)
    BY <1>3 DEF Allocated
  <2>2. QED
    BY <1>3, <1>7, <1>8, <1>9, <1>10, <1>11, <2>1 DEF HeapInv
<1> QED
  BY <1>3, <1>12 DEF g

\* Storing a node in a free slot (gc/heap.rs, alloc_kind) takes that one slot off the
\* free list and gives it one payload at most.
LEMMA PlacedKeepsInv ==
  ASSUME NEW h, HeapInv(h), NEW n \in FreeSlots(h), NEW k \in AllKinds,
         NEW ops \in SUBSET Allocated(h)
  PROVE  /\ HeapInv(Placed(h, n, k, ops))
         /\ Placed(h, n, k, ops).kind = [h.kind EXCEPT ![n] = k]
         /\ Placed(h, n, k, ops).edges
              = [h.edges EXCEPT ![n] = IF k \in TracedKinds THEN ops ELSE {}]
         /\ Placed(h, n, k, ops).dropped = h.dropped
         /\ Placed(h, n, k, ops).sweepIncomplete = h.sweepIncomplete
         /\ Placed(h, n, k, ops).len = h.len
         /\ h.kind[n] = "Free"
<1>1. /\ h \in HeapType /\ n \in Nodes /\ FreeListExact(h) /\ Nodes \subseteq Nat
      /\ ops \in SUBSET Nodes
  BY NodesFacts DEF HeapInv, FreeSlots, Allocated
<1> DEFINE g == Placed(h, n, k, ops)
<1>2. /\ g.free = [h.free EXCEPT ![n] = @ - 1]
      /\ g.liveBits = h.liveBits \cup {n}
      /\ g.mark = h.mark \ {n}
      /\ g.kind = [h.kind EXCEPT ![n] = k]
      /\ g.edges = [h.edges EXCEPT ![n] = IF k \in TracedKinds THEN ops ELSE {}]
      /\ g.boxes = [h.boxes EXCEPT ![n] = IF k \in PayloadKinds THEN @ + 1 ELSE @]
      /\ g.sweepIncomplete = h.sweepIncomplete /\ g.dropped = h.dropped
      /\ g.len = h.len
  BY <1>1 DEF Placed, HeapType
<1>3. /\ h.free \in [Nodes -> Nat] /\ h.kind \in [Nodes -> AllKinds \cup {"Free"}]
      /\ h.edges \in [Nodes -> SUBSET Nodes] /\ h.boxes \in [Nodes -> Nat]
      /\ h.mark \in SUBSET Nodes /\ h.liveBits \in SUBSET Nodes /\ h.len \in Nat
  BY <1>1 DEF HeapType
<1>4. /\ h.kind[n] = "Free" /\ h.free[n] > 0 /\ n < h.len /\ n \in All(h)
      /\ h.free[n] = 1 /\ h.boxes[n] = 0
  <2>1. h.kind[n] = "Free" /\ h.free[n] > 0
    BY <1>1 DEF FreeListExact, FreeSlots
  <2>2. n < h.len
    BY <1>1, <1>3, <2>1 DEF HeapInv
  <2>3. n \in All(h)
    BY <1>1, <1>3, <2>2 DEF All
  <2>4. h.boxes[n] = 0
    BY <1>1, <2>1 DEF HeapInv, PayloadKinds
  <2>5. QED
    BY <1>1, <2>1, <2>2, <2>3, <2>4 DEF FreeListExact
<1>5. /\ g.free \in [Nodes -> Nat] /\ g.kind \in [Nodes -> AllKinds \cup {"Free"}]
      /\ g.edges \in [Nodes -> SUBSET Nodes] /\ g.boxes \in [Nodes -> Nat]
      /\ g.mark \in SUBSET Nodes /\ g.liveBits \in SUBSET Nodes
  <2> HIDE DEF g
  <2>1. g.free \in [Nodes -> Nat]
    BY <1>1, <1>2, <1>3, <1>4
  <2>2. g.kind \in [Nodes -> AllKinds \cup {"Free"}]
    BY <1>1, <1>2, <1>3
  <2>3. g.edges \in [Nodes -> SUBSET Nodes]
    BY <1>1, <1>2, <1>3
  <2>4. g.boxes \in [Nodes -> Nat]
    BY <1>1, <1>2, <1>3
  <2>5. QED
    BY <1>1, <1>2, <1>3, <2>1, <2>2, <2>3, <2>4
<1>6. g \in HeapType
  <2>1. g = [h EXCEPT !.free = g.free, !.liveBits = g.liveBits, !.mark = g.mark,
                      !.kind = g.kind, !.edges = g.edges, !.boxes = g.boxes]
    BY <1>1 DEF Placed, HeapType
  <2> HIDE DEF g
  <2>2. QED
    BY <1>1, <1>5, <2>1 DEF HeapType
<1> HIDE DEF g
<1>7. FreeListExact(g)
  <2>1. \A m \in All(g) : g.free[m] = 1 \/
           (g.free[m] = 0 /\ (g.kind[m] # "Free" \/ g.sweepIncomplete))
    <3>1. \A m \in All(h) : m \in Nodes
      BY <1>1, <1>3, NodesFacts DEF All, HeapInv, Nodes
    <3>2. k # "Free"
      BY DEF AllKinds
    <3>3. QED
      BY <1>1, <1>2, <1>3, <1>4, <3>1, <3>2 DEF FreeListExact, All
  <2>2. \A m \in FreeSlots(g) : g.kind[m] = "Free"
    BY <1>1, <1>2, <1>3, <1>4 DEF FreeListExact, FreeSlots
  <2>3. g.liveBits = Allocated(g)
    <3>1. k # "Free"
      BY DEF AllKinds
    <3>2. QED
      BY <1>1, <1>2, <1>3, <3>1 DEF FreeListExact, Allocated
  <2>4. QED
    BY <2>1, <2>2, <2>3 DEF FreeListExact
<1>8. HeapInv(g)
  <2>1. \A m \in Nodes : m >= g.len => g.kind[m] = "Free" /\ g.free[m] = 0 /\ g.edges[m] = {}
    BY <1>1, <1>2, <1>3, <1>4 DEF HeapInv
  <2>2. \A m \in Nodes : g.boxes[m] = IF g.kind[m] \in PayloadKinds THEN 1 ELSE 0
    BY <1>2, <1>3, <1>4 DEF HeapInv
  <2>3. g.mark \subseteq All(g) /\ (g.sweepIncomplete \/ g.mark = {})
    BY <1>2, <1>3 DEF HeapInv, All
  <2>4. g.sweepIncomplete \/ Closed(Allocated(g), g.edges)
    <3>1. Allocated(h) \subseteq Allocated(g) /\ Allocated(g) \subseteq Allocated(h) \cup {n}
      BY <1>1, <1>2, <1>3 DEF Allocated, AllKinds
    <3>2. g.edges[n] \subseteq Allocated(h)
      BY <1>1, <1>2, <1>3
    <3>3. \A m \in Allocated(h) : m # n /\ g.edges[m] = h.edges[m]
      BY <1>2, <1>3, <1>4 DEF Allocated
    <3>4. h.sweepIncomplete \/ \A m \in Allocated(h) : h.edges[m] \subseteq Allocated(h)
      BY DEF HeapInv, Closed
    <3>5. h.sweepIncomplete \/ \A m \in Allocated(g) : g.edges[m] \subseteq Allocated(g)
      BY <3>1, <3>2, <3>3, <3>4
    <3>6. QED
      BY <1>2, <3>5 DEF Closed
  <2>5. QED
    BY <1>2, <1>6, <1>7, <2>1, <2>2, <2>3, <2>4 DEF HeapInv
<1> QED
  BY <1>2, <1>4, <1>8 DEF g

\* Freeing a set of nodes releases each one's payload with it.
LEMMA FreeResourcesReleases ==
  ASSUME NEW h \in HeapType, NEW M, NEW end,
         \A n \in Nodes : h.boxes[n] = IF h.kind[n] \in PayloadKinds THEN 1 ELSE 0
  PROVE  LET f == FreeResources(h, M, end)
             taken == Dropped(h, M, end)
         IN /\ f \in HeapType
            /\ f.kind = [n \in Nodes |-> IF n \in taken THEN "Free" ELSE h.kind[n]]
            /\ f.edges = [n \in Nodes |-> IF n \in taken THEN {} ELSE h.edges[n]]
            /\ \A n \in Nodes :
                 f.boxes[n] = IF f.kind[n] \in PayloadKinds THEN 1 ELSE 0
            /\ f.dropped = h.dropped /\ f.len = h.len
<1> DEFINE f == FreeResources(h, M, end)
           taken == Dropped(h, M, end)
<1>1. /\ f.kind = [n \in Nodes |-> IF n \in taken THEN "Free" ELSE h.kind[n]]
      /\ f.edges = [n \in Nodes |-> IF n \in taken THEN {} ELSE h.edges[n]]
      /\ f.boxes = [n \in Nodes |-> IF n \in taken /\ h.kind[n] \in PayloadKinds
                                     THEN h.boxes[n] - 1 ELSE h.boxes[n]]
      /\ f.dropped = h.dropped /\ f.len = h.len
  BY DEF FreeResources, ResetNodes, HeapType
<1>2. f = [h EXCEPT !.kind = f.kind, !.edges = f.edges, !.boxes = f.boxes]
  BY DEF FreeResources, HeapType
<1>3. /\ h.kind \in [Nodes -> AllKinds \cup {"Free"}]
      /\ h.edges \in [Nodes -> SUBSET Nodes] /\ h.boxes \in [Nodes -> Nat]
  BY DEF HeapType
<1> HIDE DEF f, taken
<1>4. f.kind \in [Nodes -> AllKinds \cup {"Free"}]
  BY <1>1, <1>3
<1>5. f.edges \in [Nodes -> SUBSET Nodes]
  BY <1>1, <1>3
<1>6. ASSUME NEW n \in Nodes
      PROVE  f.boxes[n] = IF f.kind[n] \in PayloadKinds THEN 1 ELSE 0
  <2>1. "Free" \notin PayloadKinds
    BY DEF PayloadKinds
  <2>2. CASE n \in taken /\ h.kind[n] \in PayloadKinds
    <3>1. f.boxes[n] = 1 - 1
      BY <1>1, <2>2
    <3>2. QED
      BY <1>1, <2>1, <2>2, <3>1
  <2>3. CASE n \in taken /\ h.kind[n] \notin PayloadKinds
    BY <1>1, <2>1, <2>3
  <2>4. CASE n \notin taken
    BY <1>1, <2>4
  <2>5. QED
    BY <2>2, <2>3, <2>4
<1>7. f.boxes \in [Nodes -> Nat]
  <2>1. f.boxes = [n \in Nodes |-> f.boxes[n]]
    BY <1>1
  <2>2. QED
    BY <1>6, <2>1
<1>8. f \in HeapType
  BY <1>2, <1>4, <1>5, <1>7 DEF HeapType
<1>9. QED
  BY <1>1, <1>6, <1>8 DEF f, taken

\* What one sweep does: it keeps every marked node and may keep unmarked ones.
LEMMA SweepKeepsInv ==
  ASSUME NEW h, HeapInv(h), ~h.sweepIncomplete,
         NEW M \in SUBSET Allocated(h), Closed(M, h.edges), NEW end \in SweepEnds(h, M)
  PROVE  /\ HeapInv(Sweep(h, M, end))
         /\ Sweep(h, M, end).dropped = h.dropped
         /\ Sweep(h, M, end).len = h.len
         /\ \A n \in Nodes :
              \/ /\ Sweep(h, M, end).kind[n] = h.kind[n]
                 /\ Sweep(h, M, end).edges[n] = h.edges[n]
              \/ /\ n \notin M
                 /\ Sweep(h, M, end).kind[n] = "Free"
                 /\ Sweep(h, M, end).edges[n] = {}
<1>1. /\ h \in HeapType /\ FreeListExact(h)
      /\ Nodes \subseteq Nat /\ IsFiniteSet(Nodes) /\ M \in SUBSET Nodes
  BY NodesFacts DEF HeapInv, Allocated
<1>2. /\ h.free \in [Nodes -> Nat] /\ h.kind \in [Nodes -> AllKinds \cup {"Free"}]
      /\ h.edges \in [Nodes -> SUBSET Nodes] /\ h.boxes \in [Nodes -> Nat]
      /\ h.liveBits \in SUBSET Nodes /\ h.len \in Nat /\ h.lastLive \in Nat
      /\ h.liveBits = Allocated(h)
  BY <1>1 DEF HeapType, FreeListExact
<1> DEFINE g == Sweep(h, M, end)
           taken == Dropped(h, M, end)
           pushed == Swept(h, M, end)
           f == FreeResources(h, M, end)
<1>3. /\ g.mark = {n \in M : n > end}
      /\ g.liveBits = h.liveBits \ taken
      /\ g.free = [n \in Nodes |-> IF n \in pushed THEN 1 ELSE 0]
      /\ g.sweepIncomplete = (end # h.len)
      /\ g.lastLive = IF end = h.len THEN Cardinality(M) ELSE h.lastLive
      /\ g.dropped = f.dropped /\ g.len = f.len
      /\ g.kind = f.kind /\ g.edges = f.edges /\ g.boxes = f.boxes
  BY <1>1 DEF Sweep, FreeResources, RebuiltFree, HeapType
<1>4. /\ f \in HeapType
      /\ f.kind = [n \in Nodes |-> IF n \in taken THEN "Free" ELSE h.kind[n]]
      /\ f.edges = [n \in Nodes |-> IF n \in taken THEN {} ELSE h.edges[n]]
      /\ \A n \in Nodes : f.boxes[n] = IF f.kind[n] \in PayloadKinds THEN 1 ELSE 0
      /\ f.dropped = h.dropped /\ f.len = h.len
  <2>1. \A n \in Nodes : h.boxes[n] = IF h.kind[n] \in PayloadKinds THEN 1 ELSE 0
    BY DEF HeapInv
  <2>2. QED
    BY <1>1, <2>1, FreeResourcesReleases
<1>5. \A n \in Nodes : n \in All(h) <=> n < h.len
  <2>1. Nodes \subseteq Nat /\ h.len \in Nat
    BY <1>2, NodesFacts
  <2>2. QED
    BY <2>1 DEF All
<1>6. All(h) \subseteq Nodes
  BY <1>2, NodesFacts DEF HeapInv, All, Nodes
\* A sweep that ends early ends at an allocated, unmarked node.
<1>7. /\ end \in Nat /\ end <= h.len
      /\ end # h.len => end \in Nodes \ M /\ h.kind[end] # "Free"
  <2>1. CASE end = h.len
    BY <1>2, <2>1
  <2>2. CASE end # h.len
    <3>1. end \in All(h) \ M /\ h.kind[end] \in HostKinds
      BY <2>2 DEF SweepEnds
    <3>2. end \in Nodes \ M /\ end \in Nat /\ end < h.len
      BY <1>1, <1>5, <1>6, <3>1
    <3>3. h.kind[end] # "Free"
      BY <3>1 DEF HostKinds
    <3>4. QED
      BY <1>2, <3>2, <3>3
  <2>3. QED
    BY <2>1, <2>2
<1>8. /\ \A n \in Nodes : n \in taken <=> n < h.len /\ n \notin M /\ n <= end
      /\ \A n \in Nodes : n \in pushed <=> n < h.len /\ n \notin M /\ n < end
  BY <1>5, <1>6 DEF Dropped, Swept
<1> HIDE DEF f, g, taken, pushed
<1>9. /\ g.mark \in SUBSET Nodes /\ g.liveBits \in SUBSET Nodes
      /\ g.free \in [Nodes -> Nat] /\ g.sweepIncomplete \in BOOLEAN
  <2>1. {n \in M : n > end} \in SUBSET Nodes /\ h.liveBits \ taken \in SUBSET Nodes
    BY <1>1, <1>2
  <2>2. [n \in Nodes |-> IF n \in pushed THEN 1 ELSE 0] \in [Nodes -> Nat]
    OBVIOUS
  <2>3. (end # h.len) \in BOOLEAN
    OBVIOUS
  <2>4. QED
    BY <1>3, <2>1, <2>2, <2>3
<1>12. g.lastLive \in Nat
  <2>1. Cardinality(M) \in Nat
    BY <1>1, FS_Subset, FS_CardinalityType
  <2>2. QED
    BY <1>2, <1>3, <2>1
<1>13. g \in HeapType
  <2>1. g = [f EXCEPT !.mark = g.mark, !.liveBits = g.liveBits, !.free = g.free,
                      !.sweepIncomplete = g.sweepIncomplete, !.lastLive = g.lastLive]
    BY <1>1 DEF f, g, Sweep, FreeResources, HeapType
  <2>2. QED
    BY <1>4, <1>9, <1>12, <2>1 DEF HeapType
<1>14. FreeListExact(g)
  <2>1. ASSUME NEW n \in All(g)
        PROVE  g.free[n] = 1 \/ (g.free[n] = 0 /\ (g.kind[n] # "Free" \/ g.sweepIncomplete))
    <3>1. n \in Nodes /\ n < h.len
      BY <1>3, <1>4, <1>5, <1>6 DEF All
    <3>2. CASE n \in pushed
      BY <1>3, <1>4, <3>1, <3>2
    <3>3. CASE n \notin pushed /\ end # h.len
      BY <1>3, <1>4, <3>1, <3>3
    <3>4. CASE n \notin pushed /\ end = h.len
      <4>1. n \in M /\ n \notin taken
        BY <1>8, <3>1, <3>4
      <4>2. h.kind[n] # "Free"
        BY <4>1 DEF Allocated
      <4>3. QED
        BY <1>3, <1>4, <3>1, <3>4, <4>1, <4>2
    <3>5. QED
      BY <3>2, <3>3, <3>4
  <2>2. \A n \in FreeSlots(g) : g.kind[n] = "Free"
    BY <1>1, <1>2, <1>3, <1>4, <1>7, <1>8 DEF FreeSlots
  <2>3. g.liveBits = Allocated(g)
    BY <1>2, <1>3, <1>4 DEF Allocated
  <2>4. QED
    BY <2>1, <2>2, <2>3 DEF FreeListExact
<1>15. HeapInv(g)
  <2>1. \A n \in Nodes : n >= g.len => g.kind[n] = "Free" /\ g.free[n] = 0
    BY <1>1, <1>2, <1>3, <1>4, <1>8 DEF HeapInv
  <2>2. g.mark \subseteq All(g) /\ (g.sweepIncomplete \/ g.mark = {})
    <3>1. \A n \in M : n < h.len /\ n \in All(h)
      BY <1>1, <1>2, <1>5 DEF HeapInv, Allocated
    <3>2. ASSUME end = h.len PROVE g.mark = {}
      <4>1. \A n \in M : ~(n > end)
        BY <1>1, <1>2, <3>1, <3>2
      <4>2. QED
        BY <1>3, <1>4, <4>1
    <3>3. g.mark \subseteq All(g)
      BY <1>3, <1>4, <3>1 DEF All
    <3>4. QED
      BY <1>3, <1>4, <3>2, <3>3
  <2>3. g.len <= Block * MaxBlocks
    BY <1>3, <1>4 DEF HeapInv
  <2>4. ASSUME ~g.sweepIncomplete PROVE Closed(Allocated(g), g.edges)
    <3>1. end = h.len
      BY <1>3, <1>4, <2>4
    <3>2. \A n \in Nodes : n \in Allocated(g) <=> n \in M
      <4>1. \A n \in Nodes : n \in taken <=> n < h.len /\ n \notin M
        BY <1>1, <1>2, <1>8, <3>1
      <4>2. \A n \in Nodes : h.kind[n] # "Free" => n < h.len
        BY <1>1, <1>2 DEF HeapInv
      <4>3. QED
        BY <1>3, <1>4, <4>1, <4>2 DEF Allocated
    <3>3. \A n \in M : g.edges[n] = h.edges[n]
      BY <1>1, <1>3, <1>4, <1>8
    <3>4. QED
      BY <1>1, <3>2, <3>3 DEF Closed, Allocated
  <2>5. QED
    BY <1>3, <1>4, <1>13, <1>14, <2>1, <2>2, <2>3, <2>4 DEF HeapInv
<1>16. \A n \in Nodes : \/ g.kind[n] = h.kind[n] /\ g.edges[n] = h.edges[n]
                        \/ n \notin M /\ g.kind[n] = "Free" /\ g.edges[n] = {}
  BY <1>2, <1>3, <1>4, <1>8
<1> QED
  BY <1>3, <1>4, <1>15, <1>16 DEF f, g

\* With no stale mark, marking reaches a closed set of allocated nodes that
\* contains the precise roots, the live words of the scan and, mid-run, every
\* node with a payload.
LEMMA MarkPhaseComplete ==
  ASSUME NEW h, HeapInv(h), ~h.sweepIncomplete, NEW P \in SUBSET Allocated(h),
         NEW W, NEW retain \in BOOLEAN
  PROVE  LET M == MarkPhase(h, P, W, retain)
         IN /\ M \in SUBSET Allocated(h) /\ Closed(M, h.edges)
            /\ P \subseteq M /\ W \cap Allocated(h) \subseteq M
            /\ retain => {n \in Nodes : h.kind[n] \in PayloadKinds} \subseteq M
<1>1. /\ h \in HeapType /\ h.mark = {} /\ h.liveBits = Allocated(h)
      /\ h.edges \in [Nodes -> SUBSET Nodes] /\ h.len \in Nat
      /\ Closed(Allocated(h), h.edges)
  BY DEF HeapInv, HeapType, FreeListExact
<1> DEFINE seeds == {n \in Nodes : h.kind[n] \in PayloadKinds}
           R == (IF retain THEN RetainSeeds(h) ELSE {}) \cup (W \cap h.liveBits) \cup P
           M == Enqueued(h, R)
<1>2. RetainSeeds(h) = seeds
  <2>1. All(h) \subseteq Nodes
    BY <1>1, NodesFacts DEF HeapInv, All, Nodes
  <2>2. ASSUME NEW n \in seeds PROVE n \in All(h)
    <3>1. n \in Nodes /\ n \in Nat /\ h.kind[n] # "Free"
      BY NodesFacts DEF PayloadKinds
    <3>2. n < h.len
      BY <1>1, <3>1 DEF HeapInv
    <3>3. QED
      BY <1>1, <3>1, <3>2 DEF All
  <2>3. QED
    BY <2>1, <2>2 DEF RetainSeeds
<1>3. R \in SUBSET Allocated(h)
  BY <1>1, <1>2 DEF Allocated, PayloadKinds
<1>4. R \subseteq M /\ M \in SUBSET Nodes
  BY <1>1, <1>3 DEF Enqueued, Allocated
<1>5. Closed(M, h.edges)
  <2>1. ASSUME NEW n \in M, NEW m \in h.edges[n] PROVE m \in M
    <3>1. m \in Nodes
      BY <1>1, <1>4
    <3>2. ASSUME NEW S \in SUBSET Nodes, R \ h.mark \subseteq S,
                 \A k \in S : h.edges[k] \ h.mark \subseteq S
          PROVE  m \in S
      <4>1. n \in S
        BY <3>2 DEF Enqueued
      <4>2. QED
        BY <1>1, <3>2, <4>1
    <3>3. QED
      BY <3>1, <3>2 DEF Enqueued
  <2>2. QED
    BY <2>1 DEF Closed
<1>6. M \subseteq Allocated(h)
  <2>1. Allocated(h) \in SUBSET Nodes
    BY DEF Allocated
  <2>2. QED
    BY <1>1, <1>3, <2>1 DEF Enqueued, Closed
<1>7. MarkPhase(h, P, W, retain) = M
  BY <1>1 DEF MarkPhase
<1> HIDE DEF M
<1>8. QED
  BY <1>1, <1>2, <1>4, <1>5, <1>6, <1>7

\* What any collection makes of heap h: a node leaves only if the roots R do not
\* reach it and, mid-run, if it has no payload.
CollectResult(h, g, R, retain) ==
  /\ HeapInv(g) /\ g.dropped = h.dropped /\ g.len = h.len
  /\ \A n \in Nodes :
       \/ g.kind[n] = h.kind[n] /\ g.edges[n] = h.edges[n]
       \/ /\ n \notin Reach(R, h.edges) /\ ~h.sweepIncomplete
          /\ retain => h.kind[n] \notin PayloadKinds
          /\ g.kind[n] = "Free" /\ g.edges[n] = {}
  /\ h.sweepIncomplete => g.sweepIncomplete

\* Every collection, whatever its outcome, has that result.
LEMMA CollectKeeps ==
  ASSUME NEW h, HeapInv(h), NEW P \in SUBSET Allocated(h),
         NEW W, NEW retain \in BOOLEAN, NEW R \in SUBSET Nodes,
         R \subseteq P \cup (W \cap Allocated(h)),
         NEW g \in CollectOutcomes(h, P, W, retain)
  PROVE  CollectResult(h, g, R, retain)
<1> USE DEF CollectResult
<1>1. CASE h.sweepIncomplete
  <2>1. g = Refused(h)
    BY <1>1 DEF CollectOutcomes
  <2>2. h \in HeapType
    BY DEF HeapInv
  <2>3. /\ g.kind = h.kind /\ g.edges = h.edges /\ g.boxes = h.boxes
        /\ g.mark = h.mark /\ g.liveBits = h.liveBits /\ g.free = h.free
        /\ g.len = h.len /\ g.sweepIncomplete = h.sweepIncomplete
        /\ g.dropped = h.dropped /\ g \in HeapType
    BY <2>1, <2>2 DEF Refused, HeapType
  <2>4. FreeListExact(g) /\ Allocated(g) = Allocated(h) /\ All(g) = All(h)
    BY <2>3 DEF HeapInv, FreeListExact, FreeSlots, Allocated, All
  <2>5. HeapInv(g)
    BY <2>3, <2>4 DEF HeapInv
  <2>6. QED
    BY <2>3, <2>5, <1>1
<1>2. CASE ~h.sweepIncomplete
  <2> DEFINE M == MarkPhase(h, P, W, retain)
  <2>1. /\ M \in SUBSET Allocated(h) /\ Closed(M, h.edges)
        /\ P \subseteq M /\ W \cap Allocated(h) \subseteq M
        /\ retain => {n \in Nodes : h.kind[n] \in PayloadKinds} \subseteq M
    BY <1>2, MarkPhaseComplete
  <2>2. PICK end \in SweepEnds(h, M) : g = Sweep(h, M, end)
    BY <1>2 DEF CollectOutcomes
  <2> HIDE DEF M
  <2>3. /\ HeapInv(g) /\ g.dropped = h.dropped /\ g.len = h.len
        /\ \A n \in Nodes : \/ g.kind[n] = h.kind[n] /\ g.edges[n] = h.edges[n]
                            \/ n \notin M /\ g.kind[n] = "Free" /\ g.edges[n] = {}
    BY <1>2, <2>1, <2>2, SweepKeepsInv
  <2>4. Reach(R, h.edges) \subseteq M
    <3>1. M \in SUBSET Nodes /\ R \subseteq M
      BY <2>1 DEF Allocated
    <3>2. QED
      BY <2>1, <3>1, ReachLeast
  <2>5. QED
    BY <1>2, <2>1, <2>3, <2>4
<1>3. QED
  BY <1>1, <1>2

\* Recomputing the trigger after a collection (gc/heap.rs, retune) touches the
\* request state only.
LEMMA RetunedKeepsInv ==
  ASSUME NEW h, HeapInv(h)
  PROVE  /\ HeapInv(Retuned(h))
         /\ Retuned(h).kind = h.kind /\ Retuned(h).edges = h.edges
         /\ Retuned(h).dropped = h.dropped /\ Retuned(h).len = h.len
         /\ Retuned(h).sweepIncomplete = h.sweepIncomplete
<1> DEFINE g == Retuned(h)
<1>1. h \in HeapType
  BY DEF HeapInv
<1>2. /\ g.kind = h.kind /\ g.edges = h.edges /\ g.boxes = h.boxes
      /\ g.mark = h.mark /\ g.liveBits = h.liveBits /\ g.free = h.free
      /\ g.len = h.len /\ g.sweepIncomplete = h.sweepIncomplete
      /\ g.dropped = h.dropped
  BY <1>1 DEF Retuned, HeapType
<1>3. MaxOf(h.lastLive, h.minTrigger) \in Nat /\ h.lastLive \in Nat
  BY <1>1 DEF MaxOf, HeapType
<1>4. g \in HeapType
  BY <1>1, <1>3 DEF Retuned, HeapType
<1> HIDE DEF g
<1>5. FreeListExact(g) /\ Allocated(g) = Allocated(h) /\ All(g) = All(h)
  BY <1>2 DEF HeapInv, FreeListExact, FreeSlots, Allocated, All
<1>6. HeapInv(g)
  BY <1>2, <1>4, <1>5 DEF HeapInv
<1>7. QED
  BY <1>2, <1>6 DEF g

(* ---- the inductive invariant ------------------------------------------- *)

\* NoUseAfterFree is not inductive alone: it needs the free list to name only
\* empty slots, the stale marks to be gone and edges to stay among live nodes.
Inv ==
  /\ TypeOK
  /\ NoUseAfterFree
  /\ PayloadReleasedOnce
  /\ heap.dropped \/ HeapInv(heap)
  /\ collectionEnabled => borrows = {}

\* A record of the heap whose invariant holds satisfies the typing part of Inv.
LEMMA HeapInvGives ==
  ASSUME NEW h, HeapInv(h)
  PROVE  /\ h \in HeapType /\ h.len <= Block * MaxBlocks
         /\ \A n \in Nodes : h.boxes[n] = IF h.kind[n] \in PayloadKinds THEN 1 ELSE 0
         /\ h.len \in Nat /\ h.edges \in [Nodes -> SUBSET Nodes]
         /\ h.kind \in [Nodes -> AllKinds \cup {"Free"}]
         /\ Allocated(h) \subseteq Nodes
         /\ Ungrown(h)
<1>1. h.len \in Nat /\ Nodes \subseteq Nat /\ h.mark \subseteq All(h) /\ h.liveBits = Allocated(h)
  BY NodesFacts DEF HeapInv, HeapType, FreeListExact
<1>2. \A n \in Nodes \ All(h) : n >= h.len /\ n \notin h.mark
  BY <1>1 DEF All
<1>3. Ungrown(h)
  BY <1>1, <1>2 DEF Ungrown, HeapInv, Allocated, PayloadKinds
<1> QED BY <1>3 DEF HeapInv, HeapType, Allocated

\* An empty heap satisfies the invariant.
LEMMA InitInv == Init => Inv
<1> SUFFICES ASSUME Init PROVE Inv
  OBVIOUS
<1>1. /\ heap = NewHeap /\ globals = {} /\ locals = {} /\ borrows = {}
      /\ retunedAt = 0 /\ collectionEnabled \in BOOLEAN
  BY ConstantsAssumption DEF Init
<1>2. NewHeap \in HeapType
  BY ConstantsAssumption DEF NewHeap, HeapType
<1>3. /\ NewHeap.kind = [n \in Nodes |-> "Free"]
      /\ NewHeap.edges = [n \in Nodes |-> {}]
      /\ NewHeap.boxes = [n \in Nodes |-> 0] /\ NewHeap.free = [n \in Nodes |-> 0]
      /\ NewHeap.mark = {} /\ NewHeap.liveBits = {} /\ NewHeap.len = 0
      /\ ~NewHeap.sweepIncomplete
  BY DEF NewHeap
<1>4. Allocated(NewHeap) = {} /\ All(NewHeap) = {} /\ FreeSlots(NewHeap) = {}
  BY <1>3 DEF Allocated, All, FreeSlots
<1>5. HeapInv(NewHeap)
  BY <1>2, <1>3, <1>4, NodesFacts DEF HeapInv, FreeListExact, Closed, PayloadKinds
<1>6. Reach(Held, heap.edges) \subseteq {}
  <2>1. Held = {} /\ Closed({}, heap.edges)
    BY <1>1 DEF Held, Closed
  <2>2. QED
    BY <2>1, ReachLeast
<1>7. QED
  BY <1>1, <1>5, <1>6, HeapInvGives
     DEF Inv, TypeOK, NoUseAfterFree, PayloadReleasedOnce

\* What Inv says of the client before a step.
LEMMA ClientFacts ==
  ASSUME Inv, ~heap.dropped
  PROVE  /\ HeapInv(heap)
         /\ Held \in SUBSET Nodes
         /\ Held \subseteq Reach(Held, heap.edges)
         /\ Closed(Reach(Held, heap.edges), heap.edges)
         /\ Reach(Held, heap.edges) \subseteq Allocated(heap)
         /\ Reach(Held, heap.edges) \in SUBSET Nodes
         /\ borrows \subseteq Nodes
         /\ \A n \in borrows : heap.kind[n] \in PayloadKinds
         /\ globals \subseteq Nodes /\ locals \subseteq Nodes /\ retunedAt \in Nat
         /\ collectionEnabled \in BOOLEAN
         /\ collectionEnabled => borrows = {}
<1>1. /\ HeapInv(heap) /\ globals \subseteq Nodes /\ locals \subseteq Nodes
      /\ borrows \subseteq Nodes /\ retunedAt \in Nat /\ collectionEnabled \in BOOLEAN
      /\ Reach(Held, heap.edges) \subseteq Allocated(heap)
      /\ \A n \in borrows : heap.kind[n] \in PayloadKinds
      /\ collectionEnabled => borrows = {}
  BY DEF Inv, TypeOK, NoUseAfterFree
<1>2. Held \in SUBSET Nodes /\ heap.edges \in [Nodes -> SUBSET Nodes]
  BY <1>1, HeapInvGives DEF Held
<1>3. QED
  BY <1>1, <1>2, ReachClosed

\* A step that leaves the heap alone and only moves handles within reach.
LEMMA MovesKeepInv ==
  ASSUME Inv, ~heap.dropped, heap' = heap,
         globals' \subseteq Reach(Held, heap.edges),
         locals' \subseteq Reach(Held, heap.edges),
         borrows' \subseteq Nodes,
         \A n \in borrows' : heap.kind[n] \in PayloadKinds,
         retunedAt' = retunedAt, collectionEnabled' = collectionEnabled,
         collectionEnabled => borrows' = {}
  PROVE  Inv'
<1>1. /\ HeapInv(heap)
      /\ Closed(Reach(Held, heap.edges), heap.edges)
      /\ Reach(Held, heap.edges) \subseteq Allocated(heap)
      /\ Reach(Held, heap.edges) \in SUBSET Nodes /\ retunedAt \in Nat
      /\ collectionEnabled \in BOOLEAN
  BY ClientFacts
<1>2. Held' \subseteq Reach(Held, heap.edges)
  BY DEF Held
<1>3. Reach(Held', heap.edges) \subseteq Reach(Held, heap.edges)
  BY <1>1, <1>2, ReachLeast
<1>4. TypeOK'
  BY <1>1, HeapInvGives DEF TypeOK
<1>5. NoUseAfterFree'
  BY <1>1, <1>3 DEF NoUseAfterFree, Allocated
<1>6. PayloadReleasedOnce'
  BY DEF PayloadReleasedOnce, Inv
<1>7. QED
  BY <1>1, <1>4, <1>5, <1>6 DEF Inv

(* ---- one step ---------------------------------------------------------- *)

\* Heap g is heap h without the nodes of D, which the program cannot need.
Reclaims(h, g, D) ==
  /\ HeapInv(g) /\ g.dropped = h.dropped
  /\ D \in SUBSET (Nodes \ (Reach(Held, h.edges) \cup borrows))
  /\ g.kind = [n \in Nodes |-> IF n \in D THEN "Free" ELSE h.kind[n]]
  /\ g.edges = [n \in Nodes |-> IF n \in D THEN {} ELSE h.edges[n]]

\* A collection that sees every handle, precisely or by the scan, reclaims only
\* what the program cannot need: at depth 0 there are no borrows, and mid-run
\* every node with a payload is a root.
LEMMA CollectReclaims ==
  ASSUME Inv, ~heap.dropped, NEW P \in SUBSET Allocated(heap),
         NEW W, NEW retain \in BOOLEAN,
         Held \subseteq P \cup (W \cap Allocated(heap)), retain \/ borrows = {},
         NEW g \in CollectOutcomes(heap, P, W, retain)
  PROVE  /\ \E D : Reclaims(heap, g, D)
         /\ g.len \in Nat
<1>1. /\ HeapInv(heap) /\ Held \in SUBSET Nodes
      /\ \A n \in borrows : heap.kind[n] \in PayloadKinds
  BY ClientFacts
<1>2. CollectResult(heap, g, Held, retain)
  BY <1>1, CollectKeeps
<1> DEFINE D == {n \in Nodes : ~(g.kind[n] = heap.kind[n] /\ g.edges[n] = heap.edges[n])}
<1>3. D \in SUBSET (Nodes \ (Reach(Held, heap.edges) \cup borrows))
  BY <1>1, <1>2 DEF CollectResult
<1>4. /\ g.kind \in [Nodes -> AllKinds \cup {"Free"}]
      /\ g.edges \in [Nodes -> SUBSET Nodes] /\ g.len \in Nat
  BY <1>2, HeapInvGives DEF CollectResult
<1>5. \A n \in Nodes : /\ g.kind[n] = IF n \in D THEN "Free" ELSE heap.kind[n]
                       /\ g.edges[n] = IF n \in D THEN {} ELSE heap.edges[n]
  BY <1>2 DEF CollectResult
<1> HIDE DEF D
<1>6. Reclaims(heap, g, D)
  BY <1>2, <1>3, <1>4, <1>5 DEF Reclaims, CollectResult
<1>7. QED
  BY <1>4, <1>6

\* Reclaiming preserves the invariant.
LEMMA ReclaimKeepsInv ==
  ASSUME Inv, ~heap.dropped, NEW D, Reclaims(heap, heap', D),
         UNCHANGED <<client, collectionEnabled>>, retunedAt' \in Nat
  PROVE  Inv'
<1>1. /\ HeapInv(heap) /\ Held \in SUBSET Nodes
      /\ Reach(Held, heap.edges) \subseteq Allocated(heap)
      /\ borrows \subseteq Nodes /\ globals \subseteq Nodes /\ locals \subseteq Nodes
      /\ \A n \in borrows : heap.kind[n] \in PayloadKinds
      /\ collectionEnabled => borrows = {}
      /\ collectionEnabled \in BOOLEAN /\ collectionEnabled' = collectionEnabled
  BY ClientFacts
<1>2. /\ HeapInv(heap') /\ heap'.edges \in [Nodes -> SUBSET Nodes]
      /\ heap.edges \in [Nodes -> SUBSET Nodes]
  BY <1>1, HeapInvGives DEF Reclaims
<1>3. Held' = Held /\ borrows' = borrows /\ globals' = globals /\ locals' = locals
  BY DEF Held, client
<1>4. Reach(Held', heap'.edges) \subseteq Reach(Held, heap.edges)
  <2>1. \A n \in Nodes : heap'.edges[n] \subseteq heap.edges[n]
    BY DEF Reclaims
  <2>2. QED
    BY <1>1, <1>2, <1>3, <2>1, ReachMonotone
<1>5. \A n \in Reach(Held, heap.edges) \cup borrows :
        n \in Nodes /\ heap'.kind[n] = heap.kind[n]
  BY <1>1 DEF Reclaims, Allocated
<1>6. NoUseAfterFree'
  BY <1>1, <1>3, <1>4, <1>5 DEF NoUseAfterFree, Allocated
<1>7. TypeOK'
  BY <1>1, <1>2, <1>3, HeapInvGives DEF TypeOK
<1>8. PayloadReleasedOnce'
  BY <1>2, HeapInvGives DEF PayloadReleasedOnce
<1>9. QED
  BY <1>1, <1>2, <1>3, <1>6, <1>7, <1>8 DEF Inv

\* An allocation's collection, if it makes one, reclaims only what the program
\* cannot need although the client's root slice may omit the operands.
LEMMA ObtainReclaims ==
  ASSUME Inv, ~heap.dropped, NEW ops \in SUBSET Held, NEW omitted \in SUBSET ops,
         NEW g \in ObtainOutcomes(heap, AllocRoots(Held \ omitted, ops))
  PROVE  \E D : Reclaims(heap, g, D)
<1>1. /\ HeapInv(heap) /\ Held \subseteq Allocated(heap)
      /\ collectionEnabled => borrows = {}
  BY ClientFacts
<1>2. AllocRoots(Held \ omitted, ops) = Held
  BY DEF AllocRoots
<1>3. CASE FreeSlots(heap) = {} /\ collectionEnabled /\ heap.len >= Cap
  <2>1. g \in CollectOutcomes(heap, Held, {}, FALSE)
    BY <1>2, <1>3 DEF ObtainOutcomes
  <2>2. QED
    BY <1>1, <1>3, <2>1, CollectReclaims
<1>4. CASE ~(FreeSlots(heap) = {} /\ collectionEnabled /\ heap.len >= Cap)
  <2>1. g = heap
    BY <1>4 DEF ObtainOutcomes
  <2>2. /\ heap.kind = [n \in Nodes |-> heap.kind[n]]
        /\ heap.edges = [n \in Nodes |-> heap.edges[n]]
    BY <1>1, HeapInvGives
  <2>3. Reclaims(heap, g, {})
    BY <1>1, <2>1, <2>2 DEF Reclaims
  <2>4. QED
    BY <2>3
<1>5. QED
  BY <1>3, <1>4

\* An allocation that yields a node n of kind k in a slot that held nothing, or
\* nothing the program could need.
Allocates(D, k, ops, n) ==
  /\ HeapInv(heap') /\ heap'.dropped = heap.dropped
  /\ D \in SUBSET (Nodes \ (Reach(Held, heap.edges) \cup borrows))
  /\ n \in Nodes /\ (heap.kind[n] = "Free" \/ n \in D)
  /\ heap'.kind = [[m \in Nodes |-> IF m \in D THEN "Free" ELSE heap.kind[m]]
                     EXCEPT ![n] = k]
  /\ heap'.edges = [[m \in Nodes |-> IF m \in D THEN {} ELSE heap.edges[m]]
                      EXCEPT ![n] = ops]
  /\ locals' = locals \cup {n}
  /\ UNCHANGED <<globals, borrows, retunedAt>>

\* Alloc is such an allocation, or an unwind that only reclaims.
LEMMA AllocEffect ==
  ASSUME Inv, ~heap.dropped, Alloc
  PROVE  \/ \E D : Reclaims(heap, heap', D) /\ UNCHANGED <<client, retunedAt>>
         \/ \E D \in SUBSET Nodes, k \in Kinds, ops \in SUBSET Held, n \in Nodes :
              Allocates(D, k, ops, n)
<1>1. /\ HeapInv(heap) /\ Held \in SUBSET Nodes
      /\ Held \subseteq Reach(Held, heap.edges)
      /\ Reach(Held, heap.edges) \subseteq Allocated(heap)
  BY ClientFacts
<1>2. PICK k \in Kinds, ops \in SUBSET Held, omitted \in SUBSET Held :
        /\ omitted \subseteq ops /\ (k \notin TracedKinds => ops = {})
        /\ \E g \in ObtainOutcomes(heap, AllocRoots(Held \ omitted, ops)) :
             IF Unwound(heap, g)
             THEN heap' = g /\ UNCHANGED locals
             ELSE /\ FreeSlots(g) # {} \/ CanGrow(g)
                  /\ \E n \in FreeSlots(WithSlots(g)) :
                       /\ heap' = Placed(WithSlots(g), n, k, ops)
                       /\ locals' = locals \cup {n}
        /\ UNCHANGED <<globals, borrows, retunedAt>>
  BY Zenon DEF Alloc
<1>3. PICK g \in ObtainOutcomes(heap, AllocRoots(Held \ omitted, ops)) :
        IF Unwound(heap, g)
        THEN heap' = g /\ UNCHANGED locals
        ELSE /\ FreeSlots(g) # {} \/ CanGrow(g)
             /\ \E n \in FreeSlots(WithSlots(g)) :
                  /\ heap' = Placed(WithSlots(g), n, k, ops)
                  /\ locals' = locals \cup {n}
  BY <1>2
<1>4. PICK D : Reclaims(heap, g, D)
  <2>1. omitted \in SUBSET ops
    BY <1>2
  <2>2. QED
    BY <1>3, <2>1, ObtainReclaims
<1>5. CASE Unwound(heap, g)
  BY <1>2, <1>3, <1>4, <1>5 DEF client
<1>6. CASE ~Unwound(heap, g)
  <2> DEFINE w == WithSlots(g)
  <2>1. PICK n \in FreeSlots(w) :
           heap' = Placed(w, n, k, ops) /\ locals' = locals \cup {n}
    BY <1>3, <1>6
  <2>2. /\ HeapInv(w) /\ w.kind = g.kind /\ w.edges = g.edges /\ w.dropped = g.dropped
    <3>1. CASE FreeSlots(g) = {}
      <4>1. CanGrow(g) /\ HeapInv(g)
        BY <1>3, <1>4, <1>6, <3>1 DEF Reclaims
      <4>2. w = Grown(g)
        BY <3>1 DEF WithSlots
      <4> HIDE DEF w
      <4>3. QED
        BY <4>1, <4>2, GrownKeepsInv
    <3>2. CASE FreeSlots(g) # {}
      BY <1>4, <3>2 DEF WithSlots, Reclaims
    <3>3. QED
      BY <3>1, <3>2
  <2> HIDE DEF w
  <2>3. k \in AllKinds
    BY ConstantsAssumption
  <2>4. ops \in SUBSET Allocated(w)
    <3>1. \A m \in ops : m \in Nodes /\ heap.kind[m] # "Free" /\ m \notin D
      BY <1>1, <1>4 DEF Reclaims, Allocated
    <3>2. \A m \in ops : w.kind[m] = heap.kind[m]
      BY <1>4, <2>2, <3>1 DEF Reclaims
    <3>3. QED
      BY <3>1, <3>2 DEF Allocated
  <2>5. /\ HeapInv(heap')
        /\ heap'.kind = [w.kind EXCEPT ![n] = k]
        /\ heap'.edges = [w.edges EXCEPT ![n] = IF k \in TracedKinds THEN ops ELSE {}]
        /\ heap'.dropped = w.dropped /\ w.kind[n] = "Free"
    BY <2>1, <2>2, <2>3, <2>4, PlacedKeepsInv
  <2>6. n \in Nodes
    BY DEF FreeSlots
  <2>7. heap'.edges = [w.edges EXCEPT ![n] = ops]
    BY <1>2, <2>5
  <2>8. heap.kind[n] = "Free" \/ n \in D
    BY <1>4, <2>2, <2>5, <2>6 DEF Reclaims
  <2>9. Allocates(D, k, ops, n)
    <3>1. /\ HeapInv(heap') /\ heap'.dropped = heap.dropped
          /\ D \in SUBSET (Nodes \ (Reach(Held, heap.edges) \cup borrows))
      BY <1>4, <2>2, <2>5 DEF Reclaims
    <3>2. heap'.kind = [[m \in Nodes |-> IF m \in D THEN "Free" ELSE heap.kind[m]]
                         EXCEPT ![n] = k]
      BY <1>4, <2>2, <2>5 DEF Reclaims
    <3>3. heap'.edges = [[m \in Nodes |-> IF m \in D THEN {} ELSE heap.edges[m]]
                          EXCEPT ![n] = ops]
      BY <1>4, <2>2, <2>7 DEF Reclaims
    <3>4. QED
      BY ONLY <1>2, <2>1, <2>6, <2>8, <3>1, <3>2, <3>3 DEF Allocates
  <2>10. D \in SUBSET Nodes /\ k \in Kinds /\ ops \in SUBSET Held
    BY <1>2, <1>4 DEF Reclaims
  <2>11. QED
    BY <2>6, <2>9, <2>10, Zenon
<1>7. QED
  BY <1>5, <1>6

\* An allocation preserves the invariant: the new node reaches only what its
\* operands, which the program held, reached before.
LEMMA AllocKeepsInv ==
  ASSUME Inv, ~heap.dropped, NEW D, NEW k \in Kinds, NEW ops \in SUBSET Held, NEW n,
         Allocates(D, k, ops, n), UNCHANGED collectionEnabled
  PROVE  Inv'
<1> DEFINE R == Reach(Held, heap.edges)
           S == R \cup {n}
<1>1. /\ HeapInv(heap) /\ Held \in SUBSET Nodes /\ Held \subseteq R
      /\ Closed(R, heap.edges) /\ R \subseteq Allocated(heap) /\ R \in SUBSET Nodes
      /\ globals \subseteq Nodes /\ locals \subseteq Nodes /\ borrows \subseteq Nodes
      /\ \A m \in borrows : heap.kind[m] \in PayloadKinds
      /\ collectionEnabled => borrows = {}
      /\ collectionEnabled \in BOOLEAN /\ collectionEnabled' = collectionEnabled
      /\ retunedAt \in Nat
  BY ClientFacts
<1> HIDE DEF R
<1>2. /\ HeapInv(heap') /\ D \in SUBSET (Nodes \ (R \cup borrows)) /\ n \in Nodes
      /\ heap.kind[n] = "Free" \/ n \in D
      /\ heap'.kind = [[m \in Nodes |-> IF m \in D THEN "Free" ELSE heap.kind[m]]
                         EXCEPT ![n] = k]
      /\ heap'.edges = [[m \in Nodes |-> IF m \in D THEN {} ELSE heap.edges[m]]
                          EXCEPT ![n] = ops]
      /\ locals' = locals \cup {n}
      /\ globals' = globals /\ borrows' = borrows /\ retunedAt' = retunedAt
  BY DEF Allocates, R
<1>3. n \notin R
  BY <1>1, <1>2 DEF Allocated
<1>4. n \notin borrows
  BY <1>1, <1>2 DEF PayloadKinds
<1>5. k # "Free"
  BY ConstantsAssumption DEF AllKinds
<1>6. \A m \in R \cup borrows : m \in Nodes /\ heap'.kind[m] = heap.kind[m]
  BY <1>1, <1>2, <1>3, <1>4
<1>7. \A m \in R : heap'.edges[m] = heap.edges[m]
  BY <1>1, <1>2, <1>3
<1>8. heap'.edges[n] = ops /\ heap'.kind[n] = k
  BY <1>2
<1>9. Closed(S, heap'.edges)
  BY <1>1, <1>7, <1>8 DEF Closed
<1>10. Held' \subseteq S /\ S \in SUBSET Nodes
  BY <1>1, <1>2 DEF Held
<1>11. Reach(Held', heap'.edges) \subseteq S
  BY <1>9, <1>10, ReachLeast
<1>12. S \subseteq Allocated(heap')
  BY <1>1, <1>2, <1>5, <1>6, <1>8 DEF Allocated
<1>13. NoUseAfterFree'
  BY <1>1, <1>2, <1>6, <1>11, <1>12 DEF NoUseAfterFree
<1>14. TypeOK'
  BY <1>1, <1>2, HeapInvGives DEF TypeOK
<1>15. PayloadReleasedOnce'
  BY <1>2, HeapInvGives DEF PayloadReleasedOnce
<1>16. QED
  BY <1>1, <1>2, <1>13, <1>14, <1>15 DEF Inv

\* Every collection the program asks for only reclaims.
LEMMA CollectionsReclaim ==
  ASSUME Inv, ~heap.dropped,
         Collect \/ CollectAtSafepoint \/ CollectAtSafepointRetaining
  PROVE  /\ \E D : Reclaims(heap, heap', D)
         /\ UNCHANGED client /\ retunedAt' \in Nat
<1>1. /\ HeapInv(heap) /\ Held \in SUBSET Nodes /\ Held \subseteq Allocated(heap)
      /\ collectionEnabled => borrows = {}
      /\ retunedAt \in Nat
  BY ClientFacts
<1>2. CASE Collect
  <2>1. /\ borrows = {} /\ UNCHANGED <<client, retunedAt>>
        /\ heap' \in CollectOutcomes(heap, Held, {}, FALSE)
    BY <1>1, <1>2 DEF Collect
  <2>2. \E D : Reclaims(heap, heap', D)
    BY <1>1, <2>1, CollectReclaims
  <2>3. QED
    BY <1>1, <2>1, <2>2
<1>3. ASSUME NEW retain \in BOOLEAN, Safepoint(retain), retain \/ borrows = {}
      PROVE  /\ \E D : Reclaims(heap, heap', D)
             /\ UNCHANGED client /\ retunedAt' \in Nat
  <2>0. PICK junk \in SUBSET Nodes :
          \E g \in CollectOutcomes(heap, globals, locals \cup junk, retain) :
            /\ heap' = IF Unwound(heap, g) THEN g ELSE Retuned(g)
            /\ retunedAt' = IF Unwound(heap, g) THEN retunedAt ELSE g.len
            /\ UNCHANGED client
    BY <1>3 DEF Safepoint
  <2>1. PICK g \in CollectOutcomes(heap, globals, locals \cup junk, retain) :
          /\ heap' = IF Unwound(heap, g) THEN g ELSE Retuned(g)
          /\ retunedAt' = IF Unwound(heap, g) THEN retunedAt ELSE g.len
          /\ UNCHANGED client
    BY <2>0
  <2>2. /\ globals \in SUBSET Allocated(heap)
        /\ Held \subseteq globals \cup ((locals \cup junk) \cap Allocated(heap))
    BY <1>1 DEF Held
  <2>3. (\E D : Reclaims(heap, g, D)) /\ g.len \in Nat
    BY <1>3, <2>1, <2>2, CollectReclaims
  <2>4. PICK D : Reclaims(heap, g, D)
    BY <2>3
  <2>5. Reclaims(heap, Retuned(g), D)
    <3>1. HeapInv(g)
      BY <2>4 DEF Reclaims
    <3>2. /\ HeapInv(Retuned(g)) /\ Retuned(g).dropped = g.dropped
          /\ Retuned(g).kind = g.kind /\ Retuned(g).edges = g.edges
      BY <3>1, RetunedKeepsInv
    <3>3. QED
      BY <2>4, <3>2 DEF Reclaims
  <2>6. Reclaims(heap, heap', D)
    BY <2>1, <2>4, <2>5
  <2>7. QED
    BY <1>1, <2>1, <2>3, <2>6
<1>4. QED
  BY <1>2, <1>3 DEF CollectAtSafepoint, CollectAtSafepointRetaining

\* Overwriting a cell names only nodes the program held.
LEMMA WriteEffect ==
  ASSUME Inv, ~heap.dropped, WriteCell
  PROVE  /\ HeapInv(heap') /\ heap'.kind = heap.kind /\ heap'.dropped = heap.dropped
         /\ UNCHANGED <<client, retunedAt>>
         /\ \E n \in Held, e \in SUBSET Nodes :
              /\ e \subseteq heap.edges[n] \cup Held
              /\ heap'.edges = [heap.edges EXCEPT ![n] = e]
<1>1. /\ HeapInv(heap) /\ Held \in SUBSET Nodes /\ Held \subseteq Allocated(heap)
  BY ClientFacts
<1>2. PICK n \in Held, old \in SUBSET Nodes, new \in SUBSET Held :
        /\ heap' = [heap EXCEPT !.edges = [heap.edges EXCEPT ![n] = (@ \ old) \cup new]]
        /\ UNCHANGED <<client, retunedAt>>
  BY Zenon DEF WriteCell
<1> DEFINE e == (heap.edges[n] \ old) \cup new
<1>3. /\ heap \in HeapType /\ heap.edges \in [Nodes -> SUBSET Nodes] /\ n \in Nodes
  BY <1>1, HeapInvGives
<1>4. e \in SUBSET Nodes /\ e \subseteq heap.edges[n] \cup Held
  BY <1>1, <1>3
<1>5. heap' = [heap EXCEPT !.edges = [heap.edges EXCEPT ![n] = e]]
  BY <1>2, <1>3
<1> HIDE DEF e
<1>6. /\ heap'.kind = heap.kind /\ heap'.boxes = heap.boxes /\ heap'.free = heap.free
      /\ heap'.mark = heap.mark /\ heap'.liveBits = heap.liveBits
      /\ heap'.len = heap.len /\ heap'.sweepIncomplete = heap.sweepIncomplete
      /\ heap'.dropped = heap.dropped
      /\ heap'.edges = [heap.edges EXCEPT ![n] = e]
  BY <1>3, <1>5 DEF HeapType
<1>7. heap' \in HeapType
  BY <1>3, <1>4, <1>5 DEF HeapType
<1>8. HeapInv(heap')
  <2>1. /\ FreeListExact(heap') /\ Allocated(heap') = Allocated(heap)
        /\ All(heap') = All(heap)
    BY <1>1, <1>6 DEF HeapInv, FreeListExact, FreeSlots, Allocated, All
  <2>2. ASSUME ~heap.sweepIncomplete
        PROVE  Closed(Allocated(heap), heap'.edges)
    <3>1. Closed(Allocated(heap), heap.edges)
      BY <1>1, <2>2 DEF HeapInv
    <3>2. e \subseteq Allocated(heap)
      BY <1>1, <1>4, <3>1 DEF Closed
    <3>3. QED
      BY <1>3, <1>6, <3>1, <3>2 DEF Closed, Allocated
  <2>0. \A m \in Nodes : m >= heap'.len => heap'.edges[m] = {}
    BY <1>1, <1>3, <1>6 DEF HeapInv, Allocated
  <2>3. QED
    BY <1>1, <1>6, <1>7, <2>1, <2>2, <2>0 DEF HeapInv
<1>9. QED
  BY <1>2, <1>4, <1>6, <1>8

\* WriteCell preserves the invariant.
LEMMA WriteKeepsInv ==
  ASSUME Inv, ~heap.dropped, WriteCell, UNCHANGED collectionEnabled
  PROVE  Inv'
<1> DEFINE R == Reach(Held, heap.edges)
<1>1. /\ HeapInv(heap) /\ Held \in SUBSET Nodes /\ Held \subseteq R
      /\ Closed(R, heap.edges) /\ R \subseteq Allocated(heap) /\ R \in SUBSET Nodes
      /\ globals \subseteq Nodes /\ locals \subseteq Nodes /\ borrows \subseteq Nodes
      /\ \A m \in borrows : heap.kind[m] \in PayloadKinds
      /\ collectionEnabled => borrows = {}
      /\ collectionEnabled \in BOOLEAN /\ collectionEnabled' = collectionEnabled
      /\ retunedAt \in Nat
  BY ClientFacts
<1> HIDE DEF R
<1>2. /\ HeapInv(heap') /\ heap'.kind = heap.kind /\ UNCHANGED <<client, retunedAt>>
  BY WriteEffect
<1>3. PICK n \in Held, e \in SUBSET Nodes :
        /\ e \subseteq heap.edges[n] \cup Held
        /\ heap'.edges = [heap.edges EXCEPT ![n] = e]
  BY WriteEffect
<1>4. Closed(R, heap'.edges)
  <2>1. heap.edges \in [Nodes -> SUBSET Nodes]
    BY <1>1, HeapInvGives
  <2>2. QED
    BY <1>1, <1>3, <2>1 DEF Closed
<1>5. Held' = Held
  BY <1>2 DEF Held, client
<1>6. Reach(Held', heap'.edges) \subseteq R
  BY <1>1, <1>4, <1>5, ReachLeast
<1>7. TypeOK' /\ NoUseAfterFree'
  BY <1>1, <1>2, <1>6, HeapInvGives DEF TypeOK, NoUseAfterFree, Allocated, client
<1>8. PayloadReleasedOnce'
  BY <1>2, HeapInvGives DEF PayloadReleasedOnce
<1>9. QED
  BY <1>1, <1>2, <1>7, <1>8 DEF Inv, client

\* Enabling request mode disturbs nothing but the trigger.
LEMMA EnableEffect ==
  ASSUME Inv, ~heap.dropped, EnableRequestGc
  PROVE  Reclaims(heap, heap', {}) /\ UNCHANGED client /\ retunedAt' \in Nat
<1>1. HeapInv(heap) /\ heap \in HeapType
  BY ClientFacts, HeapInvGives
<1>2. /\ heap' = [heap EXCEPT !.requestMode = TRUE, !.minTrigger = MaxOf(Floor, 1),
                              !.nextTrigger = MaxOf(Floor, 1)]
      /\ retunedAt' = heap.len /\ UNCHANGED client
  BY DEF EnableRequestGc
<1>3. MaxOf(Floor, 1) \in Nat
  BY ConstantsAssumption DEF MaxOf
<1>4. /\ heap'.kind = heap.kind /\ heap'.edges = heap.edges /\ heap'.boxes = heap.boxes
      /\ heap'.free = heap.free /\ heap'.mark = heap.mark
      /\ heap'.liveBits = heap.liveBits /\ heap'.len = heap.len
      /\ heap'.sweepIncomplete = heap.sweepIncomplete /\ heap'.dropped = heap.dropped
  BY <1>1, <1>2 DEF HeapType
<1>5. heap' \in HeapType
  BY <1>1, <1>2, <1>3 DEF HeapType
<1>6. /\ FreeListExact(heap') /\ Allocated(heap') = Allocated(heap)
      /\ All(heap') = All(heap)
  BY <1>1, <1>4 DEF HeapInv, FreeListExact, FreeSlots, Allocated, All
<1>7. HeapInv(heap')
  BY <1>1, <1>4, <1>5, <1>6 DEF HeapInv
<1>8. /\ heap.kind = [n \in Nodes |-> heap.kind[n]]
      /\ heap.edges = [n \in Nodes |-> heap.edges[n]]
  BY <1>1 DEF HeapType
<1>9. QED
  BY <1>1, <1>2, <1>4, <1>7, <1>8 DEF Reclaims, HeapType

\* Dropping the heap preserves what remains to be said of it.
LEMMA DropKeepsInv ==
  ASSUME Inv, ~heap.dropped, DropHeap, UNCHANGED collectionEnabled
  PROVE  /\ Inv' /\ heap'.dropped
         /\ \E D \in SUBSET Nodes :
              /\ heap'.kind = [n \in Nodes |-> IF n \in D THEN "Free" ELSE heap.kind[n]]
              /\ heap'.edges = [n \in Nodes |-> IF n \in D THEN {} ELSE heap.edges[n]]
<1>1. /\ HeapInv(heap) /\ heap \in HeapType /\ heap.len <= Block * MaxBlocks
      /\ \A n \in Nodes : heap.boxes[n] = IF heap.kind[n] \in PayloadKinds THEN 1 ELSE 0
      /\ retunedAt \in Nat /\ collectionEnabled \in BOOLEAN /\ Ungrown(heap)
  BY ClientFacts, HeapInvGives
<1>2. PICK end \in SweepEnds(heap, {}) :
        /\ heap' = [FreeResources(heap, {}, end) EXCEPT !.dropped = TRUE]
        /\ globals' = {} /\ locals' = {} /\ borrows' = {} /\ retunedAt' = retunedAt
  BY DEF DropHeap
<1> DEFINE f == FreeResources(heap, {}, end)
           D == Dropped(heap, {}, end) \cap Nodes
<1>3. /\ f \in HeapType
      /\ f.kind = [n \in Nodes |-> IF n \in D THEN "Free" ELSE heap.kind[n]]
      /\ f.edges = [n \in Nodes |-> IF n \in D THEN {} ELSE heap.edges[n]]
      /\ \A n \in Nodes : f.boxes[n] = IF f.kind[n] \in PayloadKinds THEN 1 ELSE 0
      /\ f.len = heap.len
      /\ f.free = heap.free /\ f.mark = heap.mark /\ f.liveBits = heap.liveBits
  <2>1. f.free = heap.free /\ f.mark = heap.mark /\ f.liveBits = heap.liveBits
    BY <1>1 DEF FreeResources, HeapType
  <2> QED BY <1>1, <2>1, FreeResourcesReleases
<1>4. heap' = [f EXCEPT !.dropped = TRUE]
  BY <1>2
<1> HIDE DEF f, D
<1>5. /\ heap' \in HeapType /\ heap'.kind = f.kind /\ heap'.edges = f.edges
      /\ heap'.boxes = f.boxes /\ heap'.len = f.len /\ heap'.dropped
      /\ heap'.free = f.free /\ heap'.mark = f.mark /\ heap'.liveBits = f.liveBits
  BY <1>3, <1>4 DEF HeapType
<1>6. Reach(Held', heap'.edges) \subseteq {}
  <2>1. Held' = {} /\ Closed({}, heap'.edges)
    BY <1>2 DEF Held, Closed
  <2>2. QED
    BY <2>1, ReachLeast
<1>0. Ungrown(heap')
  BY <1>1, <1>3, <1>5 DEF Ungrown, All
<1>7. TypeOK' /\ NoUseAfterFree' /\ PayloadReleasedOnce'
  BY <1>1, <1>2, <1>3, <1>5, <1>6, <1>0 DEF TypeOK, NoUseAfterFree, PayloadReleasedOnce
<1>8. Inv'
  BY <1>2, <1>5, <1>7 DEF Inv
<1>9. D \in SUBSET Nodes
  BY DEF D
<1>10. QED
  BY <1>3, <1>5, <1>8, <1>9

\* The client's own moves stay within reach.
LEMMA MoveEffect ==
  ASSUME Inv, ~heap.dropped, Load \/ Forget \/ SetGlobal \/ Borrow \/ EndBorrow
  PROVE  /\ heap' = heap /\ retunedAt' = retunedAt
         /\ locals' \in SUBSET Reach(Held, heap.edges)
         /\ globals' \in SUBSET Held
         /\ borrows' \in SUBSET (borrows \cup Held)
         /\ \A n \in borrows' : heap.kind[n] \in PayloadKinds
         /\ collectionEnabled => borrows' = {}
<1>1. /\ Held \subseteq Reach(Held, heap.edges)
      /\ Closed(Reach(Held, heap.edges), heap.edges)
      /\ \A m \in borrows : heap.kind[m] \in PayloadKinds
      /\ collectionEnabled => borrows = {}
      /\ globals \subseteq Held /\ locals \subseteq Held
  BY ClientFacts DEF Held
<1>2. CASE Load
  BY <1>1, <1>2 DEF Load, Closed
<1>3. CASE Forget
  BY <1>1, <1>3 DEF Forget
<1>4. CASE SetGlobal
  BY <1>1, <1>4 DEF SetGlobal
<1>5. CASE Borrow
  BY <1>1, <1>5 DEF Borrow
<1>6. CASE EndBorrow
  BY <1>1, <1>6 DEF EndBorrow
<1>7. QED
  BY <1>2, <1>3, <1>4, <1>5, <1>6

\* Every action of Next preserves the invariant.
LEMMA StepKeepsInv == Inv /\ [Next]_vars => Inv'
<1> SUFFICES ASSUME Inv, [Next]_vars PROVE Inv'
  OBVIOUS
<1>1. CASE UNCHANGED vars
  <2>1. /\ heap' = heap /\ globals' = globals /\ locals' = locals
        /\ borrows' = borrows /\ retunedAt' = retunedAt
        /\ collectionEnabled' = collectionEnabled
    BY <1>1 DEF vars
  <2>2. QED
    BY <2>1 DEF Inv, TypeOK, NoUseAfterFree, PayloadReleasedOnce, Held
<1>2. ASSUME ~heap.dropped, UNCHANGED collectionEnabled, Alloc PROVE Inv'
  <2>1. CASE \E D : Reclaims(heap, heap', D) /\ UNCHANGED <<client, retunedAt>>
    BY <1>2, <2>1, ReclaimKeepsInv, ClientFacts
  <2>2. CASE \E D \in SUBSET Nodes, k \in Kinds, ops \in SUBSET Held, n \in Nodes :
               Allocates(D, k, ops, n)
    BY <1>2, <2>2, AllocKeepsInv
  <2>3. QED
    BY <1>2, <2>1, <2>2, AllocEffect
<1>3. ASSUME ~heap.dropped, UNCHANGED collectionEnabled,
             Collect \/ CollectAtSafepoint \/ CollectAtSafepointRetaining
      PROVE  Inv'
  BY <1>3, CollectionsReclaim, ReclaimKeepsInv
<1>4. ASSUME ~heap.dropped, UNCHANGED collectionEnabled, EnableRequestGc PROVE Inv'
  BY <1>4, EnableEffect, ReclaimKeepsInv
<1>5. ASSUME ~heap.dropped, UNCHANGED collectionEnabled,
             Load \/ Forget \/ SetGlobal \/ Borrow \/ EndBorrow
      PROVE  Inv'
  <2>1. /\ heap' = heap /\ retunedAt' = retunedAt
        /\ locals' \in SUBSET Reach(Held, heap.edges)
        /\ globals' \in SUBSET Held
        /\ borrows' \in SUBSET (borrows \cup Held)
        /\ \A n \in borrows' : heap.kind[n] \in PayloadKinds
        /\ collectionEnabled => borrows' = {}
    BY <1>5, MoveEffect
  <2>2. Held \subseteq Reach(Held, heap.edges) /\ Held \in SUBSET Nodes /\ borrows \subseteq Nodes
    BY <1>5, ClientFacts
  <2>3. QED
    BY <1>5, <2>1, <2>2, MovesKeepInv
<1>6. QED
  BY <1>1, <1>2, <1>3, <1>4, <1>5, WriteKeepsInv, DropKeepsInv DEF Next

(* ---- growth is paced ------------------------------------------------------ *)

\* What NoSilentGrowth says of a heap whose trigger was computed at length r.
Paced(h, r) ==
  h.requestMode /\ ~h.gcPending /\ h.len > r
    => h.len < h.liveAtLastCollect + h.nextTrigger + Block

\* Heap g may be asked to collect exactly when heap h may.
SamePace(h, g) ==
  /\ g.requestMode = h.requestMode /\ g.gcPending = h.gcPending /\ g.len = h.len
  /\ g.liveAtLastCollect = h.liveAtLastCollect /\ g.nextTrigger = h.nextTrigger

\* A sweep leaves the trigger alone, and a refusal ends request mode.
LEMMA CollectPaced ==
  ASSUME NEW h \in HeapType, NEW P, NEW W, NEW retain,
         NEW g \in CollectOutcomes(h, P, W, retain), NEW r, Paced(h, r)
  PROVE  Paced(g, r) /\ g.len = h.len /\ Retuned(g).len = h.len
<1>1. CASE h.sweepIncomplete
  <2>1. g = [h EXCEPT !.requestMode = FALSE, !.gcPending = FALSE]
    BY <1>1 DEF CollectOutcomes, Refused
  <2>2. ~g.requestMode /\ g.len = h.len /\ Retuned(g).len = h.len
    BY <2>1 DEF HeapType, Retuned
  <2>3. QED
    BY <2>2 DEF Paced
<1>2. CASE ~h.sweepIncomplete
  <2>1. PICK M, end : g = Sweep(h, M, end)
    BY <1>2 DEF CollectOutcomes
  <2>2. SamePace(h, g) /\ Retuned(g).len = h.len
    BY <2>1 DEF Sweep, FreeResources, HeapType, SamePace, Retuned
  <2>3. QED
    BY <2>2 DEF SamePace, Paced
<1>3. QED
  BY <1>1, <1>2

\* A heap that grows without a request was still short of its trigger.
LEMMA PlacedPaced ==
  ASSUME NEW h \in HeapType, NEW r \in Nat, Paced(h, r), NEW n, NEW k, NEW ops
  PROVE  Paced(Placed(WithSlots(h), n, k, ops), r)
<1>0. /\ h.len \in Nat /\ h.liveAtLastCollect \in Nat /\ h.nextTrigger \in Nat
      /\ h.requestMode \in BOOLEAN /\ h.gcPending \in BOOLEAN /\ Block \in Nat
  BY ConstantsAssumption DEF HeapType
<1>1. SamePace(WithSlots(h), Placed(WithSlots(h), n, k, ops))
  BY DEF Placed, WithSlots, Grown, HeapType, SamePace
<1>2. CASE FreeSlots(h) = {}
  <2>1. /\ Grown(h).requestMode = h.requestMode
        /\ Grown(h).gcPending = (h.gcPending \/ (h.requestMode /\ Outgrown(h)))
        /\ Grown(h).len = h.len + Block
        /\ Grown(h).liveAtLastCollect = h.liveAtLastCollect
        /\ Grown(h).nextTrigger = h.nextTrigger
    BY DEF Grown, HeapType
  <2>2. ASSUME h.gcPending \/ ~h.requestMode \/ Outgrown(h) PROVE Paced(Grown(h), r)
    <3>1. Grown(h).gcPending \/ ~Grown(h).requestMode
      BY <2>1, <2>2, Zenon
    <3>2. QED
      BY <3>1 DEF Paced
  <2>3. ASSUME ~h.gcPending, h.requestMode, ~Outgrown(h) PROVE Paced(Grown(h), r)
    <3>1. h.len < h.liveAtLastCollect + h.nextTrigger
      BY <1>0, <2>3, SMT DEF Outgrown
    <3>2. h.len + Block < h.liveAtLastCollect + h.nextTrigger + Block
      BY <1>0, <3>1
    <3>3. QED
      BY <2>1, <3>2 DEF Paced
  <2>4. Paced(Grown(h), r)
    BY <2>2, <2>3
  <2>5. QED
    BY <1>1, <1>2, <2>4 DEF WithSlots, SamePace, Paced
<1>3. CASE FreeSlots(h) # {}
  BY <1>1, <1>3 DEF WithSlots, SamePace, Paced
<1>4. QED
  BY <1>2, <1>3

\* Every action keeps the pace.
LEMMA StepKeepsPace == Inv /\ NoSilentGrowth /\ [Next]_vars => NoSilentGrowth'
<1> SUFFICES ASSUME Inv, NoSilentGrowth, [Next]_vars PROVE Paced(heap', retunedAt')
  BY DEF NoSilentGrowth, Paced
<1>1. heap \in HeapType /\ retunedAt \in Nat /\ Paced(heap, retunedAt)
  BY DEF Inv, TypeOK, NoSilentGrowth, Paced
<1>2. CASE UNCHANGED vars
  BY <1>1, <1>2 DEF vars
<1>3. ASSUME ~heap.dropped, Alloc PROVE Paced(heap', retunedAt')
  <2>1. PICK k \in Kinds, ops \in SUBSET Held, omitted \in SUBSET Held :
          /\ omitted \subseteq ops
          /\ \E g \in ObtainOutcomes(heap, AllocRoots(Held \ omitted, ops)) :
               IF Unwound(heap, g)
               THEN heap' = g /\ UNCHANGED locals
               ELSE /\ FreeSlots(g) # {} \/ CanGrow(g)
                    /\ \E n \in FreeSlots(WithSlots(g)) :
                         /\ heap' = Placed(WithSlots(g), n, k, ops)
                         /\ locals' = locals \cup {n}
          /\ retunedAt' = retunedAt
    BY <1>3 DEF Alloc
  <2>2. PICK g \in ObtainOutcomes(heap, AllocRoots(Held \ omitted, ops)) :
          heap' = g \/ \E n \in FreeSlots(WithSlots(g)) :
                          heap' = Placed(WithSlots(g), n, k, ops)
    BY <2>1
  <2>3. g \in HeapType
    <3>1. \E D : Reclaims(heap, g, D)
      BY <1>3, <2>1, ObtainReclaims
    <3>2. QED
      BY <3>1, HeapInvGives DEF Reclaims
  <2>4. Paced(g, retunedAt)
    BY <1>1, CollectPaced DEF ObtainOutcomes
  <2>5. QED
    BY <1>1, <2>1, <2>2, <2>3, <2>4, PlacedPaced
<1>4. ASSUME ~heap.dropped, WriteCell PROVE Paced(heap', retunedAt')
  <2>1. SamePace(heap, heap') /\ retunedAt' = retunedAt
    BY <1>1, <1>4 DEF WriteCell, HeapType, SamePace
  <2>2. QED
    BY <1>1, <2>1 DEF SamePace, Paced
<1>5. CASE Collect
  BY <1>1, <1>5, CollectPaced DEF Collect
<1>6. ASSUME NEW retain, Safepoint(retain) PROVE Paced(heap', retunedAt')
  <2>1. PICK junk \in SUBSET Nodes :
          \E g \in CollectOutcomes(heap, globals, locals \cup junk, retain) :
            /\ heap' = IF Unwound(heap, g) THEN g ELSE Retuned(g)
            /\ retunedAt' = IF Unwound(heap, g) THEN retunedAt ELSE g.len
    BY <1>6 DEF Safepoint
  <2>2. PICK g \in CollectOutcomes(heap, globals, locals \cup junk, retain) :
          /\ heap' = IF Unwound(heap, g) THEN g ELSE Retuned(g)
          /\ retunedAt' = IF Unwound(heap, g) THEN retunedAt ELSE g.len
    BY <2>1
  <2>3. Paced(g, retunedAt)
    BY <1>1, CollectPaced
  <2>4. CASE Unwound(heap, g)
    BY <2>2, <2>3, <2>4
  <2>5. CASE ~Unwound(heap, g)
    <3>1. heap.len \in Nat /\ g.len = heap.len /\ Retuned(g).len = heap.len
      BY <1>1, CollectPaced DEF HeapType
    <3>2. ~(Retuned(g).len > g.len)
      BY <3>1
    <3>3. QED
      BY <2>2, <2>5, <3>2 DEF Paced
  <2>6. QED
    BY <2>4, <2>5
<1>7. CASE EnableRequestGc
  <2>1. heap'.len = heap.len /\ retunedAt' = heap.len /\ heap.len \in Nat
    BY <1>1, <1>7 DEF EnableRequestGc, HeapType
  <2>2. QED
    BY <2>1 DEF Paced
<1>8. CASE DropHeap
  <2>1. SamePace(heap, heap') /\ retunedAt' = retunedAt
    BY <1>1, <1>8 DEF DropHeap, FreeResources, HeapType, SamePace
  <2>2. QED
    BY <1>1, <2>1 DEF SamePace, Paced
<1>9. CASE Load \/ Forget \/ SetGlobal \/ Borrow \/ EndBorrow
  BY <1>1, <1>9 DEF Load, Forget, SetGlobal, Borrow, EndBorrow
<1>10. QED
  BY <1>2, <1>3, <1>4, <1>5, <1>6, <1>7, <1>8, <1>9
     DEF Next, CollectAtSafepoint, CollectAtSafepointRetaining

(* ---- an interrupted sweep ------------------------------------------------ *)

\* A collection of a poisoned heap refuses: it changes no node.
LEMMA CollectRefuses ==
  ASSUME NEW h \in HeapType, h.sweepIncomplete, NEW P, NEW W, NEW retain,
         NEW g \in CollectOutcomes(h, P, W, retain)
  PROVE  /\ g.sweepIncomplete /\ g.kind = h.kind
         /\ Retuned(g).sweepIncomplete /\ Retuned(g).kind = h.kind
<1>1. g = [h EXCEPT !.requestMode = FALSE, !.gcPending = FALSE]
  BY DEF CollectOutcomes, Refused
<1>2. g \in HeapType /\ g.sweepIncomplete /\ g.kind = h.kind
  BY <1>1 DEF HeapType
<1>3. Retuned(g).sweepIncomplete = g.sweepIncomplete /\ Retuned(g).kind = g.kind
  BY <1>2 DEF Retuned, HeapType
<1>4. QED
  BY <1>2, <1>3

\* An allocation in a poisoned heap takes a slot that held nothing.
LEMMA AllocPoisoned ==
  ASSUME Inv, ~heap.dropped, heap.sweepIncomplete, Alloc
  PROVE  /\ heap'.sweepIncomplete
         /\ \A n \in Allocated(heap) : heap'.kind[n] = heap.kind[n]
<1>1. heap \in HeapType /\ HeapInv(heap)
  BY DEF Inv, TypeOK
<1>2. PICK k \in Kinds, ops \in SUBSET Held, omitted \in SUBSET Held :
        /\ omitted \subseteq ops
        /\ \E g \in ObtainOutcomes(heap, AllocRoots(Held \ omitted, ops)) :
             IF Unwound(heap, g)
             THEN heap' = g /\ UNCHANGED locals
             ELSE /\ FreeSlots(g) # {} \/ CanGrow(g)
                  /\ \E n \in FreeSlots(WithSlots(g)) :
                       /\ heap' = Placed(WithSlots(g), n, k, ops)
                       /\ locals' = locals \cup {n}
  BY DEF Alloc
<1>3. PICK g \in ObtainOutcomes(heap, AllocRoots(Held \ omitted, ops)) :
        /\ FreeSlots(g) # {} \/ CanGrow(g)
        /\ \E n \in FreeSlots(WithSlots(g)) : heap' = Placed(WithSlots(g), n, k, ops)
  BY <1>2 DEF Unwound
<1>4. /\ HeapInv(g) /\ g.sweepIncomplete /\ g.kind = heap.kind
  <2>1. \E D : Reclaims(heap, g, D)
    BY <1>2, <1>3, ObtainReclaims
  <2>2. g \in {heap, Refused(heap)}
    BY <1>3 DEF ObtainOutcomes, CollectOutcomes
  <2>3. g.sweepIncomplete /\ g.kind = heap.kind
    BY <1>1, <2>2 DEF Refused, HeapType
  <2>4. QED
    BY <2>1, <2>3 DEF Reclaims
<1> DEFINE w == WithSlots(g)
<1>5. HeapInv(w) /\ w.kind = heap.kind /\ w.sweepIncomplete
  <2>1. CASE FreeSlots(g) = {}
    BY <1>3, <1>4, <2>1, GrownKeepsInv DEF WithSlots
  <2>2. CASE FreeSlots(g) # {}
    BY <1>4, <2>2 DEF WithSlots
  <2>3. QED
    BY <2>1, <2>2
<1>6. PICK n \in FreeSlots(w) : heap' = Placed(w, n, k, ops)
  BY <1>3
<1> HIDE DEF w
<1>7. w \in HeapType /\ n \in Nodes /\ w.kind[n] = "Free"
  BY <1>5, <1>6 DEF HeapInv, FreeListExact, FreeSlots
<1>8. heap'.sweepIncomplete /\ heap'.kind = [w.kind EXCEPT ![n] = k]
  BY <1>5, <1>6, <1>7 DEF Placed, HeapType
<1>9. QED
  BY <1>5, <1>7, <1>8 DEF Allocated, HeapType

\* No step but the end of the heap reclaims a node of a poisoned heap.
LEMMA PoisonKept ==
  ASSUME Inv, [Next]_vars, heap.sweepIncomplete, ~heap'.dropped
  PROVE  /\ heap'.sweepIncomplete
         /\ \A n \in Allocated(heap) : heap'.kind[n] = heap.kind[n]
<1>1. heap \in HeapType
  BY DEF Inv, TypeOK
<1>2. CASE UNCHANGED vars
  BY <1>2 DEF vars
<1>3. ASSUME ~heap.dropped, Alloc
      PROVE  /\ heap'.sweepIncomplete
             /\ \A n \in Allocated(heap) : heap'.kind[n] = heap.kind[n]
  BY <1>3, AllocPoisoned
<1>4. CASE WriteCell
  <2>1. heap'.sweepIncomplete = heap.sweepIncomplete /\ heap'.kind = heap.kind
    BY <1>1, <1>4 DEF WriteCell, HeapType
  <2>2. QED
    BY <2>1
<1>5. CASE Collect
  <2>1. heap' = Refused(heap)
    BY <1>5 DEF Collect, CollectOutcomes
  <2>2. heap'.sweepIncomplete /\ heap'.kind = heap.kind
    BY <1>1, <2>1 DEF Refused, HeapType
  <2>3. QED
    BY <2>2
<1>6. ASSUME NEW retain, Safepoint(retain)
      PROVE  /\ heap'.sweepIncomplete
             /\ \A n \in Allocated(heap) : heap'.kind[n] = heap.kind[n]
  <2>1. PICK junk \in SUBSET Nodes :
          \E g \in CollectOutcomes(heap, globals, locals \cup junk, retain) :
            heap' = IF Unwound(heap, g) THEN g ELSE Retuned(g)
    BY <1>6 DEF Safepoint
  <2>2. PICK g \in CollectOutcomes(heap, globals, locals \cup junk, retain) :
          heap' = IF Unwound(heap, g) THEN g ELSE Retuned(g)
    BY <2>1
  <2>3. heap'.sweepIncomplete /\ heap'.kind = heap.kind
    BY <1>1, <2>2, CollectRefuses
  <2>4. QED
    BY <2>3
<1>7. CASE EnableRequestGc
  <2>1. heap'.sweepIncomplete = heap.sweepIncomplete /\ heap'.kind = heap.kind
    BY <1>1, <1>7 DEF EnableRequestGc, HeapType
  <2>2. QED
    BY <2>1
<1>8. ~DropHeap
  <2>1. DropHeap => heap'.dropped
    BY <1>1 DEF DropHeap, FreeResources, HeapType
  <2>2. QED
    BY <2>1
<1>9. CASE Load \/ Forget \/ SetGlobal \/ Borrow \/ EndBorrow
  BY <1>9 DEF Load, Forget, SetGlobal, Borrow, EndBorrow
<1>10. QED
  BY <1>2, <1>3, <1>4, <1>5, <1>6, <1>7, <1>8, <1>9
     DEF Next, CollectAtSafepoint, CollectAtSafepointRetaining

(* ---- the theorems ------------------------------------------------------- *)

\* The invariant holds of every reachable state.
LEMMA InvHolds == Spec => []Inv
BY InitInv, StepKeepsInv, PTL DEF Spec

\* The heap's record keeps its shape and never runs past its slots (gc/heap.rs,
\* struct Heap), whatever the block size, the mode and the client.
THEOREM TypeCorrect == Spec => []TypeOK
<1>1. Inv => TypeOK
  BY DEF Inv
<1>2. QED
  BY <1>1, InvHolds, PTL

\* No handle the program reaches, and no payload a suspended frame borrows, is
\* ever freed by a collection (full, retaining or at the cap), even after a
\* sweep was cut short by a panicking Drop.
THEOREM MemorySafety == Spec => []NoUseAfterFree
<1>1. Inv => NoUseAfterFree
  BY DEF Inv
<1>2. QED
  BY <1>1, InvHolds, PTL

\* No payload box is released twice or leaked by a node that was freed.
THEOREM SingleRelease == Spec => []PayloadReleasedOnce
<1>1. Inv => PayloadReleasedOnce
  BY DEF Inv
<1>2. QED
  BY <1>1, InvHolds, PTL

\* The free list and the bitmap the conservative scan trusts stay exact.
THEOREM FreeListCorrect == Spec => []SlotsAccounted
<1>1. Inv => SlotsAccounted
  BY DEF Inv, HeapInv, SlotsAccounted
<1>2. QED
  BY <1>1, InvHolds, PTL

\* In request mode the heap never grows past its trigger unasked: whichever
\* collections were cut short or refused, a request precedes the growth.
THEOREM GrowthIsPaced == Spec => []NoSilentGrowth
<1>1. Init => NoSilentGrowth
  BY DEF Init, NewHeap, NoSilentGrowth
<1>2. QED
  BY <1>1, StepKeepsPace, InvHolds, PTL DEF Spec

\* After an interrupted sweep no node is reclaimed again before the heap itself is
\* dropped: the guard at the head of collect (gc/heap.rs) covers every caller.
THEOREM PoisonIsFinal == Spec => PoisonedNeverReclaims
<1>1. Inv /\ [Next]_vars =>
        [heap.sweepIncomplete /\ ~heap'.dropped =>
           /\ heap'.sweepIncomplete
           /\ \A n \in Allocated(heap) : heap'.kind[n] = heap.kind[n]]_vars
  BY PoisonKept
<1>2. QED
  BY <1>1, InvHolds, PTL DEF Spec, PoisonedNeverReclaims

\* The empty heap is the empty store.
LEMMA InitRefines == Init => Store!Init
BY DEF Init, Store!Init, NewHeap

\* Reachability is the same notion in both modules.
LEMMA SameReach == \A R, e : Store!Reach(R, e) = Reach(R, e)
BY DEF Reach, Closed, Store!Reach, Store!Closed

\* A reclaiming step is the store's Reclaim.
LEMMA ReclaimRefines ==
  ASSUME NEW D, Reclaims(heap, heap', D), UNCHANGED client
  PROVE  Store!Reclaim
<1>1. D \in SUBSET (Nodes \ Store!Needed)
  BY SameReach DEF Reclaims, Store!Needed, Store!Held, Held
<1>2. heap'.kind = Store!Without(D) /\ heap'.edges = Store!EdgesWithout(D)
  BY DEF Reclaims, Store!Without, Store!EdgesWithout
<1>3. QED
  BY <1>1, <1>2 DEF Store!Reclaim, client

\* An allocating step is the store's New.
LEMMA AllocRefines ==
  ASSUME NEW D \in SUBSET Nodes, NEW k \in Kinds, NEW ops \in SUBSET Held,
         NEW n \in Nodes, Allocates(D, k, ops, n)
  PROVE  Store!New
<1>1. D \in SUBSET (Nodes \ Store!Needed) /\ ops \in SUBSET Store!Held
  BY SameReach DEF Allocates, Store!Needed, Store!Held, Held
<1>2. n \in (Nodes \ Store!Present) \cup D
  BY DEF Allocates, Store!Present
<1>3. /\ heap'.kind = [Store!Without(D) EXCEPT ![n] = k]
      /\ heap'.edges = [Store!EdgesWithout(D) EXCEPT ![n] = ops]
      /\ locals' = locals \cup {n} /\ UNCHANGED <<globals, borrows>>
  BY DEF Allocates, Store!Without, Store!EdgesWithout
<1>4. QED
  BY <1>1, <1>2, <1>3, Zenon DEF Store!New

\* Every step of the heap is a step of the store or leaves the store unchanged.
LEMMA StepRefines == Inv /\ [Next]_vars => [Store!Next]_Store!vars
<1> SUFFICES ASSUME Inv, [Next]_vars PROVE [Store!Next]_Store!vars
  OBVIOUS
<1>1. CASE UNCHANGED vars
  BY <1>1 DEF vars, Store!vars
<1>2. ASSUME ~heap.dropped, Alloc PROVE Store!Next
  <2>1. CASE \E D : Reclaims(heap, heap', D) /\ UNCHANGED <<client, retunedAt>>
    BY <2>1, ReclaimRefines DEF Store!Next
  <2>2. CASE \E D \in SUBSET Nodes, k \in Kinds, ops \in SUBSET Held, n \in Nodes :
               Allocates(D, k, ops, n)
    BY <2>2, AllocRefines DEF Store!Next
  <2>3. QED
    BY <1>2, <2>1, <2>2, AllocEffect
<1>3. ASSUME ~heap.dropped, Collect \/ CollectAtSafepoint \/ CollectAtSafepointRetaining
      PROVE  Store!Next
  BY <1>3, CollectionsReclaim, ReclaimRefines DEF Store!Next
<1>4. ASSUME ~heap.dropped, EnableRequestGc PROVE Store!Next
  BY <1>4, EnableEffect, ReclaimRefines DEF Store!Next
<1>5. ASSUME ~heap.dropped, WriteCell PROVE Store!Next
  <2>1. heap'.kind = heap.kind /\ UNCHANGED client
    BY <1>5, WriteEffect
  <2>2. PICK n \in Held, e \in SUBSET Nodes :
          /\ e \subseteq heap.edges[n] \cup Held
          /\ heap'.edges = [heap.edges EXCEPT ![n] = e]
    BY <1>5, WriteEffect
  <2>3. Store!Write
    BY <2>1, <2>2 DEF Store!Write, Store!Held, Held, client
  <2>4. QED
    BY <2>3 DEF Store!Next
<1>6. ASSUME ~heap.dropped, UNCHANGED collectionEnabled, DropHeap PROVE Store!Next
  <2>1. globals' = {} /\ locals' = {} /\ borrows' = {}
    BY <1>6 DEF DropHeap
  <2>2. PICK D \in SUBSET Nodes :
          /\ heap'.kind = [n \in Nodes |-> IF n \in D THEN "Free" ELSE heap.kind[n]]
          /\ heap'.edges = [n \in Nodes |-> IF n \in D THEN {} ELSE heap.edges[n]]
    BY <1>6, DropKeepsInv
  <2>3. Store!End
    BY <2>1, <2>2 DEF Store!End, Store!Without, Store!EdgesWithout
  <2>4. QED
    BY <2>3 DEF Store!Next
<1>7. ASSUME ~heap.dropped, Load \/ Forget \/ SetGlobal \/ Borrow \/ EndBorrow
      PROVE  Store!Next
  <2>1. /\ heap' = heap
        /\ locals' \in SUBSET Reach(Held, heap.edges)
        /\ globals' \in SUBSET Held
        /\ borrows' \in SUBSET (borrows \cup Held)
    BY <1>7, MoveEffect
  <2>2. Store!Move
    BY <2>1, SameReach DEF Store!Move, Store!Held, Held
  <2>3. QED
    BY <2>2 DEF Store!Next
<1>8. QED
  BY <1>1, <1>2, <1>3, <1>4, <1>5, <1>6, <1>7 DEF Next

\* The collector implements the store the interpreter is programmed against:
\* only unneeded objects disappear, a slot is reused only once its object is
\* unneeded, and nothing but the program changes an object.
THEOREM Refinement == Spec => ImplementsStore
<1>1. Init => Store!Init
  BY InitRefines
<1>2. Inv /\ [Next]_vars => [Store!Next]_Store!vars
  BY StepRefines
<1>3. QED
  BY <1>1, <1>2, InvHolds, PTL DEF Spec, ImplementsStore, Store!Spec
=============================================================================
