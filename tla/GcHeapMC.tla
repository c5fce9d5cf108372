------------------------------ MODULE GcHeapMC ------------------------------
(***************************************************************************)
(* Instances of GcHeap for TLC: every bound is a constant of the .cfg.     *)
(* PromptSpec narrows the client to one that enables request mode first    *)
(* and serves each collection request before the heap grows again, with a  *)
(* stack scan that retains nothing but the nodes really held.              *)
(***************************************************************************)
EXTENDS GcHeap

\* Node kinds without edges or host Drops keep at most this many nodes live.
LiveBound == MaxLocals + MaxGlobals

PromptNext ==
  /\ Next
  /\ ~heap.requestMode => EnableRequestGc
  /\ heap.gcPending => heap'.len = heap.len
  /\ heap'.lastLive <= LiveBound

PromptSpec == Init /\ [][PromptNext]_vars

\* A served heap stays near twice its live set (or the floor), whatever is
\* allocated and dropped: README.md:77, "a long-running embedding gets a
\* **bounded heap**", by the policy of gc/heap.rs:96, "collect roughly when the
\* heap has doubled past the live set".  Two blocks are allowed for "roughly".
BoundedHeap ==
  ~heap.gcPending =>
    heap.len <= LiveBound + MaxOf(LiveBound, MaxOf(Floor, 1)) + 2 * Block
=============================================================================
