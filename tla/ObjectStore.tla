---------------------------- MODULE ObjectStore ----------------------------
(***************************************************************************)
(* What the collector of shen-rust promises to the interpreter: an object  *)
(* the program can still reach, from a precise root, a native local or a   *)
(* payload borrow, is there and only the program changes it.  Anything     *)
(* else may disappear at any time and its slot may be reused.              *)
(***************************************************************************)
EXTENDS ObjectGraph

CONSTANTS Kinds,    \* node kinds the program allocates
          Absent    \* the content of a slot that holds no object

VARIABLES
  content,    \* slot -> kind of the object in it, or Absent
  edges,      \* slot -> slots its payload words name
  globals,    \* precise roots: handles in the interpreter's containers
  locals,     \* handles held by native frames
  borrows     \* slots into whose payload a suspended frame holds a borrow

vars == <<content, edges, globals, locals, borrows>>

Held == globals \cup locals

Needed == Reach(Held, edges) \cup borrows

Present == {n \in Nodes : content[n] # Absent}

Init ==
  /\ content = [n \in Nodes |-> Absent]
  /\ edges = [n \in Nodes |-> {}]
  /\ globals = {} /\ locals = {} /\ borrows = {}

\* Emptying the slots of D, which the program cannot need.
Without(D) == [n \in Nodes |-> IF n \in D THEN Absent ELSE content[n]]
EdgesWithout(D) == [n \in Nodes |-> IF n \in D THEN {} ELSE edges[n]]

Reclaim ==
  \E D \in SUBSET (Nodes \ Needed) :
    /\ content' = Without(D)
    /\ edges' = EdgesWithout(D)
    /\ UNCHANGED <<globals, locals, borrows>>

\* A new object; unneeded ones may be reclaimed to make room for it.
New ==
  \E D \in SUBSET (Nodes \ Needed), k \in Kinds, ops \in SUBSET Held :
    \E n \in (Nodes \ Present) \cup D :
      /\ content' = [Without(D) EXCEPT ![n] = k]
      /\ edges' = [EdgesWithout(D) EXCEPT ![n] = ops]
      /\ locals' = locals \cup {n}
      /\ UNCHANGED <<globals, borrows>>

Write ==
  \E n \in Held, new \in SUBSET Nodes :
    /\ new \subseteq edges[n] \cup Held
    /\ edges' = [edges EXCEPT ![n] = new]
    /\ UNCHANGED <<content, globals, locals, borrows>>

\* The program moves handles about: it can only take hold of what it reaches.
Move ==
  /\ locals' \in SUBSET Reach(Held, edges)
  /\ globals' \in SUBSET Held
  /\ borrows' \in SUBSET (borrows \cup Held)
  /\ UNCHANGED <<content, edges>>

\* The thread ends; no handle survives it.
End ==
  /\ globals' = {} /\ locals' = {} /\ borrows' = {}
  /\ \E D \in SUBSET Nodes : content' = Without(D) /\ edges' = EdgesWithout(D)

Next == Reclaim \/ New \/ Write \/ Move \/ End

Spec == Init /\ [][Next]_vars
=============================================================================
