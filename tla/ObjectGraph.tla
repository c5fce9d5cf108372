---------------------------- MODULE ObjectGraph ----------------------------
(***************************************************************************)
(* Reachability in the graph of heap objects.  An edge function maps each  *)
(* slot to the set of slots its payload words point at.  Reachability is   *)
(* stated as a least fixed point (the intersection of all closed sets), so *)
(* that proofs need no induction: to bound it, exhibit one closed set.     *)
(***************************************************************************)
CONSTANT Nodes      \* the slots a heap may ever have, in `all` order

Closed(S, e) == \A n \in S : e[n] \subseteq S

Reach(R, e) ==
  {n \in Nodes : \A S \in SUBSET Nodes :
                    R \subseteq S /\ Closed(S, e) => n \in S}
=============================================================================
