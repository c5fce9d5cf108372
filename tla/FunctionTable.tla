---------------------------- MODULE FunctionTable ----------------------------
(***************************************************************************)
(* What a KL program may assume of functions called by name: there is one  *)
(* table, and a call does what the entry bound at that moment does with    *)
(* the arguments it gets, whoever calls and however fast the path.         *)
(***************************************************************************)
EXTENDS Naturals

CONSTANTS
  Names, Meanings, Undefined,
  MaxArgs    \* bound: arguments of a call

VARIABLES
  table,     \* Names -> [of : Meanings, arity : Nat], or Undefined
  outcome    \* what the last call did

vars == <<table, outcome>>

\* A call with too few arguments makes a partial application, one with too
\* many applies the result to the rest.
Applied(f, k) ==
  CASE f = Undefined -> [does |-> "undefined"]
    [] f # Undefined /\ k < f.arity -> [does |-> "partial", of |-> f.of, args |-> k]
    [] OTHER -> [does |-> "runs", of |-> f.of, args |-> k]

Init ==
  /\ table \in [Names -> [of : Meanings, arity : Nat] \cup {Undefined}]
  /\ outcome = [does |-> "nothing"]

\* Any names may be bound anew, by a defun, an installer or the host.
Bind ==
  /\ table' \in [Names -> [of : Meanings, arity : Nat] \cup {Undefined}]
  /\ UNCHANGED outcome

CallByName ==
  /\ \E n \in Names, k \in 0 .. MaxArgs : outcome' = Applied(table[n], k)
  /\ UNCHANGED table

Next == Bind \/ CallByName

Spec == Init /\ [][Next]_vars
=============================================================================
