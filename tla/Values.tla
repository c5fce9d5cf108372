------------------------------- MODULE Values -------------------------------
(***************************************************************************)
(* The tagged values of shen-rust (value.rs), as far as the engines tell   *)
(* them apart, and the two ways an evaluation answers.                     *)
(***************************************************************************)
EXTENDS Integers, Sequences

CONSTANT FixnumMax    \* FIXNUM_MAX, of 61 bits in the code

ASSUME FixnumAssumption == FixnumMax \in Nat \ {0}

(* ---- values -------------------------------------------------------------- *)

\* An integer is inline while it fits a fixnum, else a boxed float; a float stays
\* one.  Floats of the model are whole and exact.
Float(n) == [t |-> "float", n |-> n]
Num(n) == IF n \in -FixnumMax - 1 .. FixnumMax THEN [t |-> "int", n |-> n] ELSE Float(n)
IsNumber(v) == v.t \in {"int", "float"}
Bool(b) == [t |-> "bool", b |-> b]
Sym(s) == [t |-> "sym", s |-> s]
Nil == [t |-> "nil"]
ErrorValue == [t |-> "error"]
Vector(slot0) == [t |-> "vec", slot0 |-> slot0]    \* an absvector, by slot 0
Closure(arity, partial, code) ==
  [t |-> "fn", arity |-> arity, partial |-> partial, code |-> code]
Native(op, arity) == Closure(arity, <<>>, [kind |-> "native", op |-> op])

\* The reader interns true and false as symbols, the KL parser makes booleans:
\* every engine takes both.
Truth(v) ==
  CASE v.t = "bool" -> IF v.b THEN "true" ELSE "false"
    [] v.t = "sym" /\ v.s \in {"true", "false"} -> v.s
    [] OTHER -> "neither"

\* shen_eq, with its cross-equation of integers with floats and of booleans with
\* their symbols.
ShenEq(a, b) ==
  \/ a = b
  \/ IsNumber(a) /\ IsNumber(b) /\ a.n = b.n
  \/ Truth(a) # "neither" /\ Truth(a) = Truth(b)

\* An answer carries the world it leaves behind.
Ok(v, w) == [ok |-> TRUE, v |-> v, w |-> w]
Error(w) == [ok |-> FALSE, v |-> ErrorValue, w |-> w]
=============================================================================
