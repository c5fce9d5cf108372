-------------------------------- MODULE VmExec --------------------------------
(***************************************************************************)
(* One activation of exec (vm/exec.rs) on compiled code, op by op, and     *)
(* what must be true of it: it answers what the tree-walker answers, it is *)
(* an activation of VmFrames, with what that promises, and it comes to an  *)
(* end.                                                                    *)
(*                                                                         *)
(* A program defines functions; the activation runs "f" on its arguments.  *)
(***************************************************************************)
EXTENDS Engines, VmFrames, FiniteSets

CONSTANTS
  Programs,          \* [defs : name -> [params, body], args, flat : BOOLEAN]
  MaxOps             \* more ops than any of the programs needs

VARIABLES
  program,           \* the program that runs
  ops                \* history: ops run so far

vars == <<program, machine, ops>>

Natives ==
  [op \in {"+", "=", "vector?", "note"} |-> Native(op, IF op \in {"+", "="} THEN 2 ELSE 1)]

Functions(p, vm) ==
  [name \in DOMAIN Natives \cup DOMAIN p.defs |->
     IF name \in DOMAIN p.defs
     THEN Defun(name, p.defs[name].params, p.defs[name].body, World(Natives, vm))
     ELSE Natives[name]]

\* The answer of the tree-walker, with no VM anywhere.
Reference(p) ==
  LET w == World(Functions(p, FALSE), FALSE) IN Apply(w.fns["f"], p.args, w)

\* A body the compiler turns down is tree-walked, with the VM for its closures.
Entered(p) ==
  LET w == World(Functions(p, TRUE), TRUE)
      f == w.fns["f"]
      idle == Machine([arity |-> 0, n |-> 0, code |-> <<>>], <<>>, <<>>, w)
  IN IF f.code.kind = "bytecode" THEN Machine(f.code.bf, <<>>, p.args, w)
     ELSE Halted(idle, Apply(f, p.args, w))

Init == \E p \in Programs : program = p /\ machine = Entered(p) /\ ops = 0

At(names) ==
  /\ ~machine.halted /\ ops <= MaxOps
  /\ machine.pc < Len(machine.bf.code) => machine.bf.code[machine.pc + 1].op \in names
Steps == Turn(Elsewhere(machine)) /\ ops' = ops + 1 /\ UNCHANGED program

LoadOp == At({"LoadConst", "LoadLocal", "LoadUpval", "LoadGlobal"}) /\ Steps
StoreOp == At({"StoreLocal", "Pop"}) /\ Steps
JumpOp == At({"Jump", "JumpFalse"}) /\ Steps
ClosureOp == At({"MakeClosure"}) /\ Steps
PrimOp == At({"Prim"}) /\ Steps
CallOp == At({"Call"}) /\ Steps
TailCallOp == At({"TailCall"}) /\ Steps
SelfTailCallOp == At({"SelfTailCall"}) /\ Steps
ReturnOp == At({"Return"}) /\ Steps

Next ==
  \/ LoadOp \/ StoreOp \/ JumpOp \/ ClosureOp \/ PrimOp
  \/ CallOp \/ TailCallOp \/ SelfTailCallOp \/ ReturnOp

Spec == Init /\ [][Next]_vars

(* ---- properties ------------------------------------------------------------------ *)

\* Closures are compared by what they still expect; the programs apply the
\* closures that matter.
Shape(v) == IF v.t = "fn" THEN [t |-> "fn", wants |-> v.arity - Len(v.partial)] ELSE v
Shapes(vs) == [k \in DOMAIN vs |-> Shape(vs[k])]

Agree(a, b) ==
  /\ a.ok = b.ok
  /\ a.ok => Shape(a.v) = Shape(b.v)
  /\ Shapes(a.w.out) = Shapes(b.w.out)

\* The VM is observationally equivalent to the tree-walker: same status, same
\* value, same output in the same order (tests/vm_differential.rs).
Equivalent == machine.halted => Agree(machine.result, Reference(program))

\* The activation is one VmFrames admits: the compiler's code is well formed when
\* it is entered, at first and by every call, whatever captures and arguments it
\* meets, and callees run elsewhere answer without an internal error.
KeepsContract ==
  Begins /\ [][/\ Contract(machine, Elsewhere(machine))
              /\ Turn(Elsewhere(machine))]_machine

\* A loop written with tail calls, its own or another function's, through any
\* special form, suspends no frame however long it runs.
TailCallsStayFlat == program.flat => machine.frames = <<>>

\* A program the tree-walker finishes is finished by the VM, within a number of
\* ops that a loop which never ends, or goes round once too often, runs past.
Finishes == ops <= MaxOps
=============================================================================
