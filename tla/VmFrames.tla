------------------------------ MODULE VmFrames ------------------------------
(***************************************************************************)
(* One activation of exec (vm/exec.rs) in any interpreter that keeps its   *)
(* side of the contract: the code exec is given to run is well formed, and *)
(* a callee run elsewhere answers without having met an internal error.    *)
(* What the callees compute, and what is in the function table, is open.   *)
(*                                                                         *)
(* exec checks little of its code, as the compiler is trusted.  WellFormed *)
(* says what it relies on; the compiler is held to it in VmExec.           *)
(***************************************************************************)
EXTENDS VmMachine

VARIABLE machine       \* the registers, stack and frames of exec

(* ---- code ------------------------------------------------------------------------ *)

\* Where control goes from an op within its frame.
Flows(code, from, to) ==
  LET i == code[from + 1] IN
  \/ to = from + 1 /\ i.op \notin {"Jump", "Return", "TailCall", "SelfTailCall"}
  \/ i.op \in {"Jump", "JumpFalse"} /\ to = from + 1 + i.n

\* What an op leaves on the stack, less what it takes.
Effect(i) ==
  CASE i.op \in {"LoadConst", "LoadLocal", "LoadUpval", "LoadGlobal"} -> 1
    [] i.op \in {"StoreLocal", "Pop", "JumpFalse"} -> -1
    [] i.op = "Call" -> -i.n
    [] i.op = "MakeClosure" -> 1 - i.n
    [] i.op = "Prim" -> 1 - i.arity
    [] OTHER -> 0

\* Operands above the locals before each op, from the code alone; an op that
\* control never reaches is dead, like the jump behind a tail call.
Dead == -1
Heights(code) ==
  LET upTo[k \in 0 .. Len(code)] ==
        LET h == upTo[k - 1]
            before == {from \in 0 .. k - 1 : h[from + 1] # Dead /\ Flows(code, from, k)}
            from == CHOOSE q \in before : TRUE
        IN IF k = 0 THEN <<0>>
           ELSE Append(h, IF before = {} THEN Dead ELSE h[from + 1] + Effect(code[from + 1]))
      heights == upTo[Len(code)]
  IN [pc \in 0 .. Len(code) |-> heights[pc + 1]]

\* The operands of an op are of the kind exec takes, and name what is there.
OperandsFit(i, bf, upvals) ==
  CASE i.op \in {"LoadConst", "LoadGlobal", "Pop", "Return"} -> TRUE
    [] i.op \in {"LoadLocal", "StoreLocal"} -> i.n \in 0 .. bf.n - 1
    [] i.op = "LoadUpval" -> i.n \in 0 .. Len(upvals) - 1
    [] i.op \in {"Jump", "JumpFalse", "MakeClosure", "Call", "TailCall"} -> i.n \in Nat
    [] i.op = "SelfTailCall" -> i.n \in 0 .. bf.n
    [] i.op = "Prim" -> <<i.name, i.arity>> \in {<<"+", 2>>, <<"=", 2>>, <<"vector?", 1>>}
    [] OTHER -> FALSE

\* An op takes its operands from its own frame, a call its callee too.
Takes(i) == IF i.op \in {"Call", "TailCall"} THEN i.n + 1 ELSE NeedsOperands(i)

\* One height for each op, whichever way control gets there.
OpFits(pc, h, bf, upvals) ==
  LET i == bf.code[pc + 1] IN
  /\ OperandsFit(i, bf, upvals)
  /\ Takes(i) <= h[pc]
  /\ i.op \in {"Jump", "JumpFalse"} => pc + 1 + i.n < Len(bf.code)
  /\ \A to \in 0 .. Len(bf.code) :
       Flows(bf.code, pc, to) => to < Len(bf.code) /\ h[to] = h[pc] + Effect(i)

IsSeq(s) == s \in Seq({s[k] : k \in DOMAIN s})

WellFormed(bf, upvals) ==
  LET h == Heights(bf.code) IN
  /\ bf.arity \in Nat /\ bf.n \in Nat /\ bf.arity <= bf.n
  /\ IsSeq(bf.code) /\ IsSeq(upvals)
  /\ h \in [0 .. Len(bf.code) -> Int]
  /\ Len(bf.code) > 0 /\ h[0] = 0
  /\ \A pc \in 0 .. Len(bf.code) - 1 : h[pc] >= 0 => OpFits(pc, h, bf, upvals)

(* ---- the activation ----------------------------------------------------------------- *)

NextOp(m) == m.bf.code[m.pc + 1]
AtCall(m) ==
  /\ ~m.halted /\ m.pc < Len(m.bf.code)
  /\ NextOp(m).op \in {"Call", "TailCall"} /\ Depth(m) >= NextOp(m).n + 1

\* The contract: what exec does not check itself.
Contract(m, answer) ==
  LET n == NextOp(m).n
      callee == Peek(m, Depth(m) - n - 1)
  IN AtCall(m) =>
       IF Exact(callee, n) /\ callee.code.kind = "bytecode"
       THEN WellFormed(callee.code.bf, callee.code.upvals) /\ callee.code.bf.arity = n
       ELSE ~answer.w.broken

\* exec on well-formed code and as many arguments as it has parameters, or a call
\* that was answered without it.
Begins ==
  /\ ~machine.w.broken
  /\ \/ machine.halted
     \/ /\ WellFormed(machine.bf, machine.upvals) /\ IsSeq(machine.stack)
        /\ Depth(machine) >= machine.bf.arity
        /\ machine = Machine(machine.bf, machine.upvals,
                             SubSeq(machine.stack, 1, machine.bf.arity), machine.w)

\* One turn of the dispatch loop.
Turn(answer) == ~machine.halted /\ machine' = Step(machine, answer)

Turns == \E answer : Contract(machine, answer) /\ Turn(answer)

Exec == Begins /\ [][Turns]_machine

(* ---- properties ----------------------------------------------------------------------- *)

\* Code that is well formed never runs into an internal error of the machine:
\* operands missing, a slot or upvalue that does not exist, a jump out of the code.
NeverBroken == ~machine.w.broken

\* Where frame k, counted from the outermost, puts its result and has its locals;
\* the running frame is the last.
RetOf(m, k) == IF k = Len(m.frames) THEN m.ret ELSE m.frames[k + 1].ret
BaseOf(m, k) == IF k = Len(m.frames) THEN m.base ELSE m.frames[k + 1].base

\* A suspended frame has exactly the operands its code put there, the callee's
\* result goes to the callee's slot, and the callee's locals start right above.
Suspended(m, k) ==
  LET f == m.frames[k] IN
  /\ RetOf(m, k) = f.base + f.bf.n + Heights(f.bf.code)[f.pc] - 1
  /\ BaseOf(m, k) = RetOf(m, k) + 1

\* The shared stack is laid out frame after frame.
LaidOut(m) ==
  /\ Depth(m) = Floor(m) + Heights(m.bf.code)[m.pc]
  /\ RetOf(m, 0) = Outermost /\ BaseOf(m, 0) = 0
  /\ \A k \in 1 .. Len(m.frames) : Suspended(m, k)

StackLaidOut == ~machine.halted => LaidOut(machine)

\* What a running frame does leaves the slots of its callers alone.
CallersUntouched ==
  [][~machine'.halted /\ machine.ret # Outermost
       => Truncated(machine', machine.ret) = Truncated(machine, machine.ret)]_machine

(* ---- the inductive invariant ------------------------------------------------------------ *)

\* Code that is running or will go on at pc, on h operands or more.
Resumable(bf, upvals, pc, h) ==
  /\ WellFormed(bf, upvals)
  /\ pc \in 0 .. Len(bf.code) - 1 /\ Heights(bf.code)[pc] >= h

\* A suspended frame gets one more operand, the result it waits for.
FrameOK(f) == f.base \in Nat /\ f.ret \in Int /\ Resumable(f.bf, f.upvals, f.pc, 1)

IsMachine(m) ==
  m = [bf |-> m.bf, upvals |-> m.upvals, base |-> m.base, pc |-> m.pc, ret |-> m.ret,
       stack |-> m.stack, frames |-> m.frames, w |-> m.w, halted |-> m.halted,
       result |-> m.result]

Sound(m) ==
  /\ m.base \in Nat /\ m.ret \in Int /\ Resumable(m.bf, m.upvals, m.pc, 0)
  /\ IsSeq(m.stack) /\ IsSeq(m.frames)
  /\ \A k \in 1 .. Len(m.frames) : FrameOK(m.frames[k])
  /\ LaidOut(m)

Inv == NeverBroken /\ (~machine.halted => IsMachine(machine) /\ Sound(machine))
=============================================================================
