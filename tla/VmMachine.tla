----------------------------- MODULE VmMachine -----------------------------
(***************************************************************************)
(* The bytecode machine of shen-rust (vm/exec.rs): the registers, operand  *)
(* stack and suspended frames of one activation of exec, and what one op   *)
(* does to them.  A callee that is not compiled code answers from outside: *)
(* the evaluators say what (Engines), the proofs admit any answer          *)
(* (VmFrames).                                                             *)
(*                                                                         *)
(* Step budgets and collections are left to other modules.  Indices are    *)
(* 0-based as in the code.                                                 *)
(***************************************************************************)
EXTENDS Values

(* ---- the state of one exec -------------------------------------------------- *)

Outermost == -1                                  \* ret_dst = usize::MAX

Machine(bf, upvals, args, w) ==
  [bf |-> bf, upvals |-> upvals, base |-> 0, pc |-> 0, ret |-> Outermost,
   stack |-> args \o [k \in 1 .. bf.n - Len(args) |-> Nil], frames |-> <<>>,
   w |-> w, halted |-> FALSE, result |-> Ok(Nil, w)]

Floor(m) == m.base + m.bf.n
Depth(m) == Len(m.stack)
Peek(m, i) == m.stack[i + 1]
TopOf(m) == m.stack[Len(m.stack)]
Operands(m, n) == SubSeq(m.stack, Depth(m) - n + 1, Depth(m))
Truncated(m, n) == SubSeq(m.stack, 1, n)
Dropped(m, n) == Truncated(m, Depth(m) - n)
Resized(stack, n) == [k \in 1 .. n |-> IF k <= Len(stack) THEN stack[k] ELSE Nil]

Pushing(m, v) == [m EXCEPT !.stack = Append(@, v)]
Halted(m, result) == [m EXCEPT !.halted = TRUE, !.result = result, !.w = result.w]
Fails(m, w) == Halted(m, Error(w))
\* "vm: ..." errors: compiled code must never meet one.
Broken(m) == Fails(m, [m.w EXCEPT !.broken = TRUE])

\* Return, and a tail call the machine handed out: the frame's slots go, the
\* value takes the place of the callee, the caller's registers come back.
Returning(m, v) ==
  LET caller == m.frames[Len(m.frames)] IN
  IF m.ret = Outermost THEN Halted(m, Ok(v, m.w))
  ELSE [m EXCEPT !.stack = Append(Truncated(m, m.ret), v),
                 !.frames = SubSeq(@, 1, Len(@) - 1),
                 !.bf = caller.bf, !.base = caller.base, !.pc = caller.pc,
                 !.upvals = caller.upvals, !.ret = caller.ret]

\* A call of a compiled function suspends the caller; its arguments are
\* already where the new frame's first locals belong.
Entering(m, n, code) ==
  [m EXCEPT !.frames = Append(@, [bf |-> m.bf, base |-> m.base, pc |-> m.pc,
                                  upvals |-> m.upvals, ret |-> m.ret]),
            !.stack = Resized(@, Depth(m) - n + code.bf.n),
            !.bf = code.bf, !.upvals = code.upvals, !.pc = 0,
            !.base = Depth(m) - n, !.ret = Depth(m) - n - 1]

\* A tail call replaces the frame: its arguments move down over the locals.
Replacing(m, n, code) ==
  [m EXCEPT !.stack = Resized(Truncated(m, m.base) \o Operands(m, n), m.base + code.bf.n),
            !.bf = code.bf, !.upvals = code.upvals, !.pc = 0]

\* A self tail call keeps the frame and rewrites its arguments.
LoopingFromZero(m, n) ==                                         \* mutant
  [m EXCEPT !.stack = Operands(m, n) \o SubSeq(m.stack, n + 1, Floor(m)), !.pc = 0]
LoopingKeeping(m, n) ==                                          \* mutant
  [m EXCEPT !.stack = Truncated(m, m.base) \o Operands(m, n)
                      \o SubSeq(m.stack, m.base + n + 1, Depth(m)),
            !.pc = 0]
Looping(m, n) ==
  [m EXCEPT !.stack = Truncated(m, m.base) \o Operands(m, n)
                      \o SubSeq(m.stack, m.base + n + 1, Floor(m)),
            !.pc = 0]

Exact(callee, n) == callee.t = "fn" /\ callee.partial = <<>> /\ callee.arity = n

(* ---- its ops --------------------------------------------------------------- *)

\* A callee run elsewhere has answered.
Answered(m, below, r, tail) ==
  LET after == [below EXCEPT !.w = r.w] IN
  IF ~r.ok THEN Fails(m, r.w)
  ELSE IF tail THEN Returning(after, r.v) ELSE Pushing(after, r.v)

\* Call and TailCall: the machine runs compiled closures itself; answer is what a
\* callee answers that it does not run.
Calling(m, n, tail, answer) ==
  LET callee == Peek(m, Depth(m) - n - 1)
      kind == IF Exact(callee, n) THEN callee.code.kind ELSE "general"
      below == [m EXCEPT !.stack = Dropped(m, n + 1)]
  IN CASE kind = "bytecode" /\ ~tail -> Entering(m, n, callee.code)
       [] kind = "bytecode" /\ tail -> Replacing(m, n, callee.code)
       [] kind # "bytecode" -> Answered(m, below, answer, tail)

\* aot::runtime::add, a function of its own beside the primitive: the integer
\* sum that no longer fits becomes a float here too.
Add(a, b) == IF {a.t, b.t} = {"int"} THEN Num(a.n + b.n) ELSE Float(a.n + b.n)

\* Inlined primitives; the VM's vector? is absvector?.
PrimResult(name, args, w) ==
  CASE name = "vector?" -> Ok(Bool(args[1].t = "vec"), w)
    [] name = "=" -> Ok(Bool(ShenEq(args[1], args[2])), w)
    [] name = "+" -> IF IsNumber(args[1]) /\ IsNumber(args[2])
                     THEN Ok(Add(args[1], args[2]), w) ELSE Error(w)

NeedsOperands(i) ==
  CASE i.op \in {"StoreLocal", "Pop", "JumpFalse"} -> 1
    [] i.op \in {"MakeClosure", "SelfTailCall"} -> i.n
    [] i.op = "Prim" -> i.arity
    [] OTHER -> 0

\* The internal errors of exec: operands, slots and indices out of range.  A
\* call only checks the whole stack, not the part above its frame's locals.
Malformed(m, i) ==
  \/ NeedsOperands(i) > 0 /\ Depth(m) < Floor(m) + NeedsOperands(i)
  \/ i.op \in {"Call", "TailCall"} /\ Depth(m) < i.n + 1
  \/ i.op \in {"LoadLocal", "StoreLocal"} /\ i.n >= m.bf.n
  \/ i.op = "LoadUpval" /\ i.n >= Len(m.upvals)
  \/ i.op = "SelfTailCall" /\ i.n > m.bf.n

Step(m0, answer) ==
  LET i == m0.bf.code[m0.pc + 1]
      m == [m0 EXCEPT !.pc = @ + 1]
      top == TopOf(m)
      popped == [m EXCEPT !.stack = Dropped(m, 1)]
  IN
  IF m0.pc >= Len(m0.bf.code) \/ Malformed(m, i) THEN Broken(m0)
  ELSE
  CASE i.op = "LoadConst" -> Pushing(m, i.v)
    [] i.op = "LoadLocal" -> Pushing(m, Peek(m, m.base + i.n))
    [] i.op = "StoreLocal" -> [popped EXCEPT !.stack[m.base + i.n + 1] = top]
    [] i.op = "LoadUpval" -> Pushing(m, m.upvals[i.n + 1])
    [] i.op = "LoadGlobal" ->
         IF i.s \in DOMAIN m.w.fns THEN Pushing(m, m.w.fns[i.s]) ELSE Fails(m, m.w)
    [] i.op = "Pop" -> popped
    [] i.op = "Jump" -> [m EXCEPT !.pc = @ + i.n]
    [] i.op = "JumpFalse" ->
         IF Truth(top) = "neither" THEN Fails(m, m.w)
         ELSE IF Truth(top) = "true" THEN popped ELSE [popped EXCEPT !.pc = @ + i.n]
    [] i.op = "MakeClosure" ->
         Pushing([m EXCEPT !.stack = Dropped(m, i.n)],
                 Closure(i.bf.arity, <<>>,
                         [kind |-> "bytecode", bf |-> i.bf, upvals |-> Operands(m, i.n)]))
    [] i.op = "Return" -> Returning(m, IF Depth(m) > Floor(m) THEN top ELSE Nil)
    [] i.op \in {"Call", "TailCall"} -> Calling(m, i.n, i.op = "TailCall", answer)
    [] i.op = "SelfTailCall" -> Looping(m, i.n)
    [] i.op = "Prim" ->
         LET r == PrimResult(i.name, Operands(m, i.arity), m.w) IN
         IF r.ok THEN Pushing([m EXCEPT !.stack = Dropped(m, i.arity)], r.v)
         ELSE Fails(m, r.w)
=============================================================================
