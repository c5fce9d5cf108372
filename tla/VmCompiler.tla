----------------------------- MODULE VmCompiler -----------------------------
(***************************************************************************)
(* The bytecode compiler of shen-rust (vm/compiler.rs).  Each operator     *)
(* returns the code of an expression and the compiler's frames after it;   *)
(* jumps are computed from the lengths of the parts they skip, which is    *)
(* what emitting a placeholder and patching it comes to.  Constants sit in *)
(* their instruction instead of a pool.                                    *)
(***************************************************************************)
EXTENDS Kl

CONSTANTS
  MaxOperand,   \* u8::MAX: arguments of a call, upvalues of a closure
  MaxJump       \* i16::MAX: the longest forward jump

ASSUME OperandBounds == MaxOperand \in Nat /\ MaxJump \in Nat

(* ---- instructions ------------------------------------------------------------ *)

LoadConst(v) == [op |-> "LoadConst", v |-> v]
LoadGlobal(s) == [op |-> "LoadGlobal", s |-> s]
Pop == [op |-> "Pop"]
Op(name, n) == [op |-> name, n |-> n]
MakeClosure(bf, n) == [op |-> "MakeClosure", bf |-> bf, n |-> n]
Prim(name, arity) == [op |-> "Prim", name |-> name, arity |-> arity]
Load(place) == Op(IF place.at = "local" THEN "LoadLocal" ELSE "LoadUpval", place.i)

(* ---- frames: one per function being compiled, innermost last ----------------- *)

\* The last of two parameters of one name takes the name.
SlotsOf(params) ==
  [s \in {params[k] : k \in DOMAIN params} |->
     CHOOSE i \in 0 .. Len(params) - 1 :
       params[i + 1] = s /\ \A j \in DOMAIN params : params[j] = s => j <= i + 1]

CompilerFrame(fn, params, upvals) ==
  [fn |-> fn, arity |-> Len(params), locals |-> SlotsOf(params),
   n |-> Len(params), upvals |-> upvals]
Upval(name, place) == [name |-> name, at |-> place.at, i |-> place.i]

Shadowed(s, fs) ==
  \E k \in DOMAIN fs : \/ s \in DOMAIN fs[k].locals
                       \/ \E u \in DOMAIN fs[k].upvals : fs[k].upvals[u].name = s

\* resolve_var: where frame k finds s; frames on the way forward it as an upval.
RECURSIVE Resolve(_, _, _)
Resolve(fs, k, s) ==
  LET known == {u \in DOMAIN fs[k].upvals : fs[k].upvals[u].name = s} IN
  IF s \in DOMAIN fs[k].locals
  THEN [at |-> "local", i |-> fs[k].locals[s], fs |-> fs]
  ELSE IF known # {}
  THEN [at |-> "upval", i |-> (CHOOSE u \in known : \A x \in known : u <= x) - 1, fs |-> fs]
  ELSE IF k = 1 THEN [at |-> "nowhere", i |-> 0, fs |-> fs]
  ELSE LET outer == Resolve(fs, k - 1, s) IN
       IF outer.at = "nowhere" THEN outer
       ELSE [at |-> "upval", i |-> Len(fs[k].upvals),
             fs |-> [outer.fs EXCEPT ![k].upvals = Append(@, Upval(s, outer))]]

(* ---- code ---------------------------------------------------------------------- *)

Code(code, fs) == [ok |-> TRUE, code |-> code, fs |-> fs]
Unsupported == [ok |-> FALSE, code |-> <<>>, fs |-> <<>>]

\* if, and, or and each clause of cond: a test and two ways to go on.
Branch(test, then, else, fs) ==
  IF Len(then) + 1 > MaxJump \/ Len(else) > MaxJump THEN Unsupported
  ELSE Code(test \o <<Op("JumpFalse", Len(then) + 1)>> \o then
                 \o <<Op("Jump", Len(else))>> \o else, fs)

\* let gives its variable a fresh slot for the body and its old slot back after.
BoundInNoSlot(x, fs) ==                                          \* mutant
  [fs EXCEPT ![Len(fs)].locals =
               [s \in DOMAIN @ \cup {x} |-> IF s = x THEN fs[Len(fs)].n ELSE @[s]]]
BoundIn(x, fs) ==
  [fs EXCEPT ![Len(fs)].locals =
               [s \in DOMAIN @ \cup {x} |-> IF s = x THEN fs[Len(fs)].n ELSE @[s]],
             ![Len(fs)].n = @ + 1]
RestoredWithSlots(before, after) ==                               \* mutant
  [after EXCEPT ![Len(after)].locals = before[Len(before)].locals,
                ![Len(after)].n = before[Len(before)].n]
Restored(before, after) ==
  [after EXCEPT ![Len(after)].locals = before[Len(before)].locals]

\* klcompile's table of inlined primitives, as the VM has it.
Inlinable(head, n, fs) ==
  /\ head.form = "sym"
  /\ <<head.s, n>> \in {<<"+", 2>>, <<"=", 2>>, <<"vector?", 1>>}
  /\ ~Shadowed(head.s, fs)

\* A call of the named function itself, in its own tail position.
SelfCallUnlessArity(head, n, tail, fs) ==                        \* mutant
  tail /\ Len(fs) = 1 /\ head.form = "sym" /\ head.s = fs[1].fn
SelfCall(head, n, tail, fs) ==
  /\ tail /\ Len(fs) = 1
  /\ head.form = "sym" /\ head.s = fs[1].fn
  /\ n = fs[1].arity /\ head.s \notin DOMAIN fs[1].locals

RECURSIVE Compile(_, _, _), CompileAll(_, _, _), Clauses(_, _, _)

\* The parts of an expression, left to right, each with its own tail-ness.
CompileAll(es, tails, fs) ==
  IF es = <<>> THEN [ok |-> TRUE, codes |-> <<>>, fs |-> fs]
  ELSE LET first == Compile(es[1], tails[1], fs)
           rest == CompileAll(Tail(es), Tail(tails), first.fs)
       IN IF ~first.ok THEN [ok |-> FALSE, codes |-> <<>>, fs |-> fs]
          ELSE [rest EXCEPT !.codes = <<first.code>> \o @]

\* cond: the last clause falls through to the empty list.
Clauses(es, tail, fs) ==
  IF es = <<>> THEN Code(<<LoadConst(Nil)>>, fs)
  ELSE LET clause == CompileAll(<<es[1], es[2]>>, <<FALSE, tail>>, fs)
           rest == Clauses(SubSeq(es, 3, Len(es)), tail, clause.fs)
       IN IF ~clause.ok \/ ~rest.ok THEN Unsupported
          ELSE Branch(clause.codes[1], clause.codes[2], rest.code, rest.fs)

RECURSIVE Concatenated(_)
Concatenated(codes) ==
  IF codes = <<>> THEN <<>> ELSE Head(codes) \o Concatenated(Tail(codes))

None(es) == [k \in DOMAIN es |-> FALSE]
LastNever(es, tail) == None(es)                                  \* mutant
LastOnly(es, tail) == [k \in DOMAIN es |-> k = Len(es) /\ tail]

\* compile_nested: the body in a frame of its own, its upvalues loaded here.
NestedClosure(e, fs) ==
  LET inner == Compile(e.args[1], TRUE,
                       Append(fs, CompilerFrame("anonymous", e.params, <<>>)))
      frame == inner.fs[Len(inner.fs)]
      outer == SubSeq(inner.fs, 1, Len(inner.fs) - 1)
      n == Len(frame.upvals)
  IN IF ~inner.ok \/ n > MaxOperand THEN Unsupported
     ELSE Code([u \in 1 .. n |-> Load(frame.upvals[u])]
               \o <<MakeClosure([arity |-> Len(e.params), n |-> frame.n,
                                 code |-> Append(inner.code, Op("Return", 0))], n)>>,
               outer)

\* compile_head: a symbol no scope binds names a function cell.
HeadCode(head, fs) ==
  LET place == Resolve(fs, Len(fs), head.s) IN
  IF head.form # "sym" THEN Compile(head, FALSE, fs)
  ELSE Code(<<IF place.at = "nowhere" THEN LoadGlobal(head.s) ELSE Load(place)>>, place.fs)

CallCode(e, tail, fs) ==
  LET n == Len(e.args)
      inline == Inlinable(e.head, n, fs)
      self == SelfCall(e.head, n, tail, fs)
      head == IF inline \/ self THEN Code(<<>>, fs) ELSE HeadCode(e.head, fs)
      args == CompileAll(e.args, None(e.args), head.fs)
      last == CASE inline -> Prim(e.head.s, n)
                [] ~inline /\ self -> Op("SelfTailCall", n)
                [] OTHER -> Op(IF tail THEN "TailCall" ELSE "Call", n)
  IN IF n > MaxOperand \/ ~head.ok \/ ~args.ok THEN Unsupported
     ELSE Code(head.code \o Concatenated(args.codes) \o <<last>>, args.fs)

Compile(e, tail, fs) ==
  LET place == Resolve(fs, Len(fs), e.s)
      parts(tails) == CompileAll(e.args, tails, fs)
      value == Compile(e.args[1], FALSE, fs)
      body == Compile(e.args[2], tail, BoundIn(e.x, value.fs))
  IN
  CASE e.form = "lit" -> Code(<<LoadConst(e.v)>>, fs)
    [] e.form = "sym" ->
         Code(<<IF place.at = "nowhere" THEN LoadConst(Sym(e.s)) ELSE Load(place)>>, place.fs)
    [] e.form = "if" ->
         LET r == parts(<<FALSE, tail, tail>>) IN
         IF r.ok THEN Branch(r.codes[1], r.codes[2], r.codes[3], r.fs) ELSE Unsupported
    [] e.form = "and" ->
         LET r == parts(<<FALSE, tail>>) IN
         IF r.ok THEN Branch(r.codes[1], r.codes[2], <<LoadConst(Bool(FALSE))>>, r.fs)
         ELSE Unsupported
    [] e.form = "or" ->
         LET r == parts(<<FALSE, tail>>) IN
         IF r.ok THEN Branch(r.codes[1], <<LoadConst(Bool(TRUE))>>, r.codes[2], r.fs)
         ELSE Unsupported
    [] e.form = "do" ->
         LET r == parts(LastOnly(e.args, tail))
             kept == [k \in DOMAIN r.codes |->
                        IF k = Len(e.args) THEN r.codes[k] ELSE Append(r.codes[k], Pop)]
         IN IF e.args = <<>> THEN Code(<<LoadConst(Nil)>>, fs)
            ELSE IF r.ok THEN Code(Concatenated(kept), r.fs) ELSE Unsupported
    [] e.form = "cond" -> Clauses(e.args, tail, fs)
    [] e.form = "let" ->
         IF ~value.ok \/ ~body.ok THEN Unsupported
         ELSE Code(value.code \o <<Op("StoreLocal", value.fs[Len(fs)].n)>> \o body.code,
                   Restored(value.fs, body.fs))
    [] e.form = "type" -> Compile(e.args[1], tail, fs)
    [] e.form \in {"lambda", "freeze"} -> NestedClosure(e, fs)
    [] e.form = "call" -> CallCode(e, tail, fs)
    [] OTHER -> Unsupported                    \* trap-error, thaw

(* ---- entry points --------------------------------------------------------------- *)

Bytecode(r, arity) ==
  [ok |-> r.ok,
   bf |-> [arity |-> arity, n |-> IF r.ok THEN r.fs[1].n ELSE 0,
           code |-> Append(r.code, Op("Return", 0))]]
Whole(body, frame) == Bytecode(Compile(body, TRUE, <<frame>>), frame.arity)

CompileFn(name, params, body) == Whole(body, CompilerFrame(name, params, <<>>))

\* A runtime closure's free variables arrive as upvalues, in the given order.
CompileClosure(params, names, body) ==
  Whole(body, CompilerFrame("anonymous", params,
    [u \in DOMAIN names |-> Upval(names[u], [at |-> "local", i |-> 0])]))
=============================================================================
