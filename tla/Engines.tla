------------------------------- MODULE Engines -------------------------------
(***************************************************************************)
(* The two evaluators of shen-rust over one world: the tree-walker         *)
(* (interp/eval.rs) and the bytecode machine (vm/exec.rs).  Each calls the *)
(* other: a call of a compiled closure enters the machine, a call the      *)
(* machine does not run itself goes back through Interp::apply.            *)
(*                                                                         *)
(* Step budgets and collections are left to other modules.  Indices are    *)
(* 0-based as in the code.                                                 *)
(***************************************************************************)
EXTENDS VmCompiler, VmMachine

(* ---- evaluating -------------------------------------------------------------- *)

RECURSIVE Eval(_, _, _), EvalAll(_, _, _, _), EvalCond(_, _, _), Apply(_, _, _)
RECURSIVE Run(_)

CallStrict(f, args, w) ==
  CASE f.code.kind = "native" -> CallNative(f.code.op, args, w)
    [] f.code.kind = "lambda" ->
         Eval(f.code.body,
              f.code.env \o [k \in DOMAIN args |-> <<f.code.params[k], args[k]>>], w)
    [] f.code.kind = "bytecode" -> Run(Machine(f.code.bf, f.code.upvals, args, w)).result

\* Too few arguments make a partial closure, too many are applied to the
\* result of the first ones.
Apply(f, args, w) ==
  LET total == f.partial \o args
      first == SubSeq(total, 1, f.arity)
      extra == SubSeq(total, f.arity + 1, Len(total))
  IN
  IF f.t # "fn" THEN Error(w)
  ELSE IF Len(total) < f.arity THEN Ok(Closure(f.arity, total, f.code), w)
  ELSE CHOOSE end \in {IF r.ok /\ extra # <<>> THEN Apply(r.v, extra, r.w) ELSE r :
                        r \in {CallStrict(f, first, w)}} : TRUE

(* ---- closures of the tree-walker ---------------------------------------------- *)

TreeWalked(e, locals) ==
  [kind |-> "lambda", params |-> e.params, body |-> e.args[1], env |-> locals]

\* The free variables of a body that the surrounding locals bind.
Captured(e, locals) ==
  SelectSeq(UsedSyms(e.args[1], <<>>),
            LAMBDA s : Bound(s, locals) /\ \A k \in DOMAIN e.params : e.params[k] # s)

\* gather_captures: the names the locals bind, in the cached order.
Gathered(names, locals) ==
  LET found == SelectSeq(names, LAMBDA s : Bound(s, locals)) IN
  [k \in DOMAIN found |-> LookupLocal(found[k], locals)]

\* The cache of compiled bodies is keyed by the address of the body.
CacheKeyByShape(e) == e.args[1]                                  \* mutant
CacheKey(e) == e.at

ClosureOver(e, code, w) == Ok(Closure(Len(e.params), <<>>, code), w)

\* A closure over a cached body captures by the names cached with it.
FromCache(e, entry, locals, w) ==
  ClosureOver(e, [kind |-> "bytecode", bf |-> entry.bf,
                  upvals |-> Gathered(entry.names, locals)], w)

\* A body met for the first time, as far as the compiler takes it.
NewlyCompiled(e, names, new, locals, w) ==
  LET entry == [key |-> CacheKey(e), bf |-> new.bf, names |-> names] IN
  IF new.ok THEN FromCache(e, entry, locals, [w EXCEPT !.cache = Append(@, entry)])
  ELSE ClosureOver(e, TreeWalked(e, locals), w)

\* build_closure: the VM if it is on and can compile the body, else a closure
\* over all the surrounding locals.
BuildClosure(e, locals, w) ==
  LET hits == {k \in DOMAIN w.cache : w.cache[k].key = CacheKey(e)}
      names == Captured(e, locals)
  IN
  IF ~w.vm THEN ClosureOver(e, TreeWalked(e, locals), w)
  ELSE IF hits # {} THEN FromCache(e, w.cache[CHOOSE k \in hits : TRUE], locals, w)
  ELSE NewlyCompiled(e, names, CompileClosure(e.params, names, e.args[1]), locals, w)

(* ---- the tree-walker -------------------------------------------------------------- *)

\* eval_args: the values so far, or the first failure.
EvalAll(es, locals, w, vs) ==
  LET r == Eval(es[Len(vs) + 1], locals, w) IN
  IF Len(vs) = Len(es) THEN [ok |-> TRUE, vs |-> vs, w |-> w]
  ELSE IF ~r.ok THEN [ok |-> FALSE, vs |-> vs, w |-> r.w]
  ELSE EvalAll(es, locals, r.w, Append(vs, r.v))

EvalCond(es, locals, w) ==
  LET test == Eval(es[1], locals, w) IN
  IF es = <<>> THEN Error(w)
  ELSE IF ~test.ok THEN test
  ELSE CASE Truth(test.v) = "true" -> Eval(es[2], locals, test.w)
         [] Truth(test.v) = "false" -> EvalCond(SubSeq(es, 3, Len(es)), locals, test.w)
         [] OTHER -> Error(test.w)

\* A symbol in head position: a local, else a function cell.
HeadValue(head, locals, w) ==
  IF head.form # "sym" THEN Eval(head, locals, w)
  ELSE IF Bound(head.s, locals) THEN Ok(LookupLocal(head.s, locals), w)
  ELSE IF head.s \in DOMAIN w.fns THEN Ok(w.fns[head.s], w)
  ELSE Error(w)

Eval(e, locals, w) ==
  LET first == Eval(e.args[1], locals, w)         \* the part evaluated first
      truth == Truth(first.v)
      boolean == first.ok /\ truth # "neither"
      failed == IF first.ok THEN Error(first.w) ELSE first
      go(k) == Eval(e.args[k], locals, first.w)
  IN
  CASE e.form = "lit" -> Ok(e.v, w)
    [] e.form = "sym" ->
         Ok(IF Bound(e.s, locals) THEN LookupLocal(e.s, locals) ELSE Sym(e.s), w)
    [] e.form = "if" ->
         IF boolean THEN go(IF truth = "true" THEN 2 ELSE 3) ELSE failed
    [] e.form = "and" ->
         IF ~boolean THEN failed
         ELSE IF truth = "true" THEN go(2) ELSE Ok(Bool(FALSE), first.w)
    [] e.form = "or" ->
         IF ~boolean THEN failed
         ELSE IF truth = "true" THEN Ok(Bool(TRUE), first.w) ELSE go(2)
    [] e.form = "let" ->
         IF first.ok THEN Eval(e.args[2], Append(locals, <<e.x, first.v>>), first.w)
         ELSE first
    [] e.form = "do" ->
         LET all == EvalAll(e.args, locals, w, <<>>) IN
         IF e.args = <<>> THEN Ok(Nil, w)
         ELSE IF all.ok THEN Ok(all.vs[Len(e.args)], all.w) ELSE Error(all.w)
    [] e.form = "cond" -> EvalCond(e.args, locals, w)
    [] e.form = "type" -> first
    [] e.form \in {"lambda", "freeze"} -> BuildClosure(e, locals, w)
    [] e.form = "thaw" -> IF first.ok THEN Apply(first.v, <<>>, first.w) ELSE first
    [] e.form = "trap-error" ->
         LET handler == Eval(e.args[2], locals, first.w) IN
         IF first.ok THEN first
         ELSE IF ~handler.ok THEN handler
         ELSE Apply(handler.v, <<ErrorValue>>, handler.w)
    [] e.form = "call" ->
         LET f == HeadValue(e.head, locals, w)
             args == EvalAll(e.args, locals, f.w, <<>>)
         IN IF ~f.ok THEN f
            ELSE IF ~args.ok THEN Error(args.w)
            ELSE Apply(f.v, args.vs, args.w)

(* ---- the bytecode machine among the evaluators ------------------------------------ *)

\* What the callee of the call at pc answers if the machine does not run it: Call
\* runs natives on the borrowed arguments, the rest is Interp::apply.
Elsewhere(m) ==
  LET n == m.bf.code[m.pc + 1].n
      callee == Peek(m, Depth(m) - n - 1)
      args == Operands(m, n)
  IN IF Exact(callee, n) /\ callee.code.kind = "native"
     THEN CallNative(callee.code.op, args, m.w) ELSE Apply(callee, args, m.w)

\* The set binds each machine once it is computed, which spares TLC computing
\* it anew wherever the next step looks at it.
Run(m) ==
  IF m.halted THEN m
  ELSE CHOOSE end \in {Run(next) : next \in {Step(m, Elsewhere(m))}} : TRUE

(* ---- defun ------------------------------------------------------------------------------ *)

\* do_defun: compiled when the VM is on and the body compiles, else tree-walked.
Defun(name, params, body, w) ==
  LET compiled == CompileFn(name, params, body) IN
  Closure(Len(params), <<>>,
    IF w.vm /\ compiled.ok THEN [kind |-> "bytecode", bf |-> compiled.bf, upvals |-> <<>>]
    ELSE [kind |-> "lambda", params |-> params, body |-> body, env |-> <<>>])
=============================================================================
