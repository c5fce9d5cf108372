--------------------------------- MODULE Kl ---------------------------------
(***************************************************************************)
(* KL as the engines of shen-rust see it (kl/ast.rs, env.rs): parsed       *)
(* expressions, locals, and the world a program acts on.                   *)
(*                                                                         *)
(* An expression is a record whose "form" is its special form, "call" for  *)
(* a plain application, "lit" or "sym".  A lambda or freeze also carries   *)
(* the address ("at") of its body node, which the closure cache keys on.   *)
(***************************************************************************)
EXTENDS Values

(* ---- expressions ----------------------------------------------------------- *)

Lit(v) == [form |-> "lit", v |-> v]
Var(s) == [form |-> "sym", s |-> s]
Let(x, e, body) == [form |-> "let", x |-> x, args |-> <<e, body>>]
Form(f, args) == [form |-> f, args |-> args]       \* cond: test, body, test, body, ...
Call(head, args) == [form |-> "call", head |-> head, args |-> args]
Lambda(x, body) == [form |-> "lambda", params |-> <<x>>, args |-> <<body>>, at |-> <<>>]
Freeze(body) == [form |-> "freeze", params |-> <<>>, args |-> <<body>>, at |-> <<>>]

\* Parsing gives every body node an address of its own.
RECURSIVE Placed(_, _)
Placed(e, path) ==
  CASE e.form \in {"lit", "sym"} -> e
    [] e.form \in {"lambda", "freeze"} ->
         [e EXCEPT !.at = path, !.args = <<Placed(e.args[1], Append(path, 1))>>]
    [] e.form = "call" ->
         [e EXCEPT !.head = Placed(e.head, Append(path, 0)),
                   !.args = [k \in DOMAIN e.args |-> Placed(e.args[k], Append(path, k))]]
    [] OTHER ->
         [e EXCEPT !.args = [k \in DOMAIN e.args |-> Placed(e.args[k], Append(path, k))]]

\* collect_used_syms: every symbol a body mentions, in order of first mention.
RECURSIVE UsedSyms(_, _), UsedInAll(_, _)
UsedSyms(e, seen) ==
  CASE e.form = "lit" -> seen
    [] e.form = "sym" -> IF \E k \in DOMAIN seen : seen[k] = e.s THEN seen
                         ELSE Append(seen, e.s)
    [] e.form = "call" -> UsedInAll(e.args, UsedSyms(e.head, seen))
    [] e.form = "let" -> UsedInAll(e.args, UsedSyms(Var(e.x), seen))
    [] e.form = "lambda" -> UsedInAll(e.args, UsedSyms(Var(e.params[1]), seen))
    [] OTHER -> UsedInAll(e.args, seen)
UsedInAll(es, seen) ==
  IF es = <<>> THEN seen ELSE UsedInAll(Tail(es), UsedSyms(Head(es), seen))

(* ---- locals and the world --------------------------------------------------- *)

\* Locals are pairs, innermost last; the innermost binding wins.
Bound(s, locals) == \E k \in DOMAIN locals : locals[k][1] = s
LookupLocal(s, locals) ==
  locals[CHOOSE k \in DOMAIN locals :
           /\ locals[k][1] = s
           /\ \A j \in DOMAIN locals : locals[j][1] = s => j <= k][2]

\* What a program can act on: the function table, what it printed, whether the
\* VM compiles its closures, and the VM's cache of compiled closure bodies.
\* "broken" records that the VM met a state its compiler must never produce.
World(fns, vm) ==
  [fns |-> fns, out |-> <<>>, vm |-> vm, cache |-> <<>>, broken |-> FALSE]

\* numeric_op: two integers make an integer if that fits, else a float.
NumericOp(a, b) ==
  IF a.t = "int" /\ b.t = "int" THEN Num(a.n + b.n) ELSE Float(a.n + b.n)

\* Natives: a fallible and an infallible arithmetic primitive, a printing one
\* and the kernel's vector? predicate.
CallNative(op, args, w) ==
  CASE op = "+" ->
         IF IsNumber(args[1]) /\ IsNumber(args[2])
         THEN Ok(NumericOp(args[1], args[2]), w) ELSE Error(w)
    [] op = "=" -> Ok(Bool(ShenEq(args[1], args[2])), w)
    [] op = "vector?" ->
         Ok(Bool(args[1].t = "vec" /\ args[1].slot0.t = "int"
                 /\ args[1].slot0.n >= 0), w)
    [] op = "note" -> Ok(args[1], [w EXCEPT !.out = Append(@, args[1])])
=============================================================================
