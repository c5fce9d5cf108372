------------------------------ MODULE VmExecMC ------------------------------
(* Programs for model checking VmExec: expressions built by nesting every   *)
(* special form around a few atoms, and loops written by hand.              *)
EXTENDS VmExec, TLC

one == Lit(Num(1))
x == Var("x")
y == Var("y")
note(e) == Call(Var("note"), <<e>>)

Atoms == {one, x, y}

\* Every form, with e in each of its places; x is a parameter, y is bound by
\* some of the forms only, g is a compiled function of two arguments.
Around(e) ==
  {Form("if", <<e, one, x>>), Form("if", <<x, e, note(one)>>),
   Form("cond", <<e, one, Lit(Bool(TRUE)), x>>), Form("cond", <<x, e, Lit(Sym("true")), y>>),
   Form("and", <<e, x>>), Form("and", <<x, e>>), Form("or", <<e, x>>), Form("or", <<x, e>>),
   Form("do", <<e, x>>), Form("do", <<note(one), e>>), Form("type", <<e>>),
   Let("y", e, y), Let("x", one, e), Let("y", note(x), e),
   Lambda("y", e), Call(Lambda("y", e), <<one>>), Call(Lambda("x", e), <<note(y)>>),
   Freeze(e), Form("thaw", <<e>>), Form("trap-error", <<e, Lambda("z", x)>>),
   note(e), Call(Var("+"), <<e, one>>), Call(Var("="), <<x, e>>), Call(Var("+"), <<e>>),
   Call(Var("g"), <<e>>), Call(Var("g"), <<e, one>>), Call(Var("g"), <<e, one, x>>),
   Call(e, <<one>>), Call(x, <<e>>), Call(Var("absent"), <<e>>), Call(Var("vector?"), <<e>>),
   \* beyond an operand and a jump
   Call(Var("g"), <<e, one, x, x>>),
   Form("if", <<x, Form("do", <<note(e), note(x), note(e), note(one)>>), y>>),
   \* names that hide a primitive, slots and captures
   Let("=", x, Call(Var("="), <<e, one>>)),
   Let("=", x, Call(Lambda("y", Call(Var("="), <<y, one>>)), <<e>>)),
   Let("y", e, Call(Lambda("z", Form("do", <<Var("z"), Call(Var("+"), <<y, x>>)>>)), <<y>>)),
   Call(Let("y", note(one), Lambda("x", Let("y", e, Call(Var("+"), <<x, y>>)))), <<x>>)}

Once(es) == UNION {Around(e) : e \in es}

Defs(params, body) ==
  [name \in {"f", "g"} |->
     IF name = "f" THEN [params |-> params, body |-> Placed(body, <<1>>)]
     ELSE [params |-> <<"a", "b">>,
           body |-> Placed(Form("do", <<note(Var("a")),
                           Lambda("z", Call(Var("+"), <<Var("b"), Var("z")>>))>>), <<2>>)]]

Expressions ==
  {[defs |-> Defs(<<"x">>, e), args |-> <<v>>, flat |-> FALSE] :
     e \in Once(Once(Atoms)), v \in {Num(FixnumMax), Bool(TRUE)}}

(* ---- loops ---------------------------------------------------------------- *)

n == Var("n")
zero == Lit(Num(0))
less(e) == Call(Var("+"), <<e, Lit(Num(-1))>>)
done == Call(Var("="), <<n, zero>>)
f(args) == Call(Var("f"), args)
Fun(params, body, tag) == [params |-> params, body |-> Placed(body, <<tag>>)]
Solo(params, body, flat, v) ==
  [defs |-> [k \in {"f"} |-> Fun(params, body, 1)], args |-> v, flat |-> flat]
Pair(body, body2, flat, v) ==
  [defs |-> [k \in {"f", "h"} |-> Fun(<<"n">>, IF k = "f" THEN body ELSE body2,
                                      IF k = "f" THEN 1 ELSE 2)],
   args |-> <<Num(v)>>, flat |-> flat]

Loops(v) ==
  {Solo(<<"n">>, Form("if", <<done, one, f(<<less(n)>>)>>), TRUE, <<Num(v)>>),
   \* the arguments trade places
   Solo(<<"n", "a", "b">>, Form("if", <<done, Var("a"), f(<<less(n), Var("b"), Var("a")>>)>>),
        TRUE, <<Num(v), Num(7), Num(8)>>),
   \* through let, do, cond, and, or and type
   Solo(<<"n">>, Let("m", less(n), Form("cond", <<done, one, Lit(Bool(TRUE)),
        Form("do", <<note(n), Form("type", <<f(<<Var("m")>>)>>)>>)>>)), TRUE, <<Num(v)>>),
   Solo(<<"n">>, Form("or", <<done, Form("and", <<Lit(Bool(TRUE)), f(<<less(n)>>)>>)>>),
        TRUE, <<Num(v)>>),
   \* two ways round, so that the jump behind the first is never reached
   Solo(<<"n">>, Form("if", <<done, one, Form("if", <<Call(Var("="), <<n, one>>),
                                                      f(<<less(n)>>), f(<<less(n)>>)>>)>>),
        TRUE, <<Num(v)>>),
   \* a sum, which must suspend its callers
   Solo(<<"n">>, Form("if", <<done, zero, Call(Var("+"), <<n, f(<<less(n)>>)>>)>>),
        FALSE, <<Num(v)>>),
   Solo(<<"n", "k">>, Form("if", <<done, Var("k"),
          f(<<less(n), Call(Var("+"), <<Var("k"), f(<<zero, one>>)>>)>>)>>),
        FALSE, <<Num(v), Num(0)>>),
   \* closures over the loop variable, applied after the loop moved on
   Solo(<<"n", "k">>, Form("if", <<done, Call(Var("k"), <<one>>),
          f(<<less(n), Lambda("z", Call(Var("+"), <<n, Var("z")>>))>>)>>),
        TRUE, <<Num(v), Native("note", 1)>>),
   \* too few arguments are no loop, and the function's own name as a local
   Solo(<<"n", "k">>, Form("if", <<done, f(<<n>>), f(<<less(n), Var("k")>>)>>),
        TRUE, <<Num(v), Num(0)>>),
   Solo(<<"n">>, Form("if", <<done, Let("f", Lambda("z", Var("z")), f(<<n>>)),
                              f(<<less(n)>>)>>), TRUE, <<Num(v)>>),
   \* two functions that call each other
   Pair(Form("if", <<done, one, Call(Var("h"), <<less(n)>>)>>),
        Let("m", less(n), Form("if", <<done, zero, f(<<Var("m")>>)>>)), TRUE, v),
   Pair(Form("if", <<done, zero, Call(Var("+"), <<one, Call(Var("h"), <<less(n)>>)>>)>>),
        Form("if", <<done, one, f(<<less(n)>>)>>), FALSE, v),
   \* callees that loop in frames of their own
   Pair(Form("if", <<done, zero, Form("do", <<Call(Var("h"), <<n>>), f(<<less(n)>>)>>)>>),
        Form("if", <<done, one, Call(Var("h"), <<less(n)>>)>>), FALSE, v),
   Pair(Form("if", <<done, zero, Call(Var("+"), <<n, Call(Var("h"), <<n>>)>>)>>),
        Form("if", <<done, one, Call(Var("h"), <<less(n)>>)>>), FALSE, v),
   \* a closure made at one place under changing bindings, and a body twice
   Pair(Let("t", Call(Freeze(Call(Var("+"), <<n, one>>)), <<>>),
            Form("if", <<done, Var("t"), f(<<less(n)>>)>>)),
        n, FALSE, v),
   Pair(Form("trap-error", <<Let("k", one, Call(Lambda("z", Call(Var("+"), <<n, Var("z")>>)),
          <<Let("z", Lit(Num(5)), Call(Freeze(Call(Var("+"), <<n, Var("z")>>)), <<>>))>>)),
          Lambda("z", n)>>),
        n, FALSE, v)}

LoopPrograms == UNION {Loops(v) : v \in 0 .. 4}

AllPrograms == Expressions \cup LoopPrograms
=============================================================================
