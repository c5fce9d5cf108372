------------------------------- MODULE Budget -------------------------------
(***************************************************************************)
(* Cancellation of an evaluation of shen-rust by a step budget and a       *)
(* wall-clock deadline (interp/eval.rs: set_budget, set_deadline,          *)
(* clear_budget, charge_step).                                             *)
(*                                                                         *)
(* One Interp runs a stack of activations: of the tree-walker (eval_in),   *)
(* of the VM (exec) and of AOT-compiled functions.  The first two charge   *)
(* the budget as they go; compiled code does not.  A refused charge raises *)
(* a cancellation, an error of a kind of its own that trap-error must let  *)
(* through.                                                                *)
(***************************************************************************)
EXTENDS Integers, Sequences

CONSTANTS
  MaxBudget,    \* bound: steps a host may grant
  Period,       \* charged steps between two looks at the clock (1024)
  MaxDepth,     \* bound: activations on the stack
  Engines       \* those that run: "walk" always, "vm", "aot"

ASSUME BudgetConstants ==
  /\ MaxBudget \in Nat /\ Period \in Nat \ {0} /\ MaxDepth \in Nat \ {0}
  /\ Engines \subseteq {"walk", "vm", "aot"} /\ "walk" \in Engines

VARIABLES
  remaining,    \* remaining_steps, Unlimited for None
  deadline,     \* "none", "ahead" or "passed"
  counter,      \* deadline_counter, modulo Period
  stack,        \* activations, [engine, trap]; trap: its call is in a trap-error
  outcome,      \* "run", or what the last activation to end handed back
  granted,      \* history: the last budget set, and the steps
  charged,      \*   charged since
  late,         \* history: steps charged since the deadline passed
  refused,      \* history: this evaluation has been refused a step,
  compiled      \*   has entered compiled code

limits == <<remaining, deadline, counter>>
history == <<granted, charged, late>>
vars == <<limits, stack, outcome, history, refused, compiled>>

Unlimited == -1
Outcomes == {"ok", "error", "cancelled"}
FrameType == [engine : Engines, trap : BOOLEAN]
Activation(e) == [engine |-> e, trap |-> FALSE]

Top == stack[Len(stack)]
Below == SubSeq(stack, 1, Len(stack) - 1)
WithTop(f) == [stack EXCEPT ![Len(stack)] = f]
Enters(e) == compiled' = (compiled \/ e = "aot")
Idle == stack = <<>>
Running == ~Idle /\ outcome = "run"

Init ==
  /\ remaining = Unlimited /\ deadline = "none" /\ counter = 0
  /\ stack = <<>> /\ outcome = "ok"
  /\ granted = 0 /\ charged = 0 /\ late = 0 /\ refused = FALSE /\ compiled = FALSE

(* ---- the host, between evaluations ------------------------------------------ *)

SetBudget ==
  /\ Idle
  /\ \E n \in 0 .. MaxBudget : remaining' = n /\ granted' = n
  /\ charged' = 0 /\ late' = 0
  /\ UNCHANGED <<deadline, counter, stack, outcome, refused, compiled>>

SetDeadline ==
  /\ Idle /\ deadline' = "ahead" /\ late' = 0
  /\ UNCHANGED <<remaining, counter, stack, outcome, granted, charged, refused, compiled>>

ClearBudget ==
  /\ Idle /\ remaining' = Unlimited /\ deadline' = "none" /\ counter' = 0
  /\ late' = 0
  /\ UNCHANGED <<stack, outcome, granted, charged, refused, compiled>>

\* Interp::eval starts a tree-walk, Interp::apply whatever the function is.
Evaluate ==
  /\ Idle
  /\ \E e \in Engines : stack' = <<Activation(e)>> /\ compiled' = (e = "aot")
  /\ outcome' = "run" /\ refused' = FALSE
  /\ UNCHANGED <<limits, history>>

Expire ==
  /\ deadline = "ahead" /\ deadline' = "passed"
  /\ UNCHANGED <<remaining, counter, stack, outcome, history, refused, compiled>>

(* ---- charging a step ---------------------------------------------------------- *)

\* The clock is looked at when the counter wraps.
Turned(n) == IF n + 1 = Period THEN 0 ELSE n + 1
DeadlineSeen == deadline = "passed" /\ Turned(counter) = 0
RefusesLateOnly == DeadlineSeen                                  \* mutant
Refuses == remaining = 0 \/ DeadlineSeen

\* Exhaustion is sticky: a deadline that was seen parks the steps at zero.
ParkedNever(n) == n                                              \* mutant
Parked(n) == 0

SpentFree(n) == n                                                \* mutant
SpentAnyway(n) == n - 1                                          \* mutant
Spent(n) == IF n = Unlimited THEN n ELSE n - 1

Charge ==
  IF remaining = 0 THEN UNCHANGED <<limits, history>>
  ELSE /\ remaining' = IF DeadlineSeen THEN Parked(Spent(remaining)) ELSE Spent(remaining)
       /\ counter' = IF deadline = "none" THEN counter ELSE Turned(counter)
       /\ charged' = IF DeadlineSeen \/ remaining = Unlimited THEN charged ELSE charged + 1
       /\ late' = IF DeadlineSeen \/ deadline # "passed" THEN late ELSE late + 1
       /\ UNCHANGED <<deadline, granted>>

(* ---- what an activation does ----------------------------------------------------- *)

\* The VM does not compile trap-error, the tree-walker evaluates its body itself.
MayTrap(engine, callee) ==
  engine = "aot" \/ (engine = "walk" /\ callee = "walk")

Calls ==
  /\ Len(stack) < MaxDepth
  /\ \E e \in Engines, trap \in BOOLEAN :
       /\ trap => MayTrap(Top.engine, e)
       /\ stack' = Append(WithTop([Top EXCEPT !.trap = trap]), Activation(e))
       /\ Enters(e)
  /\ UNCHANGED outcome

Ends == stack' = Below /\ outcome' \in {"ok", "error"} /\ UNCHANGED compiled

\* A charged step: another turn of the loop, a call, a value or an error.
ChargedStep ==
  /\ Running /\ Top.engine # "aot" /\ ~Refuses /\ Charge
  /\ UNCHANGED <<stack, outcome, compiled>> \/ Calls \/ Ends
  /\ UNCHANGED refused

RefusedStep ==
  /\ Running /\ Top.engine # "aot" /\ Refuses /\ Charge
  /\ stack' = Below /\ outcome' = "cancelled" /\ refused' = TRUE
  /\ UNCHANGED compiled

CompiledStep ==
  /\ Running /\ Top.engine = "aot"
  /\ Calls \/ Ends
  /\ UNCHANGED <<limits, history, refused>>

(* ---- an outcome comes back to the activation below --------------------------------- *)

\* step_trap_error looks at the kind of the error; the match that klcompile
\* emits for trap-error does not.
CatchesAnyKind(f) == f.trap /\ outcome # "ok"                    \* mutant
Catches(f) ==
  f.trap /\ (outcome = "error" \/ (outcome = "cancelled" /\ f.engine = "aot"))

Resumes ==
  /\ outcome = "ok"
  /\ stack' = WithTop([Top EXCEPT !.trap = FALSE]) /\ outcome' = "run"
  /\ UNCHANGED compiled

\* The handler: an activation of its own, which compiled code may call directly.
RunsHandler ==
  /\ Catches(Top)
  /\ \E e \in IF Top.engine = "aot" THEN Engines ELSE {"walk"} :
       /\ stack' = Append(WithTop([Top EXCEPT !.trap = FALSE]), Activation(e))
       /\ Enters(e)
  /\ outcome' = "run"

PassesOn ==
  /\ outcome # "ok" /\ ~Catches(Top)
  /\ stack' = Below /\ UNCHANGED <<outcome, compiled>>

Deliver ==
  /\ ~Idle /\ outcome # "run"
  /\ Resumes \/ RunsHandler \/ PassesOn
  /\ UNCHANGED <<limits, history, refused>>

Runs == ChargedStep \/ RefusedStep \/ CompiledStep \/ Deliver
Next == SetBudget \/ SetDeadline \/ ClearBudget \/ Evaluate \/ Expire \/ Runs

Spec == Init /\ [][Next]_vars

\* The thread that evaluates keeps at it, and time passes.
FairSpec == Spec /\ WF_vars(Runs) /\ WF_vars(Expire)

(* ---- properties ----------------------------------------------------------------------- *)

\* Every variable has its type.
TypeOK ==
  /\ remaining \in Nat \cup {Unlimited} /\ deadline \in {"none", "ahead", "passed"}
  /\ counter \in 0 .. Period - 1
  /\ stack \in Seq(FrameType) /\ Len(stack) <= MaxDepth
  /\ outcome \in Outcomes \cup {"run"}
  /\ granted \in Nat /\ charged \in Nat /\ late \in Nat
  /\ refused \in BOOLEAN /\ compiled \in BOOLEAN

\* A budget bounds the steps charged by all activations of all evaluations
\* until it is set anew, nested calls, errors and handlers included.
WithinBudget == charged <= granted

\* After a deadline has passed less than one period of steps is charged, even
\* if a handler resumes the evaluation or the host starts another one.
WithinPeriod == late < Period

\* An evaluation that was refused a step only unwinds: nothing of the program,
\* no handler of a trap-error, runs any more, unless compiled code took part.
CancellationUnwinds == refused /\ ~compiled => outcome = "cancelled"

\* "`trap-error` must NOT swallow a budget cancellation - the scheduler has to
\* see the abort" (tests/budget_cancel.rs:61): the host gets the cancellation of
\* an evaluation that was refused a step.
CancellationSurfaces == Idle /\ refused => outcome = "cancelled"

\* A limited evaluation comes to an end, unless compiled code took part: the
\* budget "bounds the whole evaluation, not just one frame" (interp/eval.rs:650).
Limited == remaining # Unlimited \/ deadline # "none"
LimitedEnds == ~Idle /\ Limited ~> Idle \/ compiled
=============================================================================
