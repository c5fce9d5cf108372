---------------------------- MODULE BudgetProofs ----------------------------
(***************************************************************************)
(* Proofs about Budget: its types, the two limits, and that a cancellation *)
(* unwinds an evaluation that only the interpreters took part in.          *)
(***************************************************************************)
EXTENDS Budget, SequenceTheorems, TLAPS

(* ---- the stack ---------------------------------------------------------------- *)

\* The operators on the stack of activations keep its type; all but one of
\* them keep its length, and popping makes it shorter.
LEMMA StackFacts ==
  ASSUME NEW s \in Seq(FrameType), s # <<>>
  PROVE  /\ Len(s) \in Nat \ {0}
         /\ s[Len(s)] \in FrameType
         /\ SubSeq(s, 1, Len(s) - 1) \in Seq(FrameType)
         /\ Len(SubSeq(s, 1, Len(s) - 1)) = Len(s) - 1
         /\ \A f \in FrameType : /\ [s EXCEPT ![Len(s)] = f] \in Seq(FrameType)
                                 /\ Len([s EXCEPT ![Len(s)] = f]) = Len(s)
<1>1. Len(s) \in Nat \ {0} /\ s[Len(s)] \in FrameType
  BY EmptySeq, LenProperties, ElementOfSeq
<1>2. /\ SubSeq(s, 1, Len(s) - 1) \in Seq(FrameType)
      /\ Len(SubSeq(s, 1, Len(s) - 1)) = Len(s) - 1
  BY <1>1, SubSeqProperties
<1>3. ASSUME NEW f \in FrameType
      PROVE  /\ [s EXCEPT ![Len(s)] = f] \in Seq(FrameType)
             /\ Len([s EXCEPT ![Len(s)] = f]) = Len(s)
  BY <1>1, ExceptSeq
<1> QED BY <1>1, <1>2, <1>3

\* Raising and lowering the trap mark of an activation keeps its type.
LEMMA TrapFacts ==
  ASSUME NEW f \in FrameType, NEW trap \in BOOLEAN
  PROVE  [f EXCEPT !.trap = trap] \in FrameType
  BY DEF FrameType

\* A new activation has the type of one.
LEMMA ActivationFacts == \A e \in Engines : Activation(e) \in FrameType
  BY DEF Activation, FrameType

\* The stack is typed, and an activation that ended has left room for one:
\* a handler takes its place.
StackOK ==
  /\ stack \in Seq(FrameType) /\ Len(stack) <= MaxDepth
  /\ outcome \in Outcomes \cup {"run"}

Room == outcome # "run" => Len(stack) < MaxDepth

\* The limits are typed.
LimitsOK ==
  /\ remaining \in Nat \cup {Unlimited} /\ deadline \in {"none", "ahead", "passed"}
  /\ counter \in 0 .. Period - 1
  /\ granted \in Nat /\ charged \in Nat /\ late \in Nat

(* ---- the inductive invariant ------------------------------------------------------ *)

\* The steps charged and those that remain never exceed the grant.
Balanced ==
  /\ charged <= granted
  /\ remaining # Unlimited => charged + remaining <= granted

\* Every late step has turned the counter, which is parked once it wraps.
Counted ==
  /\ late < Period
  /\ deadline # "passed" => late = 0
  /\ deadline = "passed" /\ remaining # 0 => late <= counter

\* The marks of the evaluation are typed.
HistoryOK == refused \in BOOLEAN /\ compiled \in BOOLEAN

Inv == TypeOK /\ Room /\ Balanced /\ Counted

\* The typing invariant is that of the limits, of the stack and of the marks.
LEMMA TypeSplits == TypeOK <=> LimitsOK /\ StackOK /\ HistoryOK
  BY DEF TypeOK, LimitsOK, StackOK, HistoryOK

\* A charge keeps the limits typed, balanced and counted.
LEMMA ChargeKeeps ==
  ASSUME LimitsOK, Balanced, Counted, Charge
  PROVE  LimitsOK' /\ Balanced' /\ Counted'
<1>1. CASE remaining = 0
  BY <1>1 DEF Charge, limits, history, LimitsOK, Balanced, Counted
<1>2. CASE remaining # 0 /\ DeadlineSeen
  BY <1>2, BudgetConstants
     DEF Charge, DeadlineSeen, Turned, Parked, Spent, Unlimited, LimitsOK, Balanced, Counted
<1>3. CASE remaining # 0 /\ ~DeadlineSeen
  <2>1. LimitsOK'
    BY <1>3, BudgetConstants DEF Charge, Turned, Spent, Unlimited, LimitsOK
  <2>2. Balanced'
    BY <1>3 DEF Charge, Spent, Unlimited, LimitsOK, Balanced
  <2>3. Counted'
    <3>1. CASE deadline = "passed"
      BY <1>3, <3>1, BudgetConstants
         DEF Charge, DeadlineSeen, Turned, Spent, Unlimited, LimitsOK, Counted
    <3>2. CASE deadline # "passed"
      BY <1>3, <3>2 DEF Charge, LimitsOK, Counted
    <3> QED BY <3>1, <3>2
  <2> QED BY <2>1, <2>2, <2>3
<1> QED BY <1>1, <1>2, <1>3

\* Untouched limits stay typed, balanced and counted.
LEMMA LimitsStutter ==
  ASSUME LimitsOK, Balanced, Counted, UNCHANGED <<limits, history>>
  PROVE  LimitsOK' /\ Balanced' /\ Counted'
  BY DEF limits, history, LimitsOK, Balanced, Counted

\* An activation that calls, or ends, leaves a typed stack with its room.
LEMMA StackSteps ==
  ASSUME StackOK, ~Idle, Running \/ Room
  PROVE  /\ Running /\ Calls => StackOK' /\ Room'
         /\ stack' = Below /\ outcome' \in Outcomes => StackOK' /\ Room'
         /\ Room /\ Resumes => StackOK' /\ Room'
         /\ Room /\ outcome # "run" /\ RunsHandler => StackOK' /\ Room'
<1>1. /\ Len(stack) \in Nat \ {0} /\ Top \in FrameType
      /\ Below \in Seq(FrameType) /\ Len(Below) = Len(stack) - 1
      /\ \A f \in FrameType : WithTop(f) \in Seq(FrameType) /\ Len(WithTop(f)) = Len(stack)
  BY StackFacts DEF StackOK, Idle, Top, Below, WithTop
<1>2. ASSUME stack' = Below, outcome' \in Outcomes
      PROVE  StackOK' /\ Room'
  BY <1>1, <1>2, BudgetConstants DEF StackOK, Room
<1>3. ASSUME NEW e \in Engines, NEW trap \in BOOLEAN, Len(stack) < MaxDepth, outcome' = "run",
             stack' = Append(WithTop([Top EXCEPT !.trap = trap]), Activation(e))
      PROVE  StackOK' /\ Room'
  <2>1. Activation(e) \in FrameType
    BY ActivationFacts
  <2>2. PICK t \in Seq(FrameType) : /\ t = WithTop([Top EXCEPT !.trap = trap])
                                    /\ Len(t) = Len(stack)
    BY <1>1, TrapFacts
  <2>3. stack' \in Seq(FrameType) /\ Len(stack') = Len(stack) + 1
    BY <1>3, <2>1, <2>2, AppendProperties
  <2> QED BY <1>1, <1>3, <2>3, BudgetConstants DEF StackOK, Room
<1>4. Running /\ Calls => StackOK' /\ Room'
  BY <1>3 DEF Calls, Running
<1>5. ASSUME Room, outcome # "run", RunsHandler
      PROVE  StackOK' /\ Room'
  <2>1. PICK e \in Engines :
          stack' = Append(WithTop([Top EXCEPT !.trap = FALSE]), Activation(e))
    BY <1>5, BudgetConstants DEF RunsHandler
  <2> QED BY <1>3, <1>5, <2>1 DEF RunsHandler, Room
<1>6. ASSUME Room, Resumes
      PROVE  StackOK' /\ Room'
  <2>1. [Top EXCEPT !.trap = FALSE] \in FrameType
    BY <1>1, TrapFacts
  <2> QED BY <1>1, <1>6, <2>1 DEF Resumes, StackOK, Room
<1> QED BY <1>2, <1>4, <1>5, <1>6

(* ---- the invariant holds ------------------------------------------------------------- *)

\* Every step leaves the marks of the evaluation typed.
LEMMA MarksTyped == HistoryOK /\ [Next]_vars => HistoryOK'
<1> SUFFICES ASSUME HistoryOK, [Next]_vars
             PROVE  HistoryOK'
  OBVIOUS
<1>1. refused' \in BOOLEAN
  BY DEF HistoryOK, Next, Runs, vars, SetBudget, SetDeadline, ClearBudget, Evaluate, Expire,
         ChargedStep, RefusedStep, CompiledStep, Deliver
<1>2. compiled' \in BOOLEAN
  BY DEF HistoryOK, Next, Runs, vars, SetBudget, SetDeadline, ClearBudget, Evaluate, Expire,
         ChargedStep, RefusedStep, CompiledStep, Deliver, Calls, Ends, Enters, Resumes,
         RunsHandler, PassesOn
<1> QED BY <1>1, <1>2 DEF HistoryOK

\* Every step of the host, the clock and the engines keeps the invariant.
LEMMA Inductive == Inv /\ [Next]_vars => Inv'
<1> SUFFICES ASSUME Inv, [Next]_vars
             PROVE  Inv'
  OBVIOUS
<1> USE DEF Inv
<1>1. LimitsOK /\ StackOK /\ HistoryOK
  BY TypeSplits
<1>2. ASSUME StackOK', Room', LimitsOK', Balanced', Counted'
      PROVE  Inv'
  <2>1. HistoryOK'
    BY <1>1, MarksTyped
  <2> QED BY <1>2, <2>1 DEF TypeOK, LimitsOK, StackOK, HistoryOK
<1>3. CASE SetBudget
  BY <1>3, <1>1, <1>2, BudgetConstants
     DEF SetBudget, StackOK, Room, LimitsOK, Balanced, Counted, Unlimited
<1>4. CASE SetDeadline
  BY <1>4, <1>1, <1>2, BudgetConstants
     DEF SetDeadline, StackOK, Room, LimitsOK, Balanced, Counted
<1>5. CASE ClearBudget
  BY <1>5, <1>1, <1>2, BudgetConstants
     DEF ClearBudget, StackOK, Room, LimitsOK, Balanced, Counted
<1>6. CASE Evaluate
  <2>1. PICK e \in Engines : stack' = <<Activation(e)>>
    BY <1>6 DEF Evaluate
  <2>2. stack' \in Seq(FrameType) /\ Len(stack') = 1
    BY <2>1, ActivationFacts
  <2>3. StackOK' /\ Room'
    BY <1>6, <2>2, BudgetConstants DEF Evaluate, StackOK, Room
  <2> QED BY <1>6, <1>1, <1>2, <2>3, LimitsStutter DEF Evaluate
<1>7. CASE Expire
  BY <1>7, <1>1, <1>2, BudgetConstants
     DEF Expire, history, StackOK, Room, LimitsOK, Balanced, Counted
<1>8. CASE ChargedStep
  <2>1. LimitsOK' /\ Balanced' /\ Counted'
    BY <1>8, <1>1, ChargeKeeps DEF ChargedStep
  <2>2. CASE UNCHANGED <<stack, outcome>>
    BY <2>1, <2>2, <1>1, <1>2 DEF StackOK, Room
  <2>3. CASE Calls \/ Ends
    BY <2>1, <2>3, <1>8, <1>1, <1>2, StackSteps DEF ChargedStep, Running, Ends, Outcomes
  <2> QED BY <1>8, <2>2, <2>3 DEF ChargedStep
<1>9. CASE RefusedStep
  <2>1. LimitsOK' /\ Balanced' /\ Counted'
    BY <1>9, <1>1, ChargeKeeps DEF RefusedStep
  <2> QED BY <2>1, <1>9, <1>1, <1>2, StackSteps DEF RefusedStep, Running, Outcomes
<1>10. CASE CompiledStep
  <2>1. LimitsOK' /\ Balanced' /\ Counted'
    BY <1>10, <1>1, LimitsStutter DEF CompiledStep
  <2> QED BY <2>1, <1>10, <1>1, <1>2, StackSteps DEF CompiledStep, Running, Ends, Outcomes
<1>11. CASE Deliver
  <2>1. LimitsOK' /\ Balanced' /\ Counted'
    BY <1>11, <1>1, LimitsStutter DEF Deliver
  <2>2. outcome \in Outcomes /\ ~Idle
    BY <1>11, <1>1 DEF Deliver, StackOK
  <2>3. CASE Resumes \/ RunsHandler
    BY <2>1, <2>2, <2>3, <1>11, <1>1, <1>2, StackSteps DEF Deliver
  <2>4. CASE PassesOn
    BY <2>1, <2>2, <2>4, <1>1, <1>2, StackSteps DEF PassesOn
  <2> QED BY <1>11, <2>3, <2>4 DEF Deliver
<1>12. CASE UNCHANGED vars
  <2>1. LimitsOK' /\ Balanced' /\ Counted'
    BY <1>12, <1>1, LimitsStutter DEF vars
  <2> QED BY <2>1, <1>12, <1>1, <1>2 DEF vars, StackOK, Room
<1> QED
  BY <1>3, <1>4, <1>5, <1>6, <1>7, <1>8, <1>9, <1>10, <1>11, <1>12 DEF Next, Runs

\* A fresh interpreter satisfies the invariant.
LEMMA Initially == Init => Inv
<1> SUFFICES ASSUME Init PROVE Inv
  OBVIOUS
<1>1. stack \in Seq(FrameType) /\ Len(stack) = 0
  BY EmptySeq DEF Init
<1>2. StackOK /\ Room
  <2>1. outcome = "ok"
    BY DEF Init
  <2> QED BY <1>1, <2>1, BudgetConstants DEF StackOK, Room, Outcomes
<1>3. LimitsOK /\ HistoryOK
  <2>1. HistoryOK
    BY DEF Init, HistoryOK
  <2>2. /\ remaining = Unlimited /\ deadline = "none" /\ counter = 0
        /\ granted = 0 /\ charged = 0 /\ late = 0
    BY DEF Init
  <2> QED BY <2>1, <2>2, BudgetConstants DEF LimitsOK
<1>4. Balanced /\ Counted
  BY BudgetConstants DEF Init, Balanced, Counted
<1> QED BY <1>2, <1>3, <1>4, TypeSplits DEF Inv

\* The invariant holds in every reachable state.
LEMMA Invariance == Spec => []Inv
  BY Initially, Inductive, PTL DEF Spec

(* ---- the theorems ----------------------------------------------------------------------- *)

\* Every variable of the budget, the deadline and the stack of activations
\* always has its type.
THEOREM TypeCorrect == Spec => []TypeOK
<1>1. Inv => TypeOK
  BY DEF Inv
<1> QED BY <1>1, Invariance, PTL

\* A step budget bounds the steps charged by everything that runs under it,
\* whatever calls, fails, is trapped or is started again.
THEOREM BudgetRespected == Spec => []WithinBudget
<1>1. Inv => WithinBudget
  BY DEF Inv, Balanced, WithinBudget
<1> QED BY <1>1, Invariance, PTL

\* Fewer steps than one period of the clock are charged after a deadline
\* passed, for every period.
THEOREM DeadlineRespected == Spec => []WithinPeriod
<1>1. Inv => WithinPeriod
  BY DEF Inv, Counted, WithinPeriod
<1> QED BY <1>1, Invariance, PTL

\* Activations of compiled code are remembered until the next evaluation.
Remembered == ~compiled => \A k \in DOMAIN stack : stack[k].engine # "aot"

\* Evaluations, calls, handlers and returns keep that memory.
LEMMA RemembersCompiled == Inv /\ Remembered /\ [Next]_vars => Remembered'
<1> SUFFICES ASSUME Inv, Remembered, [Next]_vars, ~compiled'
             PROVE  \A k \in DOMAIN stack' : stack'[k].engine # "aot"
  BY DEF Remembered
<1>1. stack \in Seq(FrameType) /\ \A e \in Engines : Activation(e) \in FrameType
  BY ActivationFacts DEF Inv, TypeOK
<1>2. CASE Evaluate
  <2>1. PICK e \in Engines : stack' = <<Activation(e)>> /\ compiled' = (e = "aot")
    BY <1>2 DEF Evaluate
  <2>2. Activation(e).engine # "aot"
    BY <2>1 DEF Activation
  <2> QED BY <2>1, <2>2
<1>3. ASSUME ~Evaluate
      PROVE  ~compiled
  BY <1>3 DEF Next, Runs, vars, SetBudget, SetDeadline, ClearBudget, Expire, ChargedStep,
              RefusedStep, CompiledStep, Deliver, Calls, Ends, Enters, Resumes, RunsHandler,
              PassesOn
<1>4. CASE UNCHANGED stack /\ ~Evaluate
  BY <1>3, <1>4 DEF Remembered
<1>5. CASE stack # <<>> /\ stack' = Below /\ ~Evaluate
  BY <1>1, <1>3, <1>5, StackFacts DEF Remembered, Below
<1>6. ASSUME stack # <<>>, NEW trap \in BOOLEAN, ~Evaluate,
             stack' = WithTop([Top EXCEPT !.trap = trap])
      PROVE  \A k \in DOMAIN stack' : stack'[k].engine # "aot"
  BY <1>1, <1>3, <1>6, StackFacts DEF Remembered, WithTop, Top, FrameType
<1>7. ASSUME stack # <<>>, NEW trap \in BOOLEAN, NEW e \in Engines, ~Evaluate, Enters(e),
             stack' = Append(WithTop([Top EXCEPT !.trap = trap]), Activation(e))
      PROVE  \A k \in DOMAIN stack' : stack'[k].engine # "aot"
  <2> DEFINE t == WithTop([Top EXCEPT !.trap = trap])
  <2>1. t \in Seq(FrameType) /\ \A k \in DOMAIN t : t[k].engine # "aot"
    <3>1. Top \in FrameType
      BY <1>1, <1>7, StackFacts DEF Top
    <3>2. t \in Seq(FrameType)
      BY <1>1, <1>7, <3>1, TrapFacts, StackFacts DEF WithTop
    <3>3. \A k \in DOMAIN t : t[k].engine # "aot"
      BY <1>1, <1>3, <1>7, <3>1, StackFacts DEF Remembered, WithTop, Top, FrameType
    <3> QED BY <3>2, <3>3
  <2>2. e # "aot"
    BY <1>7 DEF Enters
  <2>3. Activation(e).engine # "aot" /\ Activation(e) \in FrameType
    BY <1>1, <2>2 DEF Activation
  <2> HIDE DEF t
  <2> QED BY <1>7, <2>1, <2>3, AppendProperties DEF t
<1>8. CASE ChargedStep /\ ~Evaluate
  BY <1>4, <1>5, <1>7, <1>8 DEF ChargedStep, Running, Idle, Calls, Ends
<1>9. CASE RefusedStep /\ ~Evaluate
  BY <1>5, <1>9 DEF RefusedStep, Running, Idle
<1>10. CASE CompiledStep /\ ~Evaluate
  BY <1>5, <1>7, <1>10 DEF CompiledStep, Running, Idle, Calls, Ends
<1>11. CASE Deliver /\ ~Evaluate
  <2>1. CASE Resumes
    BY <1>6, <1>11, <2>1 DEF Deliver, Idle, Resumes
  <2>2. CASE RunsHandler
    <3>1. PICK e \in Engines :
            /\ stack' = Append(WithTop([Top EXCEPT !.trap = FALSE]), Activation(e))
            /\ Enters(e)
      BY <2>2, BudgetConstants DEF RunsHandler
    <3> QED BY <1>7, <1>11, <3>1 DEF Deliver, Idle
  <2>3. CASE PassesOn
    BY <1>5, <1>11, <2>3 DEF Deliver, Idle, PassesOn
  <2> QED BY <1>11, <2>1, <2>2, <2>3 DEF Deliver
<1> QED
  BY <1>2, <1>4, <1>8, <1>9, <1>10, <1>11
     DEF Next, Runs, vars, SetBudget, SetDeadline, ClearBudget, Expire

\* No trap-error of the interpreters swallows a cancellation: after a refused
\* step an evaluation without compiled code only unwinds.
THEOREM CancellationNotTrapped == Spec => []CancellationUnwinds
<1>1. Init => Remembered /\ CancellationUnwinds
  BY DEF Init, Remembered, CancellationUnwinds
<1>2. Inv /\ Remembered /\ CancellationUnwinds /\ [Next]_vars => CancellationUnwinds'
  <2> SUFFICES ASSUME Inv, Remembered, CancellationUnwinds, [Next]_vars, refused', ~compiled'
               PROVE  outcome' = "cancelled"
    BY DEF CancellationUnwinds
  <2>1. CASE Deliver
    <3>1. ~compiled /\ refused
      <4>1. refused
        BY <2>1 DEF Deliver
      <4>2. ~compiled
        BY <2>1 DEF Deliver, Resumes, RunsHandler, PassesOn, Enters
      <4> QED BY <4>1, <4>2
    <3>2. stack \in Seq(FrameType) /\ stack # <<>>
      BY <2>1 DEF Deliver, Idle, Inv, TypeOK
    <3>3. Top.engine # "aot"
      BY <3>1, <3>2, StackFacts DEF Top, Remembered
    <3>4. outcome = "cancelled" /\ ~Catches(Top)
      BY <3>1, <3>3 DEF CancellationUnwinds, Catches
    <3> QED BY <2>1, <3>4 DEF Deliver, PassesOn, Resumes, RunsHandler
  <2>2. CASE ~Deliver
    BY <2>2 DEF Next, Runs, vars, CancellationUnwinds, SetBudget, SetDeadline, ClearBudget,
                Evaluate, Expire, ChargedStep, RefusedStep, CompiledStep, Running, Calls, Ends,
                Enters
  <2> QED BY <2>1, <2>2
<1> QED BY <1>1, <1>2, RemembersCompiled, Invariance, PTL DEF Spec
=============================================================================
