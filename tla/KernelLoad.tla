----------------------------- MODULE KernelLoad -----------------------------
(***************************************************************************)
(* What `load` promises to a Shen session (kernel/klambda/load.kl): the    *)
(* forms of a file are read at once, under (tc +) the signatures of its    *)
(* defines are assumed, and then each form is typechecked against the      *)
(* types in force and evaluated, which may load other files.  A load that  *)
(* fails takes its assumed signatures back and nothing else.               *)
(*                                                                         *)
(* Sessions are processes that share the source files.  This is the load   *)
(* of a session without a typecheck cache: verdicts come from the types.   *)
(***************************************************************************)
EXTENDS Integers, Sequences, FiniteSets

CONSTANTS
  Sessions,     \* processes
  Names,        \* functions a file may mention
  TypeNames,    \* types they may have
  Versions,     \* file -> the contents it may have
  TcModes,      \* whether a session may start under (tc +): a set of BOOLEANs
  MaxMoves      \* bound: files loaded, edits, crashes

Missing == <<[op |-> "missing"]>>
None == "none"
Files == DOMAIN Versions
Types == [Names -> TypeNames \cup {None}]

VARIABLES
  disk,         \* file -> its content, a sequence of forms, or Missing
  session,      \* Sessions -> [up, tc, types, loads]
  moves         \* bound: what the users may still do

(* ---- forms ----------------------------------------------------------------- *)

Define(g, type) == [op |-> "define", g |-> g, type |-> type]
Declare(g, type) == [op |-> "declare", g |-> g, type |-> type]
Use(g) == [op |-> "use", g |-> g]
Opaque(g) == [op |-> "opaque", g |-> g]      \* a use with a value nobody can hash
Macro == [op |-> "macro"]                    \* expands to fresh symbols when read
Fail == [op |-> "fail"]
Tc(on) == [op |-> "tc", on |-> on]
LoadForm(f, trapped) == [op |-> "load", file |-> f, trapped |-> trapped]

Form ==
  [op : {"define", "declare"}, g : Names, type : TypeNames]
    \cup [op : {"use", "opaque"}, g : Names] \cup [op : {"macro", "fail"}]
    \cup [op : {"tc"}, on : BOOLEAN]
    \cup [op : {"load"}, file : Files, trapped : BOOLEAN]
Forms == Seq(Form)

ASSUME LoadAssumption ==
  /\ \A f \in Files : Versions[f] \subseteq Forms \cup {Missing}
  /\ "symbol" \in TypeNames
  /\ TcModes \subseteq BOOLEAN /\ MaxMoves \in Nat

\* shen.typecheck: the type of a form under the types in force, None if it has none.
Verdict(form, types) ==
  CASE form.op \in {"use", "opaque"} -> types[form.g]
    [] form.op = "define" -> form.type
    [] OTHER -> "symbol"

(* ---- one load in progress ---------------------------------------------------- *)

\* stage: "read", "check", "eval", "nested" (evaluating a load form), "failed".
Load(f, tc) ==
  [file |-> f, forms |-> <<>>, at |-> 1, tc |-> tc, stage |-> "read", said |-> None]

Loading(s) == session[s].up /\ session[s].loads # <<>>
Now(s) == session[s].loads[Len(session[s].loads)]
FormNow(s) == Now(s).forms[Now(s).at]
More(s) == Now(s).at <= Len(Now(s).forms)
AtStage(s, stage) == Loading(s) /\ Now(s).stage = stage

Replaced(k, load) == [k EXCEPT !.loads[Len(k.loads)] = load]
FirstStage(load) == IF load.tc THEN "check" ELSE "eval"
Onward(load) == [load EXCEPT !.at = @ + 1, !.stage = FirstStage(load)]
Failed(load) == [load EXCEPT !.stage = "failed"]

Begun(s, f) == [session[s] EXCEPT !.loads = Append(@, Load(f, session[s].tc))]

\* typetable and assumetypes: the signatures of a file's defines.
Signed(forms, g) == {i \in DOMAIN forms : forms[i].op = "define" /\ forms[i].g = g}
Assuming(types, forms) ==
  [g \in Names |-> IF Signed(forms, g) = {} THEN types[g]
                   ELSE forms[CHOOSE i \in Signed(forms, g) :
                                \A j \in Signed(forms, g) : j <= i].type]
Unwinding(types, forms) ==
  [g \in Names |-> IF Signed(forms, g) = {} THEN types[g] ELSE None]

AfterRead(s) ==
  LET k == session[s]
      forms == disk[Now(s).file]
      load == [Now(s) EXCEPT !.forms = forms, !.stage = FirstStage(Now(s))]
  IN IF forms = Missing THEN Replaced(k, Failed(Now(s)))
     ELSE [Replaced(k, load) EXCEPT
             !.types = IF load.tc THEN Assuming(@, forms) ELSE @]

AfterCheck(s, verdict) ==
  Replaced(session[s],
    IF verdict = None THEN Failed(Now(s))
    ELSE [Now(s) EXCEPT !.stage = "eval", !.said = verdict])

AfterEval(s) ==
  LET k == session[s]
      form == FormNow(s)
      nested == Replaced(k, [Now(s) EXCEPT !.stage = "nested"])
  IN CASE form.op = "load" ->
            [nested EXCEPT !.loads = Append(@, Load(form.file, k.tc))]
       [] form.op = "fail" -> Replaced(k, Failed(Now(s)))
       [] form.op = "declare" ->
            [Replaced(k, Onward(Now(s))) EXCEPT !.types[form.g] = form.type]
       [] form.op = "tc" -> [Replaced(k, Onward(Now(s))) EXCEPT !.tc = form.on]
       [] OTHER -> Replaced(k, Onward(Now(s)))

\* A load returns to the form that asked for it; an error goes to its trap, if
\* it has one, or fails the enclosing load too.
Returned(k, failed) ==
  LET outer == SubSeq(k.loads, 1, Len(k.loads) - 1)
      parent == outer[Len(outer)]
      caught == parent.forms[parent.at].trapped
  IN [k EXCEPT !.loads =
        IF outer = <<>> THEN <<>>
        ELSE [outer EXCEPT ![Len(outer)] =
                IF failed /\ ~caught THEN Failed(parent) ELSE Onward(parent)]]

AfterFail(s) ==
  Returned([session[s] EXCEPT
              !.types = IF Now(s).tc THEN Unwinding(@, Now(s).forms) ELSE @], TRUE)

(* ---- what the users do --------------------------------------------------------- *)

Fresh(tc) == [up |-> TRUE, tc |-> tc, types |-> [g \in Names |-> None], loads |-> <<>>]
Down == [Fresh(FALSE) EXCEPT !.up = FALSE]

Begin(s, k) == session' = [session EXCEPT ![s] = k]
Moving == moves > 0 /\ moves' = moves - 1

LoadInit ==
  /\ disk \in {d \in [Files -> UNION {Versions[f] : f \in Files}] :
                 \A f \in Files : d[f] \in Versions[f]}
  /\ session = [s \in Sessions |-> Down]
  /\ moves = MaxMoves

StartSession(s) ==
  /\ ~session[s].up
  /\ \E tc \in TcModes : Begin(s, Fresh(tc))
  /\ UNCHANGED <<disk, moves>>

\* The process ends, wherever it is.
Crash(s) == Moving /\ session[s].up /\ Begin(s, Down) /\ UNCHANGED disk

Edit(f) ==
  /\ Moving
  /\ \E content \in Versions[f] \ {disk[f]} : disk' = [disk EXCEPT ![f] = content]
  /\ UNCHANGED session

LoadFile(s, f) ==
  /\ Moving /\ session[s].up /\ session[s].loads = <<>>
  /\ Begin(s, Begun(s, f)) /\ UNCHANGED disk

(* ---- what load does -------------------------------------------------------------- *)

Working == UNCHANGED <<disk, moves>>

ReadForms(s) == AtStage(s, "read") /\ Begin(s, AfterRead(s)) /\ Working
CheckForm(s) ==
  /\ AtStage(s, "check") /\ More(s) /\ Working
  /\ Begin(s, AfterCheck(s, Verdict(FormNow(s), session[s].types)))
EvalForm(s) == AtStage(s, "eval") /\ More(s) /\ Begin(s, AfterEval(s)) /\ Working
EndLoad(s) ==
  /\ Loading(s) /\ Now(s).stage \in {"check", "eval"} /\ ~More(s)
  /\ Begin(s, Returned(session[s], FALSE)) /\ Working
FailLoad(s) == AtStage(s, "failed") /\ Begin(s, AfterFail(s)) /\ Working

LoadNext ==
  \/ \E f \in Files : Edit(f)
  \/ \E s \in Sessions :
       \/ StartSession(s) \/ Crash(s) \/ \E f \in Files : LoadFile(s, f)
       \/ ReadForms(s) \/ CheckForm(s) \/ EvalForm(s) \/ EndLoad(s) \/ FailLoad(s)

LoadSpec == LoadInit /\ [][LoadNext]_<<disk, session, moves>>
=============================================================================
