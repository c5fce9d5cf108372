------------------------------ MODULE TcCache ------------------------------
(***************************************************************************)
(* The load-time typecheck cache of shen-rust (interp/tc_cache.rs): load   *)
(* and shen.typecheck wrapped so that the verdicts of a load are recorded  *)
(* in a file and replayed by a later session that reaches the same key.    *)
(* The sessions of KernelLoad share the cache directory; each keeps a      *)
(* rolling chain of completed loads, a gensym counter and a stack of load  *)
(* contexts.                                                               *)
(*                                                                         *)
(* Hashes are modelled as injective: a hash is the value hashed.           *)
(***************************************************************************)
EXTENDS KernelLoad

CONSTANTS EditsAnyTime    \* FALSE: no file changes between its hash and its read

ASSUME EditsAssumption == EditsAnyTime \in BOOLEAN

VARIABLES
  cacher,     \* Sessions -> [chain, gensym, stack, job]
  dir,        \* cache directory: <<"tc" or "tmp", key>> -> number of an inode
  inodes      \* sequence of file contents: a recording, or Torn

vars == <<disk, session, moves, cacher, dir, inodes>>

Torn == [torn |-> TRUE]
NoJob == [stage |-> "none"]
NoHash == <<>>

(* ---- the cache directory ------------------------------------------------------ *)

TcFile(key) == <<"tc", key>>
TmpFile(key) == <<"tmp", key>>

\* read_cache: a missing, torn or mismatched file is a miss.
Hit(key) == TcFile(key) \in DOMAIN dir /\ inodes[dir[TcFile(key)]] # Torn
Recording(key) == inodes[dir[TcFile(key)]]

(* ---- gensyms -------------------------------------------------------------------- *)

PinnedBack(gensym, to) == to                                     \* mutant
Pinned(gensym, to) == IF to > gensym THEN to ELSE gensym

\* Reading expands macros and assumes signatures, proofs and declare make fresh
\* names: each costs one.
CostOfRead(forms, tc) ==
  Cardinality({i \in DOMAIN forms :
                 forms[i].op = "macro" \/ (tc /\ forms[i].op = "define")})
CostOfCheck(form) == IF form.op \in {"use", "opaque", "define"} THEN 1 ELSE 0
CostOfEval(form) == IF form.op \in {"declare", "define"} THEN 1 ELSE 0

(* ---- load contexts ---------------------------------------------------------------- *)

\* An unkeyed load pushes no context: it stands here only to keep the stack in
\* step with the loads, and lets every typecheck through.
Unkeyed(within) ==
  [keyed |-> FALSE, within |-> within, replay |-> FALSE, poisoned |-> TRUE, readAt |-> 0]

Context(key, content, tc, gensym) ==
  [keyed |-> TRUE, key |-> key, hash |-> content, tc |-> tc, start |-> gensym,
   replay |-> FALSE, poisoned |-> FALSE, digest |-> <<>>, entries |-> <<>>,
   cursor |-> 1, ckpt |-> <<>>, ckptCursor |-> 1, end |-> 0, readAt |-> 0]

Replaying(ctx, rec) ==
  [ctx EXCEPT !.replay = TRUE, !.start = Pinned(@, rec.start), !.end = rec.end,
              !.entries = rec.entries, !.ckpt = rec.ckpt]

Stack(s) == cacher[s].stack
Depth(s) == Len(Stack(s))
Context1(s) == Stack(s)[Depth(s)]
PoisonedTop(stack) ==
  IF stack = <<>> THEN <<>> ELSE [stack EXCEPT ![Len(stack)].poisoned = TRUE]

\* The hash and digest of every enclosing context.  They stand still while a
\* nested load runs, so all but the innermost are in the innermost one's key.
Enclosing(stack) ==
  LET top == stack[Len(stack)] IN
  IF stack = <<>> THEN <<>>
  ELSE IF top.keyed THEN Append(top.key.within, <<top.hash, top.digest>>)
  ELSE top.within

\* Everything a verdict is taken to depend on.
KeyNoChain(c, content, tc) ==                                    \* mutant
  [chain |-> <<>>, within |-> Enclosing(c.stack), content |-> content, tc |-> tc,
   gensym |-> c.gensym]
Key(c, content, tc) ==
  [chain |-> c.chain, within |-> Enclosing(c.stack), content |-> content, tc |-> tc,
   gensym |-> c.gensym]

\* load_wrapper before the kernel's load.
Entered(c, content, tc) ==
  LET key == Key(c, content, tc)
      ctx == Context(key, content, tc, c.gensym)
  IN IF content = Missing
     THEN [c EXCEPT !.stack = Append(PoisonedTop(@), Unkeyed(Enclosing(@)))]
     ELSE IF Hit(key)
     THEN [c EXCEPT !.gensym = Pinned(@, Recording(key).start),
                    !.stack = Append(@, Replaying(ctx, Recording(key)))]
     ELSE [c EXCEPT !.stack = Append(@, ctx)]

\* A nested load that completed is checkpointed in its parent.
CheckpointStuck(parent, chain) ==                                \* mutant
  LET p == [parent EXCEPT !.digest = Append(@, chain)] IN
  IF ~p.replay THEN [p EXCEPT !.ckpt = Append(@, chain)]
  ELSE IF p.ckpt[p.ckptCursor] = chain THEN p ELSE [p EXCEPT !.poisoned = TRUE]
Checkpointed(parent, chain) ==
  LET p == [parent EXCEPT !.digest = Append(@, chain)]
      expected == /\ p.ckptCursor \in DOMAIN p.ckpt
                  /\ p.ckpt[p.ckptCursor] = chain
  IN IF ~p.keyed THEN parent
     ELSE IF ~p.replay THEN [p EXCEPT !.ckpt = Append(@, chain)]
     ELSE IF expected THEN [p EXCEPT !.ckptCursor = @ + 1]
     ELSE [p EXCEPT !.poisoned = TRUE]

\* load_wrapper after a load that succeeded: a fresh recording is to be written.
Completed(c) ==
  LET n == Len(c.stack)
      ctx == c.stack[n]
      chain == Append(c.chain, [file |-> ctx.hash, tc |-> ctx.tc])
      outer == SubSeq(c.stack, 1, n - 1)
      rec == [start |-> ctx.start, end |-> c.gensym,
              entries |-> ctx.entries, ckpt |-> ctx.ckpt]
  IN IF ~ctx.keyed THEN [c EXCEPT !.stack = outer]
     ELSE [c EXCEPT
       !.chain = chain,
       !.gensym = IF ctx.replay THEN Pinned(@, ctx.end) ELSE @,
       !.stack = IF outer = <<>> THEN <<>>
                 ELSE [outer EXCEPT ![n - 1] = Checkpointed(@, chain)],
       !.job = IF ctx.replay \/ ctx.poisoned THEN NoJob
               ELSE [stage |-> "open", key |-> ctx.key, rec |-> rec, inode |-> 0]]

AbandonedInPlace(c) == [c EXCEPT !.stack = PoisonedTop(@)]       \* mutant
Abandoned(c) == [c EXCEPT !.stack = PoisonedTop(SubSeq(@, 1, Len(@) - 1))]

(* ---- typecheck_wrapper -------------------------------------------------------------- *)

\* The hash of a form: a macro's has the fresh symbols of this reading in it.
ArgHash(form, ctx) ==
  CASE form.op = "opaque" -> NoHash
    [] form.op = "macro" -> <<form, [at |-> ctx.readAt]>>
    [] OTHER -> <<form>>

Matches(ctx, hash) ==
  /\ ctx.cursor \in DOMAIN ctx.entries
  /\ ctx.entries[ctx.cursor].hash = hash

Digested(ctx, hash) == [ctx EXCEPT !.digest = Append(@, hash)]

\* The verdict the wrapper answers and the session's cacher afterwards.
PinAfterNever(gensym, entry) == gensym                           \* mutant
PinAfter(gensym, entry) == Pinned(gensym, entry.gensymAfter)

Checking(c, form, types) ==
  LET n == Len(c.stack)
      ctx == c.stack[n]
      hash == ArgHash(form, ctx)
      entry == ctx.entries[ctx.cursor]
      real == Verdict(form, types)
      spent == c.gensym + CostOfCheck(form)
      verdict == IF hash = NoHash \/ real = None THEN None ELSE real
      recorded == [hash |-> hash, val |-> verdict, gensymAfter |-> spent]
      consumed == [Digested(ctx, hash) EXCEPT !.cursor = @ + 1]
      Answer(v, gensym, top) ==
        [verdict |-> v, cacher |-> [c EXCEPT !.gensym = gensym, !.stack[n] = top]]
  IN CASE ctx.poisoned -> Answer(real, spent, ctx)
       [] ~ctx.poisoned /\ ~ctx.replay ->
            Answer(real, spent,
                   [Digested(ctx, hash) EXCEPT !.entries = Append(@, recorded)])
       [] ~ctx.poisoned /\ ctx.replay ->
            IF ~Matches(ctx, hash) THEN Answer(real, spent, [ctx EXCEPT !.poisoned = TRUE])
            ELSE IF entry.val = None THEN Answer(real, spent, consumed)
            ELSE Answer(entry.val, PinAfter(c.gensym, entry), consumed)

(* ---- actions ---------------------------------------------------------------------------- *)

Idle == [chain |-> <<>>, gensym |-> 0, stack |-> <<>>, job |-> NoJob]

Init ==
  /\ LoadInit
  /\ cacher = [s \in Sessions |-> Idle]
  /\ dir = [p \in {} |-> 0] /\ inodes = <<>>

Caches(s, c) == cacher' = [cacher EXCEPT ![s] = c] /\ UNCHANGED <<dir, inodes>>
Free(s) == cacher[s].job = NoJob             \* not busy writing a recording

Start(s) == StartSession(s) /\ Caches(s, Idle)
Stop(s) == Crash(s) /\ Caches(s, Idle)

Reading(f) == \E s \in Sessions : AtStage(s, "read") /\ Now(s).file = f
EditFile(f) ==
  /\ EditsAnyTime \/ ~Reading(f)
  /\ Edit(f) /\ UNCHANGED <<cacher, dir, inodes>>

LoadTop(s, f) ==
  /\ Free(s) /\ LoadFile(s, f)
  /\ Caches(s, Entered(cacher[s], disk[f], session[s].tc))

\* The kernel's own read of the file, after the wrapper's.
Read(s) ==
  /\ ReadForms(s)
  /\ Caches(s, LET forms == disk[Now(s).file]
                   spent == IF forms = Missing THEN 0 ELSE CostOfRead(forms, Now(s).tc)
               IN [cacher[s] EXCEPT !.stack[Depth(s)].readAt = cacher[s].gensym,
                                    !.gensym = @ + spent])

TypecheckForm(s) ==
  /\ Free(s) /\ AtStage(s, "check") /\ More(s) /\ Working
  /\ LET answer == Checking(cacher[s], FormNow(s), session[s].types) IN
     /\ Begin(s, AfterCheck(s, answer.verdict))
     /\ Caches(s, answer.cacher)

Evaluate(s) ==
  /\ Free(s) /\ EvalForm(s)
  /\ LET form == FormNow(s)
         spent == [cacher[s] EXCEPT !.gensym = @ + CostOfEval(form)]
     IN Caches(s, IF form.op = "load"
                  THEN Entered(spent, disk[form.file], session[s].tc) ELSE spent)

Finish(s) == Free(s) /\ EndLoad(s) /\ Caches(s, Completed(cacher[s]))
GiveUp(s) == Free(s) /\ FailLoad(s) /\ Caches(s, Abandoned(cacher[s]))

(* ---- write_cache: one system call at a time ------------------------------------------------ *)

Job(s) == cacher[s].job
Writing(s, stage) == session[s].up /\ ~Free(s) /\ Job(s).stage = stage
JobAt(s, stage, inode) ==
  cacher' = [cacher EXCEPT ![s].job.stage = stage, ![s].job.inode = inode]
JobDone(s) == cacher' = [cacher EXCEPT ![s].job = NoJob]
Elsewhere == UNCHANGED <<disk, session, moves>>

InPlace(key) == TcFile(key)                                      \* mutant
WriteTo(key) == TmpFile(key)

Linked(path, inode) == [p \in DOMAIN dir \cup {path} |-> IF p = path THEN inode ELSE dir[p]]
Without(path) == [p \in DOMAIN dir \ {path} |-> dir[p]]

\* Creating the temporary file empties the one another session may be writing.
OpenTmp(s) ==
  /\ Writing(s, "open") /\ Elsewhere
  /\ LET path == WriteTo(Job(s).key) IN
     IF path \in DOMAIN dir
     THEN /\ inodes' = [inodes EXCEPT ![dir[path]] = Torn] /\ UNCHANGED dir
          /\ JobAt(s, "write", dir[path])
     ELSE /\ inodes' = Append(inodes, Torn)
          /\ dir' = Linked(path, Len(inodes) + 1)
          /\ JobAt(s, "write", Len(inodes) + 1)

WriteTmpIfPresent(s) ==                                          \* mutant
  /\ Writing(s, "write") /\ Elsewhere /\ UNCHANGED dir
  /\ IF TmpFile(Job(s).key) \in DOMAIN dir
     THEN /\ inodes' = [inodes EXCEPT ![Job(s).inode] = Job(s).rec]
          /\ JobAt(s, "rename", Job(s).inode)
     ELSE JobDone(s) /\ UNCHANGED inodes
\* The file is written through its descriptor, wherever it has been renamed to.
WriteTmp(s) ==
  /\ Writing(s, "write") /\ Elsewhere
  /\ inodes' = [inodes EXCEPT ![Job(s).inode] = Job(s).rec]
  /\ JobAt(s, "rename", Job(s).inode) /\ UNCHANGED dir

\* A rename fails when another session has renamed the file away; the writer
\* then removes the temporary file, were it another session's new one.
Rename(s) ==
  /\ Writing(s, "rename") /\ Elsewhere /\ UNCHANGED inodes
  /\ LET tmp == TmpFile(Job(s).key)
         final == TcFile(Job(s).key)
     IN IF tmp \in DOMAIN dir
        THEN /\ dir' = [p \in DOMAIN Without(tmp) \cup {final} |->
                         IF p = final THEN dir[tmp] ELSE dir[p]]
             /\ JobDone(s)
        ELSE JobAt(s, "remove", Job(s).inode) /\ UNCHANGED dir

RemoveTmp(s) ==
  /\ Writing(s, "remove") /\ Elsewhere /\ JobDone(s) /\ UNCHANGED inodes
  /\ dir' = Without(TmpFile(Job(s).key))

Next ==
  \/ \E f \in Files : EditFile(f)
  \/ \E s \in Sessions :
       \/ Start(s) \/ Stop(s) \/ \E f \in Files : LoadTop(s, f)
       \/ Read(s) \/ TypecheckForm(s) \/ Evaluate(s) \/ Finish(s) \/ GiveUp(s)
       \/ OpenTmp(s) \/ WriteTmp(s) \/ Rename(s) \/ RemoveTmp(s)

Spec == Init /\ [][Next]_vars

(* ---- types --------------------------------------------------------------------------------- *)

Chains == Seq([file : Forms, tc : BOOLEAN])
Hashes == Seq(Form \cup [at : Nat])
Digests == Seq(Hashes \cup Chains)
Withins == Seq(Forms \X Digests)
Keys ==
  [chain : Chains, within : Withins, content : Forms, tc : BOOLEAN, gensym : Nat]
Entries == [hash : Hashes, val : TypeNames \cup {None}, gensymAfter : Nat]
Recordings == [start : Nat, end : Nat, entries : Seq(Entries), ckpt : Seq(Chains)]
KeyedContexts ==
  [keyed : {TRUE}, key : Keys, hash : Forms, tc : BOOLEAN, start : Nat,
   replay : BOOLEAN, poisoned : BOOLEAN, digest : Digests, entries : Seq(Entries),
   cursor : Nat \ {0}, ckpt : Seq(Chains), ckptCursor : Nat \ {0}, end : Nat, readAt : Nat]
UnkeyedContexts ==
  [keyed : {FALSE}, within : Withins, replay : {FALSE}, poisoned : {TRUE}, readAt : Nat]
Contexts == KeyedContexts \cup UnkeyedContexts
Jobs ==
  {NoJob} \cup [stage : {"open", "write", "rename", "remove"}, key : Keys,
                rec : Recordings, inode : Nat]
Cachers ==
  [chain : Chains, gensym : Nat, stack : Seq(Contexts), job : Jobs]

Stages == {"read", "check", "eval", "nested", "failed"}
Loads ==
  [file : Files, forms : Forms, at : Nat \ {0}, tc : BOOLEAN, stage : Stages,
   said : TypeNames \cup {None}]
SessionStates == [up : BOOLEAN, tc : BOOLEAN, types : Types, loads : Seq(Loads)]

(* ---- properties ------------------------------------------------------------------------------ *)

\* Every value has its type, every directory entry an inode, and a session has
\* one context for each load in progress, whichever way loads end.
TypeOK ==
  /\ disk \in [Files -> Forms \cup {Missing}] /\ moves \in Nat
  /\ session \in [Sessions -> SessionStates] /\ cacher \in [Sessions -> Cachers]
  /\ inodes \in Seq(Recordings \cup {Torn})
  /\ DOMAIN dir \subseteq {"tc", "tmp"} \X Keys
  /\ dir \in [DOMAIN dir -> 1 .. Len(inodes)]
  /\ \A s \in Sessions :
       /\ Depth(s) = Len(session[s].loads)
       /\ session[s].up \/ Free(s)
       /\ Job(s) = NoJob \/ Job(s).stage = "open" \/ Job(s).inode \in DOMAIN inodes

\* Every session loads exactly as it would without a cache: the verdicts it is
\* served are those the types in force would have given ("Same key => same
\* environment => replay is sound", tc_cache.rs:50).
ImplementsLoad == LoadSpec

\* No fresh name is made twice in a session: pinning only moves the counter on.
GensymNeverReused ==
  [][\A s \in Sessions :
       session[s].up /\ session'[s].up => cacher'[s].gensym >= cacher[s].gensym]_vars

\* The pins keep replays aligned: a load that repeats a history some session
\* has recorded is replayed, and a replay serves its recording to the end
\* (where files do not change and loads do not fail).
SameHistory(key1, key2) == [key1 EXCEPT !.gensym = 0] = [key2 EXCEPT !.gensym = 0]
Recorded == {p[2] : p \in {q \in DOMAIN dir : q[1] = "tc"}}
RepeatsReplay ==
  [][\A s \in Sessions :
       Len(cacher'[s].stack) > Depth(s) =>
         LET ctx == cacher'[s].stack[Depth(s) + 1] IN
         ctx.keyed /\ (\E key \in Recorded : Hit(key) /\ SameHistory(key, ctx.key))
           => ctx.replay]_vars
ReplaysAligned ==
  \A s \in Sessions : \A k \in DOMAIN Stack(s) : Stack(s)[k].replay => ~Stack(s)[k].poisoned

\* Two sessions that record one key write, rename and remove one temporary file;
\* that alone leaves no torn file behind.  A torn file, published or not, loses the
\* last session writing it only when that session ends (tc_cache.rs:481).
Orphans ==
  {i \in DOMAIN inodes :
     inodes[i] = Torn /\ ~\E s \in Sessions : Job(s).stage = "write" /\ Job(s).inode = i}
TornOnlyByCrash ==
  [][\A i \in Orphans' \ Orphans : \E s \in Sessions :
       Job(s).stage = "write" /\ Job(s).inode = i /\ ~session'[s].up]_vars

\* A published recording is whole unless a session is still writing it: "so a
\* crash never leaves a torn file behind" (tc_cache.rs:480).
NoTornLeft ==
  \A key \in Recorded :
    \/ Hit(key)
    \/ \E s \in Sessions : Job(s).stage \in {"write", "rename"} /\ Job(s).inode = dir[TcFile(key)]
=============================================================================
