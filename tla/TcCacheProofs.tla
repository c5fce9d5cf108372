---------------------------- MODULE TcCacheProofs ----------------------------
(***************************************************************************)
(* Proofs about TcCache, first part: types, gensyms, and the files that    *)
(* recordings are published in.                                            *)
(***************************************************************************)
EXTENDS TcCache, SequenceTheorems, FiniteSetTheorems, TLAPS

(* ---- least and greatest numbers ---------------------------------------------- *)

LessThan == {ss \in Nat \X Nat : ss[1] < ss[2]}

\* A set of naturals that is not empty has a least element.
LEMMA Least ==
  ASSUME NEW T \in SUBSET Nat, T # {}
  PROVE  \E x \in T : \A y \in T : x <= y
<1>1. LessThan = OpToRel(<, Nat)
  BY DEF LessThan, OpToRel
<1>2. PICK x \in T : \A y \in T : <<y, x>> \notin LessThan
  BY <1>1, NatLessThanWellFounded, WFMin
<1>3. ASSUME NEW y \in T PROVE x <= y
  <2>1. <<y, x>> \notin LessThan /\ y \in Nat /\ x \in Nat
    BY <1>2
  <2> QED BY <2>1 DEF LessThan
<1> QED BY <1>3

\* And a greatest one if it is bounded.
LEMMA Greatest ==
  ASSUME NEW n \in Nat, NEW T \in SUBSET (1 .. n), T # {}
  PROVE  \E x \in T : \A y \in T : y <= x
<1> DEFINE U == {m \in Nat : \A y \in T : y <= m}
<1>1. n \in U
  OBVIOUS
<1>2. PICK u \in U : \A v \in U : u <= v
  BY <1>1, Least
<1>3. u \in T
  <2> SUFFICES ASSUME u \notin T PROVE FALSE
    OBVIOUS
  <2>1. PICK y \in T : TRUE
    OBVIOUS
  <2>2. u - 1 \in U
    BY <1>2, <2>1
  <2> QED BY <2>2, <1>2
<1> QED BY <1>3, <1>2

(* ---- the end of a sequence ----------------------------------------------------- *)

\* The last element of a sequence, another one in its place, and what is before.
LEMMA Last ==
  ASSUME NEW S, NEW q \in Seq(S), q # <<>>
  PROVE  /\ Len(q) \in Nat \ {0} /\ q[Len(q)] \in S
         /\ \A e \in S : /\ [q EXCEPT ![Len(q)] = e] \in Seq(S)
                         /\ Len([q EXCEPT ![Len(q)] = e]) = Len(q)
                         /\ \A i \in 1 .. Len(q) : [q EXCEPT ![Len(q)] = e][i]
                                                    = IF i = Len(q) THEN e ELSE q[i]
         /\ SubSeq(q, 1, Len(q) - 1) \in Seq(S)
         /\ Len(SubSeq(q, 1, Len(q) - 1)) = Len(q) - 1
         /\ \A i \in 1 .. Len(q) - 1 : SubSeq(q, 1, Len(q) - 1)[i] = q[i]
<1>1. Len(q) \in Nat \ {0}
  BY EmptySeq
<1>2. \A i \in 1 .. Len(q) : q[i] \in S
  BY ElementOfSeq
<1>3. ASSUME NEW e \in S
      PROVE  /\ [q EXCEPT ![Len(q)] = e] \in Seq(S)
             /\ Len([q EXCEPT ![Len(q)] = e]) = Len(q)
             /\ \A i \in 1 .. Len(q) : [q EXCEPT ![Len(q)] = e][i]
                                       = IF i = Len(q) THEN e ELSE q[i]
  BY <1>1, ExceptSeq
<1>4. /\ SubSeq(q, 1, Len(q) - 1) \in Seq(S)
      /\ Len(SubSeq(q, 1, Len(q) - 1)) = Len(q) - 1
      /\ \A i \in 1 .. Len(q) - 1 : SubSeq(q, 1, Len(q) - 1)[i] = q[i]
  <2> DEFINE m == Len(q) - 1
  <2>1. m \in Nat /\ Len(q) = m + 1
    BY <1>1
  <2> HIDE DEF m
  <2>2. \A i \in 1 .. m : q[i] \in S
    BY <1>2, <2>1
  <2>3. /\ SubSeq(q, 1, m) \in Seq(S)
        /\ Len(SubSeq(q, 1, m)) = IF 1 <= m THEN m - 1 + 1 ELSE 0
        /\ \A i \in 1 .. m - 1 + 1 : SubSeq(q, 1, m)[i] = q[1 + i - 1]
    BY <2>1, <2>2, SubSeqProperties
  <2>4. \A i \in 1 .. m : i \in 1 .. m - 1 + 1 /\ 1 + i - 1 = i
    BY <2>1
  <2>5. Len(SubSeq(q, 1, m)) = m
    BY <2>1, <2>3
  <2>6. \A i \in 1 .. m : SubSeq(q, 1, m)[i] = q[i]
    BY <2>3, <2>4
  <2> QED BY <2>3, <2>5, <2>6 DEF m
<1> QED BY <1>1, <1>2, <1>3, <1>4

\* A sequence without elements.
LEMMA NoLast ==
  ASSUME NEW S, NEW q \in Seq(S), Len(q) = 0
  PROVE  q = <<>>
BY EmptySeq

(* ---- the loader ------------------------------------------------------------ *)

\* The innermost load of a session that loads.
LEMMA NowType ==
  ASSUME TypeOK, NEW s \in Sessions, Loading(s)
  PROVE  /\ session[s] \in SessionStates /\ session[s].up
         /\ Len(session[s].loads) \in Nat \ {0}
         /\ Now(s) \in Loads
<1>1. session[s] \in SessionStates /\ session[s].loads \in Seq(Loads)
  BY DEF TypeOK, SessionStates
<1>2. Len(session[s].loads) \in Nat \ {0}
  BY <1>1, EmptySeq DEF Loading
<1>3. session[s].loads[Len(session[s].loads)] \in Loads
  BY <1>1, <1>2, ElementOfSeq
<1> QED BY <1>1, <1>2, <1>3 DEF Now, Loading

\* Replaced puts another load in its place.
LEMMA ReplacedType ==
  ASSUME NEW k \in SessionStates, k.loads # <<>>, NEW load \in Loads
  PROVE  /\ Replaced(k, load) \in SessionStates
         /\ Replaced(k, load).up = k.up
         /\ Replaced(k, load).tc = k.tc
         /\ Replaced(k, load).types = k.types
         /\ Replaced(k, load).loads = [k.loads EXCEPT ![Len(k.loads)] = load]
         /\ Len(Replaced(k, load).loads) = Len(k.loads)
<1>1. k.loads \in Seq(Loads) /\ Len(k.loads) \in Nat \ {0}
  BY EmptySeq DEF SessionStates
<1>2. /\ [k.loads EXCEPT ![Len(k.loads)] = load] \in Seq(Loads)
      /\ Len([k.loads EXCEPT ![Len(k.loads)] = load]) = Len(k.loads)
  BY <1>1, ExceptSeq
<1> QED BY <1>2 DEF Replaced, SessionStates

\* The form a load is at.
LEMMA FormType ==
  ASSUME TypeOK, NEW s \in Sessions, Loading(s), More(s)
  PROVE  FormNow(s) \in Form
<1>1. Now(s) \in Loads
  BY NowType
<1>2. Now(s).forms \in Seq(Form) /\ Now(s).at \in 1 .. Len(Now(s).forms)
  BY <1>1, LenProperties DEF Loads, Forms, More
<1> QED BY <1>2, ElementOfSeq DEF FormNow

\* Signatures assumed or taken back leave a table of types.
LEMMA AssumingType ==
  ASSUME NEW types \in Types, NEW forms \in Forms
  PROVE  /\ Assuming(types, forms) \in Types
         /\ Unwinding(types, forms) \in Types
<1>1. ASSUME NEW g \in Names, NEW i \in Signed(forms, g)
      PROVE  i \in 1 .. Len(forms) /\ forms[i].type \in TypeNames
  <2>1. i \in 1 .. Len(forms) /\ forms[i].op = "define"
    BY LenProperties DEF Signed, Forms
  <2>2. forms[i] \in Form
    BY <2>1, ElementOfSeq DEF Forms
  <2> QED BY <2>1, <2>2 DEF Form
<1>2. ASSUME NEW g \in Names, Signed(forms, g) # {}
      PROVE  (CHOOSE i \in Signed(forms, g) : \A j \in Signed(forms, g) : j <= i)
               \in Signed(forms, g)
  <2>1. Len(forms) \in Nat
    BY LenProperties DEF Forms
  <2>2. \E i \in Signed(forms, g) : \A j \in Signed(forms, g) : j <= i
    BY <1>1, <1>2, <2>1, Greatest
  <2> QED BY <2>2
<1> QED BY <1>1, <1>2 DEF Assuming, Unwinding, Types, None

\* A session that starts, or is down.
LEMMA FreshType ==
  ASSUME NEW tc \in BOOLEAN
  PROVE  Fresh(tc) \in SessionStates /\ Down \in SessionStates
BY EmptySeq DEF Fresh, Down, SessionStates, Types, None

\* A load that begins, on its own or in another one.
LEMMA LoadType ==
  ASSUME NEW f \in Files, NEW tc \in BOOLEAN
  PROVE  Load(f, tc) \in Loads
BY EmptySeq DEF Load, Loads, Forms, Stages, None

\* The next form and the error.
LEMMA OnwardType ==
  ASSUME NEW load \in Loads
  PROVE  Onward(load) \in Loads /\ Failed(load) \in Loads
<1>1. ASSUME NEW at \in Nat \ {0}, NEW stage \in Stages
      PROVE  [load EXCEPT !.at = at, !.stage = stage] \in Loads
  BY DEF Loads
<1>2. FirstStage(load) \in Stages /\ load.at + 1 \in Nat \ {0}
  BY DEF FirstStage, Stages, Loads
<1>3. Failed(load) \in Loads
  BY DEF Failed, Loads, Stages
<1> QED BY <1>1, <1>2, <1>3 DEF Onward

\* A load that returned leaves the loads around it.
LEMMA ReturnedType ==
  ASSUME NEW k \in SessionStates, k.loads # <<>>, NEW failed \in BOOLEAN
  PROVE  /\ Returned(k, failed) \in SessionStates
         /\ Returned(k, failed).up = k.up
         /\ Len(Returned(k, failed).loads) = Len(k.loads) - 1
<1> DEFINE n == Len(k.loads)
           outer == SubSeq(k.loads, 1, n - 1)
           parent == outer[Len(outer)]
           next(caught) == IF failed /\ ~caught THEN Failed(parent) ELSE Onward(parent)
<1>1. k.loads \in Seq(Loads) /\ n \in Nat \ {0}
  BY Last DEF SessionStates
<1>2. outer \in Seq(Loads) /\ Len(outer) = n - 1
  BY <1>1, Last
<1>3. ASSUME outer # <<>>, NEW caught
      PROVE  /\ [outer EXCEPT ![Len(outer)] = next(caught)] \in Seq(Loads)
             /\ Len([outer EXCEPT ![Len(outer)] = next(caught)]) = n - 1
  <2>1. parent \in Loads
    BY <1>2, <1>3, Last
  <2>2. next(caught) \in Loads
    BY <2>1, OnwardType
  <2> HIDE DEF outer, next
  <2> QED BY <1>2, <1>3, <2>2, Last
<1>4. outer = <<>> => n - 1 = 0
  BY <1>2, EmptySeq
<1> DEFINE loads == IF outer = <<>> THEN <<>>
                    ELSE [outer EXCEPT ![Len(outer)] = next(parent.forms[parent.at].trapped)]
<1>5. loads \in Seq(Loads) /\ Len(loads) = n - 1
  BY <1>3, <1>4, EmptySeq
<1>6. Returned(k, failed) = [k EXCEPT !.loads = loads]
  BY DEF Returned
<1> QED BY <1>5, <1>6 DEF SessionStates

(* ---- the cache of one session --------------------------------------------------- *)

LEMMA CacherUpdate ==
  ASSUME NEW c \in Cachers, NEW chain \in Chains, NEW gensym \in Nat,
         NEW stack \in Seq(Contexts), NEW job \in Jobs
  PROVE  /\ [c EXCEPT !.gensym = gensym, !.stack = stack] \in Cachers
         /\ [c EXCEPT !.stack = stack] \in Cachers
         /\ [c EXCEPT !.gensym = gensym] \in Cachers
         /\ [c EXCEPT !.job = job] \in Cachers
         /\ [c EXCEPT !.chain = chain, !.gensym = gensym, !.stack = stack, !.job = job]
              \in Cachers
BY DEF Cachers

\* A context is poisoned and stays a context.
LEMMA PoisonedType ==
  ASSUME NEW ctx \in Contexts
  PROVE  [ctx EXCEPT !.poisoned = TRUE] \in Contexts
BY DEF Contexts, KeyedContexts, UnkeyedContexts

LEMMA PoisonedTopType ==
  ASSUME NEW stack \in Seq(Contexts)
  PROVE  /\ PoisonedTop(stack) \in Seq(Contexts)
         /\ Len(PoisonedTop(stack)) = Len(stack)
<1>1. CASE stack = <<>>
  BY <1>1 DEF PoisonedTop
<1>2. CASE stack # <<>>
  <2>1. stack[Len(stack)] \in Contexts
    BY <1>2, Last
  <2>2. [stack[Len(stack)] EXCEPT !.poisoned = TRUE] \in Contexts
    BY <2>1, PoisonedType
  <2>3. PoisonedTop(stack)
          = [stack EXCEPT ![Len(stack)] = [stack[Len(stack)] EXCEPT !.poisoned = TRUE]]
    BY <1>2 DEF PoisonedTop
  <2> QED BY <1>2, <2>2, <2>3, Last
<1> QED BY <1>1, <1>2

\* A file that hits holds a recording.
LEMMA HitType ==
  ASSUME TypeOK, NEW key, Hit(key)
  PROVE  Recording(key) \in Recordings
<1>1. dir[TcFile(key)] \in 1 .. Len(inodes)
  BY DEF Hit, TypeOK
<1>2. inodes[dir[TcFile(key)]] \in Recordings \cup {Torn}
  BY <1>1, ElementOfSeq DEF TypeOK
<1> QED BY <1>2 DEF Hit, Recording

LEMMA EnclosingType ==
  ASSUME NEW stack \in Seq(Contexts)
  PROVE  Enclosing(stack) \in Withins
<1>1. CASE stack = <<>>
  BY <1>1, EmptySeq DEF Enclosing, Withins
<1>2. CASE stack # <<>>
  <2> DEFINE top == stack[Len(stack)]
  <2>1. top \in Contexts
    BY <1>2, Last
  <2>2. CASE top.keyed
    <3>1. top \in KeyedContexts
      BY <2>1, <2>2 DEF Contexts, UnkeyedContexts
    <3>2. top.key.within \in Withins /\ <<top.hash, top.digest>> \in Forms \X Digests
      BY <3>1 DEF KeyedContexts, Keys
    <3>3. Append(top.key.within, <<top.hash, top.digest>>) \in Withins
      BY <3>2, AppendProperties DEF Withins
    <3> QED BY <1>2, <2>2, <3>3 DEF Enclosing
  <2>3. CASE ~top.keyed
    <3>1. top \in UnkeyedContexts
      BY <2>1, <2>3 DEF Contexts, KeyedContexts
    <3> QED BY <1>2, <2>3, <3>1 DEF Enclosing, UnkeyedContexts
  <2> QED BY <2>2, <2>3
<1> QED BY <1>1, <1>2

LEMMA KeyType ==
  ASSUME NEW c \in Cachers, NEW content \in Forms, NEW tc \in BOOLEAN
  PROVE  Key(c, content, tc) \in Keys
<1>1. Enclosing(c.stack) \in Withins
  BY EnclosingType DEF Cachers
<1> QED BY <1>1 DEF Key, Keys, Cachers

LEMMA PinnedType ==
  ASSUME NEW gensym \in Nat, NEW to \in Nat
  PROVE  Pinned(gensym, to) \in Nat /\ Pinned(gensym, to) >= gensym
BY DEF Pinned

\* A context begins, to be recorded or replayed.
LEMMA ContextType ==
  ASSUME NEW key \in Keys, NEW content \in Forms, NEW tc \in BOOLEAN, NEW gensym \in Nat
  PROVE  /\ Context(key, content, tc, gensym) \in KeyedContexts
         /\ \A rec \in Recordings :
              Replaying(Context(key, content, tc, gensym), rec) \in KeyedContexts
<1> DEFINE ctx == Context(key, content, tc, gensym)
<1>1. ctx \in KeyedContexts
  BY EmptySeq DEF Context, KeyedContexts, Digests
<1>2. ASSUME NEW rec \in Recordings
      PROVE  Replaying(ctx, rec) \in KeyedContexts
  <2> HIDE DEF ctx
  <2>1. Pinned(ctx.start, rec.start) \in Nat
    BY <1>1, PinnedType DEF KeyedContexts, Recordings
  <2>2. ASSUME NEW start \in Nat
        PROVE  [ctx EXCEPT !.replay = TRUE, !.start = start, !.end = rec.end,
                           !.entries = rec.entries, !.ckpt = rec.ckpt] \in KeyedContexts
    BY <1>1 DEF KeyedContexts, Recordings
  <2> QED BY <2>1, <2>2 DEF Replaying
<1> QED BY <1>1, <1>2

\* load_wrapper on its way in: one context more.
LEMMA EnteredType ==
  ASSUME TypeOK, NEW c \in Cachers, NEW content \in Forms \cup {Missing}, NEW tc \in BOOLEAN
  PROVE  /\ Entered(c, content, tc) \in Cachers
         /\ Len(Entered(c, content, tc).stack) = Len(c.stack) + 1
         /\ Entered(c, content, tc).job = c.job
         /\ Entered(c, content, tc).gensym >= c.gensym
<1> DEFINE key == Key(c, content, tc)
           ctx == Context(key, content, tc, c.gensym)
           e == Entered(c, content, tc)
<1>1. /\ c.stack \in Seq(Contexts) /\ c.gensym \in Nat /\ c.gensym >= c.gensym
      /\ Len(c.stack) \in Nat
  BY LenProperties DEF Cachers
<1>2. CASE content = Missing
  <2> DEFINE stack == Append(PoisonedTop(c.stack), Unkeyed(Enclosing(c.stack)))
  <2>1. Unkeyed(Enclosing(c.stack)) \in Contexts
    BY <1>1, EnclosingType DEF Unkeyed, UnkeyedContexts, Contexts
  <2>2. stack \in Seq(Contexts) /\ Len(stack) = Len(c.stack) + 1
    BY <1>1, <2>1, PoisonedTopType, AppendProperties
  <2>3. e = [c EXCEPT !.stack = stack]
    BY <1>2 DEF Entered
  <2> HIDE DEF stack, e
  <2>4. e \in Cachers /\ e.stack = stack /\ e.job = c.job /\ e.gensym = c.gensym
    BY <2>2, <2>3, CacherUpdate DEF Cachers
  <2> QED BY <1>1, <2>2, <2>4 DEF e
<1>3. CASE content # Missing /\ Hit(key)
  <2> DEFINE rec == Recording(key)
             gensym == Pinned(c.gensym, rec.start)
             stack == Append(c.stack, Replaying(ctx, rec))
  <2>1. rec \in Recordings /\ key \in Keys
    BY <1>3, HitType, KeyType
  <2>2. Replaying(ctx, rec) \in Contexts
    BY <1>1, <1>3, <2>1, ContextType DEF Contexts
  <2>3. gensym \in Nat /\ gensym >= c.gensym
    BY <1>1, <2>1, PinnedType DEF Recordings
  <2>4. stack \in Seq(Contexts) /\ Len(stack) = Len(c.stack) + 1
    BY <1>1, <2>2, AppendProperties
  <2>5. e = [c EXCEPT !.gensym = gensym, !.stack = stack]
    BY <1>3 DEF Entered
  <2> HIDE DEF stack, e, gensym
  <2>6. e \in Cachers /\ e.stack = stack /\ e.job = c.job /\ e.gensym = gensym
    BY <2>3, <2>4, <2>5, CacherUpdate DEF Cachers
  <2> QED BY <2>3, <2>4, <2>6 DEF e
<1>4. CASE content # Missing /\ ~Hit(key)
  <2> DEFINE stack == Append(c.stack, ctx)
  <2>1. ctx \in Contexts
    BY <1>1, <1>4, KeyType, ContextType DEF Contexts
  <2>2. stack \in Seq(Contexts) /\ Len(stack) = Len(c.stack) + 1
    BY <1>1, <2>1, AppendProperties
  <2>3. e = [c EXCEPT !.stack = stack]
    BY <1>4 DEF Entered
  <2> HIDE DEF stack, e
  <2>4. e \in Cachers /\ e.stack = stack /\ e.job = c.job /\ e.gensym = c.gensym
    BY <2>2, <2>3, CacherUpdate DEF Cachers
  <2> QED BY <1>1, <2>2, <2>4 DEF e
<1> QED BY <1>2, <1>3, <1>4

LEMMA CheckpointedType ==
  ASSUME NEW ctx \in Contexts, NEW chain \in Chains
  PROVE  Checkpointed(ctx, chain) \in Contexts
<1>1. CASE ~ctx.keyed
  BY <1>1 DEF Checkpointed
<1>2. CASE ctx.keyed
  <2> DEFINE p == [ctx EXCEPT !.digest = Append(@, chain)]
  <2>1. ctx \in KeyedContexts
    BY <1>2 DEF Contexts, UnkeyedContexts
  <2>2. Append(ctx.digest, chain) \in Digests
    BY <2>1, AppendProperties DEF KeyedContexts, Digests
  <2>3. p \in KeyedContexts
    BY <2>1, <2>2 DEF KeyedContexts
  <2> HIDE DEF p
  <2>4. Append(p.ckpt, chain) \in Seq(Chains) /\ p.ckptCursor + 1 \in Nat \ {0}
    BY <2>3, AppendProperties DEF KeyedContexts
  <2>5. \A q \in Seq(Chains), m \in Nat \ {0} :
          /\ [p EXCEPT !.ckpt = q] \in KeyedContexts
          /\ [p EXCEPT !.ckptCursor = m] \in KeyedContexts
          /\ [p EXCEPT !.poisoned = TRUE] \in KeyedContexts
    BY <2>3 DEF KeyedContexts
  <2>6. /\ [p EXCEPT !.ckpt = Append(p.ckpt, chain)] \in Contexts
        /\ [p EXCEPT !.ckptCursor = p.ckptCursor + 1] \in Contexts
        /\ [p EXCEPT !.poisoned = TRUE] \in Contexts
    BY <2>4, <2>5 DEF Contexts
  <2> QED BY <1>2, <2>6 DEF Checkpointed, p
<1> QED BY <1>1, <1>2

\* load_wrapper on its way out: one context less, and perhaps a recording.
LEMMA CompletedType ==
  ASSUME NEW c \in Cachers, c.stack # <<>>
  PROVE  /\ Completed(c) \in Cachers
         /\ Len(Completed(c).stack) = Len(c.stack) - 1
         /\ Completed(c).job \in {c.job, NoJob} \/ Completed(c).job.stage = "open"
         /\ Completed(c).gensym >= c.gensym
<1> DEFINE n == Len(c.stack)
           ctx == c.stack[n]
           chain == Append(c.chain, [file |-> ctx.hash, tc |-> ctx.tc])
           outer == SubSeq(c.stack, 1, n - 1)
           rec == [start |-> ctx.start, end |-> c.gensym,
                   entries |-> ctx.entries, ckpt |-> ctx.ckpt]
           e == Completed(c)
<1>1. /\ c.stack \in Seq(Contexts) /\ c.gensym \in Nat /\ c.gensym >= c.gensym
      /\ c.chain \in Chains
  BY DEF Cachers
<1>2. /\ n \in Nat \ {0} /\ ctx \in Contexts
      /\ outer \in Seq(Contexts) /\ Len(outer) = n - 1
  BY <1>1, Last
<1>3. CASE ~ctx.keyed
  <2>1. e = [c EXCEPT !.stack = outer]
    BY <1>3 DEF Completed
  <2> HIDE DEF outer, e
  <2>2. e \in Cachers /\ e.stack = outer /\ e.job = c.job /\ e.gensym = c.gensym
    BY <1>2, <2>1, CacherUpdate DEF Cachers
  <2> QED BY <1>1, <1>2, <2>2 DEF e
<1>4. CASE ctx.keyed
  <2> DEFINE gensym == IF ctx.replay THEN Pinned(c.gensym, ctx.end) ELSE c.gensym
             stack == IF outer = <<>> THEN <<>>
                      ELSE [outer EXCEPT ![n - 1] = Checkpointed(outer[n - 1], chain)]
             open == [stage |-> "open", key |-> ctx.key, rec |-> rec, inode |-> 0]
             job == IF ctx.replay \/ ctx.poisoned THEN NoJob ELSE open
  <2>1. ctx \in KeyedContexts
    BY <1>2, <1>4 DEF Contexts, UnkeyedContexts
  <2>2. chain \in Chains
    <3>1. [file |-> ctx.hash, tc |-> ctx.tc] \in [file : Forms, tc : BOOLEAN]
      BY <2>1 DEF KeyedContexts
    <3> QED BY <1>1, <3>1, AppendProperties DEF Chains
  <2>3. gensym \in Nat /\ gensym >= c.gensym
    <3>1. ctx.end \in Nat
      BY <2>1 DEF KeyedContexts
    <3> QED BY <1>1, <3>1, PinnedType
  <2>4. stack \in Seq(Contexts) /\ Len(stack) = n - 1
    <3>1. CASE outer = <<>>
      BY <1>2, <3>1, EmptySeq
    <3>2. CASE outer # <<>>
      <4>1. outer[Len(outer)] \in Contexts
        BY <1>2, <3>2, Last
      <4>2. Checkpointed(outer[n - 1], chain) \in Contexts
        BY <1>2, <2>2, <4>1, CheckpointedType
      <4> HIDE DEF outer, chain
      <4> QED BY <1>2, <3>2, <4>2, Last
    <3> QED BY <3>1, <3>2
  <2>5. rec \in Recordings
    BY <1>1, <2>1 DEF Recordings, KeyedContexts
  <2>6. open \in Jobs /\ open.stage = "open"
    <3> HIDE DEF rec, ctx
    <3> QED BY <2>1, <2>5 DEF Jobs, KeyedContexts
  <2>7. job \in Jobs /\ (job = NoJob \/ job.stage = "open")
    BY <2>6 DEF Jobs
  <2>8. e = [c EXCEPT !.chain = chain, !.gensym = gensym, !.stack = stack, !.job = job]
    BY <1>4 DEF Completed
  <2> HIDE DEF stack, e, gensym, chain, job
  <2>9. e \in Cachers /\ e.stack = stack /\ e.job = job /\ e.gensym = gensym
    BY <2>2, <2>3, <2>4, <2>7, <2>8, CacherUpdate DEF Cachers
  <2> QED BY <1>2, <2>3, <2>4, <2>7, <2>9 DEF e
<1> QED BY <1>3, <1>4

LEMMA AbandonedType ==
  ASSUME NEW c \in Cachers, c.stack # <<>>
  PROVE  /\ Abandoned(c) \in Cachers
         /\ Len(Abandoned(c).stack) = Len(c.stack) - 1
         /\ Abandoned(c).job = c.job /\ Abandoned(c).gensym >= c.gensym
<1> DEFINE outer == SubSeq(c.stack, 1, Len(c.stack) - 1)
           stack == PoisonedTop(outer)
           e == Abandoned(c)
<1>1. c.stack \in Seq(Contexts) /\ c.gensym \in Nat /\ c.gensym >= c.gensym
  BY DEF Cachers
<1>2. outer \in Seq(Contexts) /\ Len(outer) = Len(c.stack) - 1
  BY <1>1, Last
<1>3. stack \in Seq(Contexts) /\ Len(stack) = Len(c.stack) - 1
  BY <1>2, PoisonedTopType
<1>4. e = [c EXCEPT !.stack = stack]
  BY DEF Abandoned
<1> HIDE DEF stack, e
<1>5. e \in Cachers /\ e.stack = stack /\ e.job = c.job /\ e.gensym = c.gensym
  BY <1>3, <1>4, CacherUpdate DEF Cachers
<1> QED BY <1>1, <1>3, <1>5 DEF e

(* ---- typecheck_wrapper ----------------------------------------------------------- *)

LEMMA VerdictType ==
  ASSUME NEW form \in Form, NEW types \in Types
  PROVE  Verdict(form, types) \in TypeNames \cup {None}
<1>1. "symbol" \in TypeNames
  BY LoadAssumption
<1>2. CASE form.op \in {"use", "opaque"}
  <2>1. form.g \in Names
    BY <1>2 DEF Form
  <2> QED BY <1>2, <2>1 DEF Verdict, Types
<1>3. CASE form.op = "define"
  <2>1. form.type \in TypeNames
    BY <1>3 DEF Form
  <2> QED BY <1>3, <2>1 DEF Verdict
<1>4. CASE form.op \notin {"use", "opaque", "define"}
  BY <1>1, <1>4 DEF Verdict
<1> QED BY <1>2, <1>3, <1>4

\* What reading, checking and evaluating cost in fresh names.
LEMMA CostType ==
  /\ \A form \in Form : CostOfCheck(form) \in Nat /\ CostOfEval(form) \in Nat
  /\ \A forms \in Forms, tc \in BOOLEAN : CostOfRead(forms, tc) \in Nat
<1>1. \A form \in Form : CostOfCheck(form) \in Nat /\ CostOfEval(form) \in Nat
  BY DEF CostOfCheck, CostOfEval
<1>2. ASSUME NEW forms \in Forms, NEW tc \in BOOLEAN
      PROVE  CostOfRead(forms, tc) \in Nat
  <2> DEFINE costly == {i \in DOMAIN forms :
                          forms[i].op = "macro" \/ (tc /\ forms[i].op = "define")}
  <2>1. DOMAIN forms = 1 .. Len(forms) /\ Len(forms) \in Nat
    BY LenProperties DEF Forms
  <2>2. IsFiniteSet(DOMAIN forms)
    BY <2>1, FS_Interval
  <2>3. Cardinality(costly) \in Nat
    BY <2>2, FS_Subset, FS_CardinalityType
  <2> QED BY <2>3 DEF CostOfRead
<1> QED BY <1>1, <1>2

LEMMA ArgHashType ==
  ASSUME NEW form \in Form, NEW ctx \in Contexts
  PROVE  ArgHash(form, ctx) \in Hashes
<1>1. ctx.readAt \in Nat
  BY DEF Contexts, KeyedContexts, UnkeyedContexts
<1>2. NoHash \in Hashes
  BY EmptySeq DEF NoHash, Hashes
<1> DEFINE S == Form \cup [at : Nat]
<1>3. form \in S /\ [at |-> ctx.readAt] \in S
  BY <1>1
<1> HIDE DEF S
<1>4. <<form>> \in Seq(S) /\ <<form, [at |-> ctx.readAt]>> \in Seq(S)
  BY <1>3
<1>5. <<form>> \in Hashes /\ <<form, [at |-> ctx.readAt]>> \in Hashes
  BY <1>4 DEF S, Hashes
<1> QED BY <1>2, <1>5 DEF ArgHash

\* Its answer: a type or None, and the same contexts with another one on top.
LEMMA CheckingType ==
  ASSUME NEW c \in Cachers, c.stack # <<>>, NEW form \in Form, NEW types \in Types
  PROVE  LET answer == Checking(c, form, types) IN
         /\ answer.verdict \in TypeNames \cup {None}
         /\ answer.cacher \in Cachers
         /\ Len(answer.cacher.stack) = Len(c.stack)
         /\ answer.cacher.job = c.job /\ answer.cacher.gensym >= c.gensym
<1> DEFINE n == Len(c.stack)
           ctx == c.stack[n]
           hash == ArgHash(form, ctx)
           entry == ctx.entries[ctx.cursor]
           real == Verdict(form, types)
           spent == c.gensym + CostOfCheck(form)
           verdict == IF hash = NoHash \/ real = None THEN None ELSE real
           recorded == [hash |-> hash, val |-> verdict, gensymAfter |-> spent]
           digested == Digested(ctx, hash)
           consumed == [digested EXCEPT !.cursor = @ + 1]
           Answer(v, gensym, top) ==
             [verdict |-> v, cacher |-> [c EXCEPT !.gensym = gensym, !.stack[n] = top]]
           Good(a) == /\ a.verdict \in TypeNames \cup {None}
                      /\ a.cacher \in Cachers
                      /\ Len(a.cacher.stack) = Len(c.stack)
                      /\ a.cacher.job = c.job /\ a.cacher.gensym >= c.gensym
<1>1. c.stack \in Seq(Contexts) /\ c.gensym \in Nat
  BY DEF Cachers
<1>2. ctx \in Contexts
  BY <1>1, Last
<1>3. real \in TypeNames \cup {None} /\ spent \in Nat /\ spent >= c.gensym /\ hash \in Hashes
  BY <1>1, <1>2, VerdictType, CostType, ArgHashType
<1>4. ASSUME NEW v \in TypeNames \cup {None}, NEW gensym \in Nat, gensym >= c.gensym,
             NEW top \in Contexts
      PROVE  Good(Answer(v, gensym, top))
  <2> DEFINE d == [c EXCEPT !.gensym = gensym, !.stack[n] = top]
             stack == [c.stack EXCEPT ![n] = top]
  <2>0. d = [c EXCEPT !.gensym = gensym, !.stack = stack]
    OBVIOUS
  <2>1. stack \in Seq(Contexts) /\ Len(stack) = n
    BY <1>1, <1>4, Last
  <2> HIDE DEF d, stack
  <2>3. d \in Cachers /\ d.stack = stack /\ d.job = c.job /\ d.gensym = gensym
    BY <1>4, <2>0, <2>1, CacherUpdate DEF Cachers
  <2>2. Good([verdict |-> v, cacher |-> d])
    BY <1>4, <2>1, <2>3
  <2> QED BY <2>2 DEF d
<1> SUFFICES Good(Checking(c, form, types))
  OBVIOUS
<1> HIDE DEF Good, Answer
<1>5. CASE ctx.poisoned
  <2>1. Checking(c, form, types) = Answer(real, spent, ctx)
    BY <1>5 DEF Checking, Answer
  <2> QED BY <1>2, <1>3, <1>4, <2>1
<1>6. CASE ~ctx.poisoned
  <2>1. ctx \in KeyedContexts
    BY <1>2, <1>6 DEF Contexts, UnkeyedContexts
  <2>2. Append(ctx.digest, hash) \in Digests
    BY <1>3, <2>1, AppendProperties DEF KeyedContexts, Digests
  <2>3. digested \in KeyedContexts
    BY <2>1, <2>2 DEF KeyedContexts, Digested
  <2>4. CASE ~ctx.replay
    <3> DEFINE top == [digested EXCEPT !.entries = Append(@, recorded)]
    <3>1. recorded \in Entries
      <4> HIDE DEF hash, real, spent
      <4> QED BY <1>3 DEF Entries
    <3>2. Append(digested.entries, recorded) \in Seq(Entries)
      BY <2>3, <3>1, AppendProperties DEF KeyedContexts
    <3>3. top \in Contexts
      <4> HIDE DEF digested, recorded
      <4> QED BY <2>3, <3>2 DEF KeyedContexts, Contexts
    <3>4. Checking(c, form, types) = Answer(real, spent, top)
      BY <1>6, <2>4 DEF Checking, Answer
    <3> QED BY <1>3, <1>4, <3>3, <3>4
  <2>5. CASE ctx.replay /\ ~Matches(ctx, hash)
    <3>1. [ctx EXCEPT !.poisoned = TRUE] \in Contexts
      BY <1>2, PoisonedType
    <3>2. Checking(c, form, types) = Answer(real, spent, [ctx EXCEPT !.poisoned = TRUE])
      BY <1>6, <2>5 DEF Checking, Answer
    <3> QED BY <1>3, <1>4, <3>1, <3>2
  <2>6. CASE ctx.replay /\ Matches(ctx, hash)
    <3>1. consumed \in Contexts
      <4>1. digested.cursor + 1 \in Nat \ {0}
        BY <2>3 DEF KeyedContexts
      <4> HIDE DEF digested
      <4>2. \A m \in Nat \ {0} : [digested EXCEPT !.cursor = m] \in KeyedContexts
        BY <2>3 DEF KeyedContexts
      <4> QED BY <4>1, <4>2 DEF Contexts
    <3>2. entry \in Entries
      <4>1. ctx.entries \in Seq(Entries) /\ ctx.cursor \in DOMAIN ctx.entries
        BY <2>1, <2>6 DEF KeyedContexts, Matches
      <4> QED BY <4>1, ElementOfSeq, LenProperties
    <3>3. /\ entry.val \in TypeNames \cup {None}
          /\ PinAfter(c.gensym, entry) \in Nat /\ PinAfter(c.gensym, entry) >= c.gensym
      BY <1>1, <3>2, PinnedType DEF Entries, PinAfter
    <3>4. CASE entry.val = None
      <4>1. Checking(c, form, types) = Answer(real, spent, consumed)
        BY <1>6, <2>6, <3>4 DEF Checking, Answer
      <4> QED BY <1>3, <1>4, <3>1, <4>1
    <3>5. CASE entry.val # None
      <4>1. Checking(c, form, types) = Answer(entry.val, PinAfter(c.gensym, entry), consumed)
        BY <1>6, <2>6, <3>5 DEF Checking, Answer
      <4> QED BY <1>4, <3>1, <3>3, <4>1
    <3> QED BY <3>4, <3>5
  <2> QED BY <2>4, <2>5, <2>6
<1> QED BY <1>5, <1>6

(* ---- type correctness --------------------------------------------------------------- *)

\* No counter of a session that stays up goes back.
GensymsOnward ==
  \A s \in Sessions :
    session[s].up /\ session'[s].up => cacher'[s].gensym >= cacher[s].gensym

LEMMA SessionType ==
  ASSUME TypeOK, NEW s \in Sessions
  PROVE  /\ session[s] \in SessionStates /\ cacher[s] \in Cachers
         /\ Len(cacher[s].stack) = Len(session[s].loads)
         /\ session[s].loads # <<>> => cacher[s].stack # <<>>
         /\ session[s].loads = <<>> => cacher[s].stack = <<>>
<1>1. session[s] \in SessionStates /\ cacher[s] \in Cachers
  BY DEF TypeOK
<1>2. session[s].loads \in Seq(Loads) /\ cacher[s].stack \in Seq(Contexts)
  BY <1>1 DEF SessionStates, Cachers
<1>3. Len(cacher[s].stack) = Len(session[s].loads)
  BY DEF TypeOK, Depth, Stack
<1> QED BY <1>1, <1>2, <1>3, EmptySeq

\* No step but a crash or a writer's own takes a recording off its way to the disk.
Holding(s) == Job(s).stage \in {"write", "rename", "remove"}
JobsStand ==
  /\ UNCHANGED <<dir, inodes>>
  /\ \A s \in Sessions : \/ Job(s)' = Job(s)
                         \/ ~Holding(s)' /\ (Free(s) \/ Start(s) \/ Stop(s))

\* A step of one session that leaves the cache directory alone.
LEMMA OneSessionType ==
  ASSUME TypeOK, NEW s \in Sessions, NEW k \in SessionStates, NEW c \in Cachers,
         Begin(s, k), Caches(s, c), UNCHANGED disk, moves' \in Nat,
         Len(c.stack) = Len(k.loads), k.up \/ c.job = NoJob,
         c.job \in {NoJob, Job(s)} \/ c.job.stage = "open",
         k.up /\ session[s].up => c.gensym >= cacher[s].gensym,
         c.job # Job(s) => Free(s) \/ Start(s) \/ Stop(s)
  PROVE  TypeOK' /\ GensymsOnward /\ JobsStand
<1>1. session \in [Sessions -> SessionStates] /\ cacher \in [Sessions -> Cachers]
  BY DEF TypeOK
<1>2. /\ session' = [session EXCEPT ![s] = k] /\ cacher' = [cacher EXCEPT ![s] = c]
      /\ UNCHANGED <<disk, dir, inodes>>
  BY DEF Begin, Caches
<1>3. session' \in [Sessions -> SessionStates] /\ cacher' \in [Sessions -> Cachers]
  BY <1>1, <1>2
<1>4. /\ session'[s] = k /\ cacher'[s] = c
      /\ \A t \in Sessions \ {s} : session'[t] = session[t] /\ cacher'[t] = cacher[t]
  BY <1>1, <1>2
<1>5. ASSUME NEW t \in Sessions
      PROVE  /\ Depth(t)' = Len(session'[t].loads)
             /\ Job(t)' = NoJob \/ Job(t)'.stage = "open" \/ Job(t)'.inode \in DOMAIN inodes'
             /\ session'[t].up \/ Free(t)'
             /\ session[t].up /\ session'[t].up => cacher'[t].gensym >= cacher[t].gensym
  <2>1. /\ Len(cacher[t].stack) = Len(session[t].loads) /\ cacher[t].gensym \in Nat
        /\ Job(t) = NoJob \/ Job(t).stage = "open" \/ Job(t).inode \in DOMAIN inodes
        /\ session[t].up \/ Free(t)
    BY SessionType DEF TypeOK, Cachers
  <2> QED BY <1>2, <1>4, <2>1 DEF Depth, Stack, Job, Free
<1>6. JobsStand
  <2>1. c.job \in {NoJob, Job(s)} \/ c.job.stage = "open"
    OBVIOUS
  <2> QED BY <1>2, <1>4, <2>1 DEF JobsStand, Job, Holding, NoJob
<1> QED BY <1>2, <1>3, <1>5, <1>6 DEF TypeOK, GensymsOnward

LEMMA ContentType ==
  ASSUME TypeOK, NEW f \in Files
  PROVE  /\ disk[f] \in Forms \cup {Missing}
         /\ moves \in Nat /\ (Moving => moves' \in Nat)
BY DEF TypeOK, Moving

LEMMA StartType ==
  ASSUME TypeOK, NEW s \in Sessions, Start(s)
  PROVE  TypeOK' /\ GensymsOnward /\ JobsStand
<1>1. Idle \in Cachers /\ Len(Idle.stack) = 0 /\ Idle.job = NoJob
  BY EmptySeq DEF Idle, Cachers, Jobs, NoJob, Chains
<1>2. PICK tc \in TcModes : Begin(s, Fresh(tc))
  BY DEF Start, StartSession
<1>3. Fresh(tc) \in SessionStates /\ Len(Fresh(tc).loads) = 0 /\ Fresh(tc).up
  BY FreshType, LoadAssumption, EmptySeq DEF Fresh
<1>4. ~session[s].up /\ UNCHANGED <<disk, moves>> /\ moves \in Nat
  BY DEF Start, StartSession, TypeOK
<1> HIDE DEF Idle
<1> QED BY <1>1, <1>2, <1>3, <1>4, OneSessionType DEF Start

LEMMA StopType ==
  ASSUME TypeOK, NEW s \in Sessions, Stop(s)
  PROVE  TypeOK' /\ GensymsOnward /\ JobsStand
<1>1. Idle \in Cachers /\ Len(Idle.stack) = 0 /\ Idle.job = NoJob
  BY EmptySeq DEF Idle, Cachers, Jobs, NoJob, Chains
<1>2. Down \in SessionStates /\ Len(Down.loads) = 0 /\ ~Down.up
  BY FreshType, EmptySeq DEF Fresh, Down
<1>3. moves' \in Nat /\ UNCHANGED disk /\ Begin(s, Down) /\ Caches(s, Idle)
  BY DEF Stop, Crash, Moving, TypeOK
<1> HIDE DEF Idle, Down
<1> QED BY <1>1, <1>2, <1>3, OneSessionType

LEMMA LoadTopType ==
  ASSUME TypeOK, NEW s \in Sessions, NEW f \in Files, LoadTop(s, f)
  PROVE  TypeOK' /\ GensymsOnward /\ JobsStand
<1> DEFINE k == Begun(s, f)
           c == Entered(cacher[s], disk[f], session[s].tc)
<1>1. /\ session[s] \in SessionStates /\ cacher[s] \in Cachers
      /\ session[s].loads = <<>> /\ session[s].up
  BY SessionType DEF LoadTop, LoadFile
<1>2. k \in SessionStates /\ Len(k.loads) = Len(session[s].loads) + 1 /\ k.up
  <2> DEFINE loads == Append(session[s].loads, Load(f, session[s].tc))
  <2>1. loads \in Seq(Loads) /\ Len(loads) = Len(session[s].loads) + 1
    BY <1>1, LoadType, AppendProperties DEF SessionStates
  <2>2. k = [session[s] EXCEPT !.loads = loads]
    BY DEF Begun
  <2> HIDE DEF loads, k
  <2> QED BY <1>1, <2>1, <2>2 DEF SessionStates
<1>3. /\ c \in Cachers /\ Len(c.stack) = Len(cacher[s].stack) + 1
      /\ c.job = Job(s) /\ c.gensym >= cacher[s].gensym
  BY <1>1, ContentType, EnteredType DEF SessionStates, Job
<1>4. Begin(s, k) /\ Caches(s, c) /\ UNCHANGED disk /\ moves' \in Nat
  BY ContentType DEF LoadTop, LoadFile
<1> HIDE DEF k, c
<1>5. Len(c.stack) = Len(k.loads)
  BY <1>2, <1>3, SessionType
<1> QED BY <1>2, <1>3, <1>4, <1>5, OneSessionType DEF LoadTop

LEMMA ReadType ==
  ASSUME TypeOK, NEW s \in Sessions, Read(s)
  PROVE  TypeOK' /\ GensymsOnward /\ JobsStand
<1> DEFINE forms == disk[Now(s).file]
           now == Now(s)
           gensym == cacher[s].gensym
           spent == IF forms = Missing THEN 0 ELSE CostOfRead(forms, Now(s).tc)
           k == AfterRead(s)
           top == [cacher[s].stack[Depth(s)] EXCEPT !.readAt = gensym]
           stack == [cacher[s].stack EXCEPT ![Depth(s)] = top]
           c == [cacher[s] EXCEPT !.stack[Depth(s)].readAt = gensym, !.gensym = @ + spent]
<1>1. Loading(s) /\ session[s].loads # <<>> /\ session[s].up
  BY DEF Read, ReadForms, AtStage, Loading
<1>2. now \in Loads /\ session[s] \in SessionStates /\ forms \in Forms \cup {Missing}
  BY <1>1, NowType, ContentType DEF Loads
<1>3. /\ cacher[s] \in Cachers /\ cacher[s].stack # <<>> /\ gensym \in Nat
      /\ cacher[s].stack \in Seq(Contexts)
  BY <1>1, SessionType DEF Cachers
<1>4. k \in SessionStates /\ Len(k.loads) = Len(session[s].loads) /\ k.up
  <2>1. CASE forms = Missing
    <3>1. Failed(now) \in Loads
      BY <1>2, OnwardType
    <3>2. k = Replaced(session[s], Failed(now))
      BY <2>1 DEF AfterRead
    <3> HIDE DEF k
    <3> QED BY <1>1, <1>2, <3>1, <3>2, ReplacedType
  <2>2. CASE forms # Missing
    <3> DEFINE load == [now EXCEPT !.forms = forms, !.stage = FirstStage(now)]
               r == Replaced(session[s], load)
               types == IF load.tc THEN Assuming(r.types, forms) ELSE r.types
    <3>1. load \in Loads
      <4>1. FirstStage(now) \in Stages
        BY DEF FirstStage, Stages
      <4> HIDE DEF now, forms
      <4> QED BY <1>2, <2>2, <4>1 DEF Loads
    <3>2. k = [r EXCEPT !.types = types]
      BY <2>2 DEF AfterRead
    <3> HIDE DEF load
    <3>3. r \in SessionStates /\ Len(r.loads) = Len(session[s].loads) /\ r.up
      BY <1>1, <1>2, <3>1, ReplacedType
    <3> HIDE DEF r, forms, k
    <3>4. types \in Types
      BY <1>2, <2>2, <3>3, AssumingType DEF SessionStates
    <3> HIDE DEF types
    <3> QED BY <3>2, <3>3, <3>4 DEF SessionStates
  <2> QED BY <2>1, <2>2
<1>5. spent \in Nat
  BY <1>2, CostType DEF Loads
<1>6. top \in Contexts
  <2> DEFINE ctx == cacher[s].stack[Depth(s)]
  <2>1. ctx \in Contexts
    BY <1>3, Last DEF Depth, Stack
  <2> HIDE DEF ctx, gensym
  <2>2. [ctx EXCEPT !.readAt = gensym] \in Contexts
    BY <1>3, <2>1 DEF Contexts, KeyedContexts, UnkeyedContexts
  <2> QED BY <2>2 DEF ctx, gensym
<1>7. stack \in Seq(Contexts) /\ Len(stack) = Depth(s)
  <2> HIDE DEF top
  <2> QED BY <1>3, <1>6, Last DEF Depth, Stack
<1>8. c = [cacher[s] EXCEPT !.gensym = gensym + spent, !.stack = stack]
  OBVIOUS
<1>9. Begin(s, k) /\ Caches(s, c) /\ UNCHANGED disk /\ moves' \in Nat
  BY DEF Read, ReadForms, Working, TypeOK
<1> HIDE DEF stack, c, spent, k
<1>10. c \in Cachers /\ c.stack = stack /\ c.job = Job(s) /\ c.gensym >= cacher[s].gensym
  <2>1. gensym + spent \in Nat /\ gensym + spent >= gensym
    BY <1>3, <1>5
  <2> QED BY <1>3, <1>7, <1>8, <2>1, CacherUpdate DEF Cachers, Job
<1>11. Len(c.stack) = Len(k.loads)
  BY <1>4, <1>7, <1>10 DEF TypeOK
<1> QED BY <1>4, <1>9, <1>10, <1>11, OneSessionType

LEMMA TypecheckFormType ==
  ASSUME TypeOK, NEW s \in Sessions, TypecheckForm(s)
  PROVE  TypeOK' /\ GensymsOnward /\ JobsStand
<1> DEFINE answer == Checking(cacher[s], FormNow(s), session[s].types)
           k == AfterCheck(s, answer.verdict)
           c == answer.cacher
<1>1. Loading(s) /\ session[s].loads # <<>> /\ More(s) /\ session[s].up
  BY DEF TypecheckForm, AtStage, Loading
<1>2. /\ Now(s) \in Loads /\ session[s] \in SessionStates /\ FormNow(s) \in Form
      /\ session[s].types \in Types
      /\ cacher[s] \in Cachers /\ cacher[s].stack # <<>>
  BY <1>1, NowType, FormType, SessionType DEF SessionStates
<1>3. /\ answer.verdict \in TypeNames \cup {None} /\ c \in Cachers
      /\ Len(c.stack) = Len(cacher[s].stack)
      /\ c.job = Job(s) /\ c.gensym >= cacher[s].gensym
  BY <1>2, CheckingType DEF Job
<1>4. Begin(s, k) /\ Caches(s, c) /\ UNCHANGED disk /\ moves' \in Nat
  BY DEF TypecheckForm, Working, TypeOK
<1> HIDE DEF answer
<1>5. k \in SessionStates /\ Len(k.loads) = Len(session[s].loads) /\ k.up
  <2> DEFINE load == IF answer.verdict = None THEN Failed(Now(s))
                     ELSE [Now(s) EXCEPT !.stage = "eval", !.said = answer.verdict]
  <2>1. load \in Loads
    BY <1>2, <1>3, OnwardType DEF Loads, Stages
  <2>2. k = Replaced(session[s], load)
    BY DEF AfterCheck
  <2> HIDE DEF load, k
  <2> QED BY <1>1, <1>2, <2>1, <2>2, ReplacedType
<1>6. Len(c.stack) = Len(k.loads)
  BY <1>3, <1>5, SessionType
<1> HIDE DEF k, c
<1> QED BY <1>3, <1>4, <1>5, <1>6, OneSessionType DEF TypecheckForm

LEMMA EvaluateType ==
  ASSUME TypeOK, NEW s \in Sessions, Evaluate(s)
  PROVE  TypeOK' /\ GensymsOnward /\ JobsStand
<1> DEFINE form == FormNow(s)
           now == Now(s)
           k == AfterEval(s)
           gensym == cacher[s].gensym + CostOfEval(form)
           spent == [cacher[s] EXCEPT !.gensym = @ + CostOfEval(form)]
           c == IF form.op = "load"
                THEN Entered(spent, disk[form.file], session[s].tc) ELSE spent
<1>1. Loading(s) /\ session[s].loads # <<>> /\ More(s) /\ session[s].up
  BY DEF Evaluate, EvalForm, AtStage, Loading
<1>2. /\ now \in Loads /\ session[s] \in SessionStates /\ form \in Form
      /\ cacher[s] \in Cachers /\ cacher[s].gensym \in Nat
      /\ session[s].types \in Types /\ session[s].tc \in BOOLEAN
  BY <1>1, NowType, FormType, SessionType DEF SessionStates, Cachers
<1>3. gensym \in Nat /\ gensym >= cacher[s].gensym /\ spent = [cacher[s] EXCEPT !.gensym = gensym]
  BY <1>2, CostType
<1>4. Begin(s, k) /\ Caches(s, c) /\ UNCHANGED disk /\ moves' \in Nat
  BY DEF Evaluate, EvalForm, Working, TypeOK
<1> HIDE DEF spent, gensym
<1>5. /\ spent \in Cachers /\ spent.gensym = gensym
      /\ spent.stack = cacher[s].stack /\ spent.job = Job(s)
  BY <1>2, <1>3, CacherUpdate DEF Cachers, Job
<1> DEFINE nested == Replaced(session[s], [now EXCEPT !.stage = "nested"])
           onward == Replaced(session[s], Onward(now))
<1>6. /\ Onward(now) \in Loads /\ Failed(now) \in Loads
      /\ [now EXCEPT !.stage = "nested"] \in Loads
  BY <1>2, OnwardType DEF Loads, Stages
<1>7. /\ nested \in SessionStates /\ Len(nested.loads) = Len(session[s].loads)
      /\ onward \in SessionStates /\ Len(onward.loads) = Len(session[s].loads)
      /\ nested.up /\ onward.up /\ Replaced(session[s], Failed(now)).up
      /\ Replaced(session[s], Failed(now)) \in SessionStates
      /\ Len(Replaced(session[s], Failed(now)).loads) = Len(session[s].loads)
  <2> HIDE DEF now
  <2> QED BY <1>1, <1>2, <1>6, ReplacedType
<1>8. CASE form.op = "load"
  <2> DEFINE load == Load(form.file, session[s].tc)
             loads == Append(nested.loads, load)
  <2>1. form.file \in Files
    BY <1>2, <1>8 DEF Form
  <2>2. load \in Loads /\ disk[form.file] \in Forms \cup {Missing}
    BY <1>2, <2>1, LoadType, ContentType
  <2>3. k = [nested EXCEPT !.loads = loads]
    BY <1>8 DEF AfterEval
  <2> HIDE DEF nested, load
  <2>4. loads \in Seq(Loads) /\ Len(loads) = Len(session[s].loads) + 1
    BY <1>7, <2>2, AppendProperties DEF SessionStates
  <2> HIDE DEF loads, k
  <2>5. k \in SessionStates /\ Len(k.loads) = Len(session[s].loads) + 1 /\ k.up
    BY <1>7, <2>3, <2>4 DEF SessionStates
  <2>6. c = Entered(spent, disk[form.file], session[s].tc)
    BY <1>8
  <2> HIDE DEF form, c
  <2>7. /\ c \in Cachers /\ Len(c.stack) = Len(cacher[s].stack) + 1
        /\ c.job = Job(s) /\ c.gensym >= gensym /\ c.gensym \in Nat
    <3> DEFINE content == disk[form.file]
               tc == session[s].tc
    <3>1. spent \in Cachers /\ content \in Forms \cup {Missing} /\ tc \in BOOLEAN
      BY <1>2, <1>5, <2>2
    <3>2. c = Entered(spent, content, tc)
      BY <2>6
    <3> HIDE DEF content, tc
    <3>3. /\ c \in Cachers /\ Len(c.stack) = Len(spent.stack) + 1 /\ c.job = spent.job
          /\ c.gensym >= spent.gensym
      BY <3>1, <3>2, EnteredType
    <3>4. c.gensym \in Nat
      BY <3>3 DEF Cachers
    <3> QED BY <1>5, <3>3, <3>4
  <2>8. Len(c.stack) = Len(k.loads)
    BY <2>5, <2>7, SessionType
  <2>9. c.gensym >= cacher[s].gensym
    BY <1>2, <1>3, <2>7
  <2> QED BY <1>4, <2>5, <2>7, <2>8, <2>9, OneSessionType DEF Evaluate
<1>9. CASE form.op # "load"
  <2>1. k \in SessionStates /\ Len(k.loads) = Len(session[s].loads) /\ k.up
    <3>1. CASE form.op = "declare"
      <4> DEFINE types == [onward.types EXCEPT ![form.g] = form.type]
      <4>1. form.type \in TypeNames
        BY <1>2, <3>1 DEF Form
      <4>2. k = [onward EXCEPT !.types = types]
        BY <3>1 DEF AfterEval
      <4> HIDE DEF onward, form, k
      <4>3. types \in Types
        BY <1>7, <4>1 DEF SessionStates, Types
      <4> HIDE DEF types
      <4> QED BY <1>7, <4>2, <4>3 DEF SessionStates
    <3>2. CASE form.op = "tc"
      <4>1. form.on \in BOOLEAN
        BY <1>2, <3>2 DEF Form
      <4>2. k = [onward EXCEPT !.tc = form.on]
        BY <3>2 DEF AfterEval
      <4> HIDE DEF onward, form, k
      <4> QED BY <1>7, <4>1, <4>2 DEF SessionStates
    <3>3. CASE form.op = "fail"
      <4>1. k = Replaced(session[s], Failed(now))
        BY <3>3 DEF AfterEval
      <4> QED BY <1>7, <4>1
    <3>4. CASE form.op \notin {"declare", "tc", "fail"}
      <4>1. k = onward
        BY <1>9, <3>4 DEF AfterEval
      <4> QED BY <1>7, <4>1
    <3> QED BY <3>1, <3>2, <3>3, <3>4
  <2>2. c = spent
    BY <1>9
  <2> HIDE DEF k, c
  <2>3. Len(c.stack) = Len(k.loads) /\ c.gensym >= cacher[s].gensym
    BY <1>3, <1>5, <2>1, <2>2, SessionType
  <2> QED BY <1>4, <1>5, <2>1, <2>2, <2>3, OneSessionType DEF Evaluate
<1> QED BY <1>8, <1>9

LEMMA FinishType ==
  ASSUME TypeOK, NEW s \in Sessions, Finish(s)
  PROVE  TypeOK' /\ GensymsOnward /\ JobsStand
<1> DEFINE k == Returned(session[s], FALSE)
           c == Completed(cacher[s])
<1>1. session[s].loads # <<>> /\ session[s].up
  BY DEF Finish, EndLoad, Loading
<1>2. k \in SessionStates /\ Len(k.loads) = Len(session[s].loads) - 1 /\ k.up
  BY <1>1, SessionType, ReturnedType
<1>3. /\ c \in Cachers /\ Len(c.stack) = Len(cacher[s].stack) - 1
      /\ c.job \in {Job(s), NoJob} \/ c.job.stage = "open"
      /\ c.gensym >= cacher[s].gensym
  BY <1>1, SessionType, CompletedType DEF Job
<1>4. Begin(s, k) /\ Caches(s, c) /\ UNCHANGED disk /\ moves' \in Nat
  BY DEF Finish, EndLoad, Working, TypeOK
<1> HIDE DEF k, c
<1>5. Len(c.stack) = Len(k.loads)
  BY <1>2, <1>3, SessionType
<1> QED BY <1>2, <1>3, <1>4, <1>5, OneSessionType DEF Finish

LEMMA GiveUpType ==
  ASSUME TypeOK, NEW s \in Sessions, GiveUp(s)
  PROVE  TypeOK' /\ GensymsOnward /\ JobsStand
<1> DEFINE types == IF Now(s).tc THEN Unwinding(session[s].types, Now(s).forms)
                    ELSE session[s].types
           unwound == [session[s] EXCEPT !.types = types]
           k == Returned(unwound, TRUE)
           c == Abandoned(cacher[s])
<1>1. Loading(s) /\ session[s].loads # <<>> /\ session[s].up
  BY DEF GiveUp, FailLoad, AtStage, Loading
<1>2. Now(s).forms \in Forms /\ session[s] \in SessionStates /\ session[s].types \in Types
  BY <1>1, NowType DEF Loads, SessionStates
<1>3. types \in Types
  BY <1>2, AssumingType
<1>4. Begin(s, k) /\ Caches(s, c) /\ UNCHANGED disk /\ moves' \in Nat
  BY DEF GiveUp, FailLoad, AfterFail, Working, TypeOK
<1> HIDE DEF types
<1>5. /\ unwound \in SessionStates /\ unwound.loads = session[s].loads
      /\ unwound.up = session[s].up
  BY <1>2, <1>3 DEF SessionStates
<1> HIDE DEF unwound
<1>6. k \in SessionStates /\ Len(k.loads) = Len(session[s].loads) - 1 /\ k.up
  BY <1>1, <1>5, ReturnedType
<1>7. /\ c \in Cachers /\ Len(c.stack) = Len(cacher[s].stack) - 1
      /\ c.job = Job(s) /\ c.gensym >= cacher[s].gensym
  BY <1>1, SessionType, AbandonedType DEF Job
<1> HIDE DEF k, c
<1>8. Len(c.stack) = Len(k.loads)
  BY <1>6, <1>7, SessionType
<1> QED BY <1>4, <1>6, <1>7, <1>8, OneSessionType DEF GiveUp

\* What a session moves its job on to, and whose jobs stand still.
JobSet(s, j) == cacher' = [cacher EXCEPT ![s].job = j]
JobMoves(s, j) == Job(s)' = j /\ \A t \in Sessions \ {s} : Job(t)' = Job(t)
JobOn(s, stage, inode) == [Job(s) EXCEPT !.stage = stage, !.inode = inode]
Directory(d, n) == DOMAIN d \subseteq {"tc", "tmp"} \X Keys /\ d \in [DOMAIN d -> 1 .. n]

\* The writer of a recording changes its own job and the directory.
LEMMA JobType ==
  ASSUME TypeOK, NEW s \in Sessions, NEW j \in Jobs, JobSet(s, j), ~Free(s),
         UNCHANGED <<disk, session, moves>>,
         inodes' \in Seq(Recordings \cup {Torn}), Len(inodes') >= Len(inodes),
         j = NoJob \/ j.inode \in DOMAIN inodes',
         Directory(dir', Len(inodes'))
  PROVE  TypeOK' /\ GensymsOnward /\ JobMoves(s, j)
<1>1. cacher \in [Sessions -> Cachers]
  BY DEF TypeOK
<1>2. [cacher[s] EXCEPT !.job = j] \in Cachers
  BY <1>1 DEF Cachers
<1>3. cacher' \in [Sessions -> Cachers]
  BY <1>1, <1>2 DEF JobSet
<1>4. /\ Job(s)' = j
      /\ \A t \in Sessions \ {s} : Job(t)' = Job(t)
      /\ \A t \in Sessions : /\ cacher'[t].stack = cacher[t].stack
                             /\ cacher'[t].gensym = cacher[t].gensym
                             /\ cacher[t].gensym \in Nat
                             /\ session'[t].up \/ Free(t)'
  BY <1>1 DEF Job, Cachers, JobSet, Free, TypeOK
<1>5. DOMAIN inodes \subseteq DOMAIN inodes'
  <2>1. inodes \in Seq(Recordings \cup {Torn})
    BY DEF TypeOK
  <2> QED BY <2>1, LenProperties
<1>6. \A t \in Sessions : /\ Depth(t)' = Len(session'[t].loads)
                          /\ cacher'[t].gensym >= cacher[t].gensym
  BY <1>4 DEF Depth, Stack, TypeOK
<1>7. \A t \in Sessions :
        Job(t)' = NoJob \/ Job(t)'.stage = "open" \/ Job(t)'.inode \in DOMAIN inodes'
  BY <1>4, <1>5 DEF TypeOK
<1> QED BY <1>3, <1>4, <1>6, <1>7 DEF TypeOK, GensymsOnward, Directory, JobMoves

\* A session that writes: its job, and the stages it goes on to.
LEMMA WritingType ==
  ASSUME TypeOK, NEW s \in Sessions, ~Free(s)
  PROVE  /\ Job(s) \in Jobs \ {NoJob} /\ Job(s).key \in Keys /\ Job(s).rec \in Recordings
         /\ JobDone(s) => JobSet(s, NoJob)
<1>1. cacher[s] \in Cachers
  BY DEF TypeOK
<1>2. Job(s) \in Jobs \ {NoJob}
  BY <1>1 DEF Cachers, Free, Job
<1> QED BY <1>2 DEF JobDone, JobSet, Jobs

LEMMA JobOnType ==
  ASSUME TypeOK, NEW s \in Sessions, ~Free(s),
         NEW stage \in {"write", "rename", "remove"}, NEW inode \in Nat
  PROVE  LET j == JobOn(s, stage, inode) IN
         /\ j \in Jobs /\ j # NoJob /\ j.key = Job(s).key /\ j.rec = Job(s).rec
         /\ j.stage = stage /\ j.inode = inode
         /\ JobAt(s, stage, inode) => JobSet(s, j)
<1> DEFINE j == JobOn(s, stage, inode)
           mid == [cacher EXCEPT ![s].job.stage = stage]
<1>1. cacher \in [Sessions -> Cachers] /\ Job(s) \in Jobs \ {NoJob}
  BY WritingType DEF TypeOK
<1>2. /\ j \in Jobs /\ j.key = Job(s).key /\ j.rec = Job(s).rec
      /\ j.stage = stage /\ j.inode = inode
  BY <1>1 DEF Jobs, JobOn
<1>3. j # NoJob
  BY <1>2 DEF NoJob
<1>4. ASSUME JobAt(s, stage, inode) PROVE JobSet(s, j)
  <2>1. /\ s \in DOMAIN cacher /\ "job" \in DOMAIN cacher[s]
        /\ {"stage", "inode"} \subseteq DOMAIN cacher[s].job
    BY <1>1 DEF Cachers, Jobs, Job
  <2>2. cacher' = [mid EXCEPT ![s].job.inode = inode]
    BY <1>4 DEF JobAt
  <2>3. /\ DOMAIN mid = Sessions /\ \A t \in Sessions \ {s} : mid[t] = cacher[t]
        /\ mid[s] = [cacher[s] EXCEPT !.job = [Job(s) EXCEPT !.stage = stage]]
    BY <1>1, <2>1 DEF Job
  <2> HIDE DEF mid
  <2>4. mid[s].job = [Job(s) EXCEPT !.stage = stage]
    BY <1>1, <2>3 DEF Cachers
  <2>5. cacher'[s] = [cacher[s] EXCEPT !.job = j]
    BY <1>1, <2>2, <2>3, <2>4 DEF Cachers, JobOn
  <2> QED BY <1>1, <2>2, <2>3, <2>5 DEF JobSet
<1> QED BY <1>2, <1>3, <1>4

LEMMA OpenTmpType ==
  ASSUME TypeOK, NEW s \in Sessions, OpenTmp(s)
  PROVE  /\ TypeOK' /\ GensymsOnward
         /\ \E i \in 1 .. Len(inodes) + 1 :
              /\ JobMoves(s, JobOn(s, "write", i))
              /\ inodes' \in Seq(Recordings \cup {Torn})
              /\ i \in DOMAIN inodes' /\ inodes'[i] = Torn
              /\ \A k \in DOMAIN inodes' \ {i} : k \in DOMAIN inodes /\ inodes'[k] = inodes[k]
              /\ DOMAIN dir' = DOMAIN dir \cup {TmpFile(Job(s).key)}
              /\ \A p \in DOMAIN dir : dir'[p] = dir[p] /\ dir[p] \in DOMAIN inodes
              /\ dir'[TmpFile(Job(s).key)] = i
              /\ TmpFile(Job(s).key) \notin DOMAIN dir => i = Len(inodes) + 1
<1> DEFINE path == TmpFile(Job(s).key)
<1>1. /\ inodes \in Seq(Recordings \cup {Torn}) /\ Len(inodes) \in Nat
      /\ DOMAIN inodes = 1 .. Len(inodes) /\ Torn \in Recordings \cup {Torn}
      /\ dir \in [DOMAIN dir -> 1 .. Len(inodes)]
      /\ DOMAIN dir \subseteq {"tc", "tmp"} \X Keys
  BY LenProperties DEF TypeOK
<1>2. ~Free(s) /\ UNCHANGED <<disk, session, moves>> /\ Job(s).key \in Keys
  BY WritingType DEF OpenTmp, Writing, Elsewhere
<1>3. path \in {"tc", "tmp"} \X Keys
  BY <1>2 DEF TmpFile
<1>4. CASE path \in DOMAIN dir
  <2> DEFINE i == dir[path]
  <2>1. /\ inodes' = [inodes EXCEPT ![i] = Torn] /\ dir' = dir
        /\ JobAt(s, "write", i) /\ i \in 1 .. Len(inodes)
    BY <1>1, <1>4 DEF OpenTmp, WriteTo
  <2> HIDE DEF i
  <2>2. /\ inodes' \in Seq(Recordings \cup {Torn}) /\ Len(inodes') = Len(inodes)
        /\ inodes'[i] = Torn
        /\ \A k \in DOMAIN inodes \ {i} : inodes'[k] = inodes[k]
        /\ DOMAIN inodes' = DOMAIN inodes
    BY <1>1, <2>1, ExceptSeq
  <2>3. /\ JobOn(s, "write", i) \in Jobs /\ JobOn(s, "write", i).inode = i
        /\ JobSet(s, JobOn(s, "write", i))
    BY <1>1, <1>2, <2>1, JobOnType
  <2>0. Directory(dir', Len(inodes')) /\ Len(inodes') >= Len(inodes)
    BY <1>1, <2>1, <2>2 DEF Directory
  <2>4. TypeOK' /\ GensymsOnward /\ JobMoves(s, JobOn(s, "write", i))
    BY <1>1, <1>2, <2>0, <2>1, <2>2, <2>3, JobType
  <2>5. /\ DOMAIN dir' = DOMAIN dir \cup {path} /\ dir'[path] = i
        /\ \A p \in DOMAIN dir : dir'[p] = dir[p] /\ dir[p] \in DOMAIN inodes
    BY <1>1, <1>4, <2>1 DEF i
  <2>6. i \in 1 .. Len(inodes) + 1 /\ i \in DOMAIN inodes'
    BY <1>1, <2>1, <2>2
  <2> QED BY <1>4, <2>2, <2>4, <2>5, <2>6
<1>5. CASE path \notin DOMAIN dir
  <2> DEFINE i == Len(inodes) + 1
  <2>1. /\ inodes' = Append(inodes, Torn) /\ JobAt(s, "write", i)
        /\ dir' = [p \in DOMAIN dir \cup {path} |-> IF p = path THEN i ELSE dir[p]]
        /\ i \in Nat \ {0}
    BY <1>1, <1>5 DEF OpenTmp, WriteTo, Linked
  <2>2. /\ inodes' \in Seq(Recordings \cup {Torn}) /\ Len(inodes') = i
        /\ inodes'[i] = Torn
        /\ \A k \in DOMAIN inodes : inodes'[k] = inodes[k]
        /\ DOMAIN inodes' = 1 .. i /\ DOMAIN inodes = DOMAIN inodes' \ {i}
    BY <1>1, <2>1, AppendProperties, LenProperties
  <2>3. /\ JobOn(s, "write", i) \in Jobs /\ JobOn(s, "write", i).inode = i
        /\ JobSet(s, JobOn(s, "write", i))
    <3> HIDE DEF i
    <3> QED BY <1>1, <1>2, <2>1, JobOnType
  <2>4. /\ DOMAIN dir' = DOMAIN dir \cup {path} /\ dir'[path] = i
        /\ \A p \in DOMAIN dir : dir'[p] = dir[p] /\ dir[p] \in DOMAIN inodes
    BY <1>1, <1>5, <2>1
  <2>5. Directory(dir', Len(inodes')) /\ Len(inodes') >= Len(inodes)
    BY <1>1, <1>3, <2>1, <2>2 DEF Directory
  <2>6. Len(inodes') >= Len(inodes) /\ i \in DOMAIN inodes'
    BY <1>1, <2>2
  <2>7. TypeOK' /\ GensymsOnward /\ JobMoves(s, JobOn(s, "write", i))
    <3> HIDE DEF i
    <3> QED BY <1>2, <2>2, <2>3, <2>5, <2>6, JobType
  <2> QED BY <1>1, <1>5, <2>2, <2>4, <2>6, <2>7
<1> QED BY <1>4, <1>5

LEMMA WriteTmpType ==
  ASSUME TypeOK, NEW s \in Sessions, WriteTmp(s)
  PROVE  /\ TypeOK' /\ GensymsOnward /\ JobMoves(s, JobOn(s, "rename", Job(s).inode))
         /\ Job(s).inode \in DOMAIN inodes
         /\ inodes' = [inodes EXCEPT ![Job(s).inode] = Job(s).rec] /\ dir' = dir
         /\ DOMAIN inodes' = DOMAIN inodes /\ Job(s).rec # Torn
<1> DEFINE i == Job(s).inode
<1>1. /\ inodes \in Seq(Recordings \cup {Torn}) /\ DOMAIN inodes = 1 .. Len(inodes)
      /\ Len(inodes) \in Nat /\ dir \in [DOMAIN dir -> 1 .. Len(inodes)]
      /\ DOMAIN dir \subseteq {"tc", "tmp"} \X Keys
  BY LenProperties DEF TypeOK
<1>2. /\ ~Free(s) /\ UNCHANGED <<disk, session, moves, dir>> /\ Job(s).stage = "write"
      /\ inodes' = [inodes EXCEPT ![i] = Job(s).rec] /\ JobAt(s, "rename", i)
  BY DEF WriteTmp, Writing, Elsewhere
<1>3. Job(s).rec \in Recordings /\ i \in DOMAIN inodes
  BY <1>2, WritingType DEF TypeOK
<1>4. Job(s).rec # Torn
  BY <1>3 DEF Torn, Recordings
<1> HIDE DEF i
<1>5. /\ inodes' \in Seq(Recordings \cup {Torn}) /\ Len(inodes') = Len(inodes)
      /\ DOMAIN inodes' = DOMAIN inodes
  BY <1>1, <1>2, <1>3, ExceptSeq
<1>6. /\ JobOn(s, "rename", i) \in Jobs /\ JobOn(s, "rename", i).inode = i
      /\ JobSet(s, JobOn(s, "rename", i))
  BY <1>1, <1>2, <1>3, JobOnType
<1>0. Directory(dir', Len(inodes')) /\ Len(inodes') >= Len(inodes)
  BY <1>1, <1>2, <1>5 DEF Directory
<1>7. TypeOK' /\ GensymsOnward /\ JobMoves(s, JobOn(s, "rename", i))
  BY <1>0, <1>2, <1>3, <1>5, <1>6, JobType
<1> QED BY <1>2, <1>3, <1>4, <1>5, <1>7 DEF i

\* Renaming, when the temporary file is there: the recording is published.
LEMMA RenameType ==
  ASSUME TypeOK, NEW s \in Sessions, Rename(s)
  PROVE  LET tmp == TmpFile(Job(s).key)
             final == TcFile(Job(s).key)
         IN /\ TypeOK' /\ GensymsOnward /\ inodes' = inodes
            /\ \/ /\ tmp \in DOMAIN dir /\ JobMoves(s, NoJob)
                  /\ DOMAIN dir' = (DOMAIN dir \ {tmp}) \cup {final} /\ dir'[final] = dir[tmp]
                  /\ \A p \in DOMAIN dir' \ {final} : dir'[p] = dir[p]
               \/ /\ tmp \notin DOMAIN dir /\ JobMoves(s, JobOn(s, "remove", Job(s).inode))
                  /\ dir' = dir
<1> DEFINE tmp == TmpFile(Job(s).key)
           final == TcFile(Job(s).key)
<1>1. /\ inodes \in Seq(Recordings \cup {Torn}) /\ DOMAIN inodes = 1 .. Len(inodes)
      /\ Len(inodes) \in Nat /\ dir \in [DOMAIN dir -> 1 .. Len(inodes)]
      /\ DOMAIN dir \subseteq {"tc", "tmp"} \X Keys
  BY LenProperties DEF TypeOK
<1>2. /\ ~Free(s) /\ UNCHANGED <<disk, session, moves, inodes>> /\ Job(s).stage = "rename"
  BY DEF Rename, Writing, Elsewhere
<1>3. Job(s).key \in Keys /\ Job(s).inode \in DOMAIN inodes
  BY <1>2, WritingType DEF TypeOK
<1>4. final # tmp /\ final \in {"tc", "tmp"} \X Keys
  BY <1>3 DEF TmpFile, TcFile
<1>5. CASE tmp \in DOMAIN dir
  <2>1. /\ dir' = [p \in DOMAIN Without(tmp) \cup {final} |->
                       IF p = final THEN dir[tmp] ELSE dir[p]]
        /\ JobSet(s, NoJob) /\ NoJob \in Jobs
    BY <1>5 DEF Rename, JobDone, Jobs, JobSet
  <2>2. /\ DOMAIN dir' = (DOMAIN dir \ {tmp}) \cup {final} /\ dir'[final] = dir[tmp]
        /\ \A p \in DOMAIN dir' \ {final} : dir'[p] = dir[p]
    BY <2>1 DEF Without
  <2>3. Directory(dir', Len(inodes')) /\ Len(inodes') >= Len(inodes)
    BY <1>1, <1>2, <1>4, <1>5, <2>1, <2>2 DEF Directory
  <2>4. TypeOK' /\ GensymsOnward /\ JobMoves(s, NoJob)
    <3> HIDE DEF tmp, final
    <3> QED BY <1>1, <1>2, <2>1, <2>3, JobType
  <2> QED BY <1>2, <1>5, <2>2, <2>4
<1>6. CASE tmp \notin DOMAIN dir
  <2>1. JobAt(s, "remove", Job(s).inode) /\ dir' = dir
    BY <1>6 DEF Rename
  <2>2. /\ JobOn(s, "remove", Job(s).inode) \in Jobs
        /\ JobOn(s, "remove", Job(s).inode).inode = Job(s).inode
        /\ JobSet(s, JobOn(s, "remove", Job(s).inode))
    BY <1>1, <1>2, <1>3, <2>1, JobOnType
  <2>0. Directory(dir', Len(inodes')) /\ Len(inodes') >= Len(inodes)
    BY <1>1, <1>2, <2>1 DEF Directory
  <2>3. TypeOK' /\ GensymsOnward /\ JobMoves(s, JobOn(s, "remove", Job(s).inode))
    BY <1>1, <1>2, <1>3, <2>0, <2>1, <2>2, JobType
  <2> QED BY <1>2, <1>6, <2>1, <2>3
<1> QED BY <1>5, <1>6

LEMMA RemoveTmpType ==
  ASSUME TypeOK, NEW s \in Sessions, RemoveTmp(s)
  PROVE  /\ TypeOK' /\ GensymsOnward /\ JobMoves(s, NoJob) /\ inodes' = inodes
         /\ DOMAIN dir' \subseteq DOMAIN dir /\ \A p \in DOMAIN dir' : dir'[p] = dir[p]
<1>1. /\ inodes \in Seq(Recordings \cup {Torn}) /\ Len(inodes) \in Nat
      /\ dir \in [DOMAIN dir -> 1 .. Len(inodes)]
      /\ DOMAIN dir \subseteq {"tc", "tmp"} \X Keys
  BY LenProperties DEF TypeOK
<1>2. /\ UNCHANGED <<disk, session, moves, inodes>> /\ NoJob \in Jobs /\ ~Free(s)
      /\ JobSet(s, NoJob)
      /\ dir' = [p \in DOMAIN dir \ {TmpFile(Job(s).key)} |-> dir[p]]
  BY DEF RemoveTmp, Writing, Elsewhere, JobDone, Jobs, Without, JobSet
<1>3. /\ DOMAIN dir' \subseteq DOMAIN dir /\ \A p \in DOMAIN dir' : dir'[p] = dir[p]
      /\ Directory(dir', Len(inodes')) /\ Len(inodes') >= Len(inodes)
  BY <1>1, <1>2 DEF Directory
<1>4. TypeOK' /\ GensymsOnward /\ JobMoves(s, NoJob)
  BY <1>1, <1>2, <1>3, JobType
<1> QED BY <1>2, <1>3, <1>4

\* Steps that leave every session as it is.
LEMMA NoSessionType ==
  ASSUME TypeOK, (\E f \in Files : EditFile(f)) \/ UNCHANGED vars
  PROVE  TypeOK' /\ GensymsOnward /\ JobsStand
<1>1. /\ disk' \in [Files -> Forms \cup {Missing}] /\ moves' \in Nat
      /\ UNCHANGED <<session, cacher, dir, inodes>>
  <2>1. ASSUME NEW f \in Files, EditFile(f)
        PROVE  /\ disk' \in [Files -> Forms \cup {Missing}] /\ moves' \in Nat
               /\ UNCHANGED <<session, cacher, dir, inodes>>
    <3>1. PICK content \in Versions[f] : disk' = [disk EXCEPT ![f] = content]
      BY <2>1 DEF EditFile, Edit
    <3>2. content \in Forms \cup {Missing}
      BY LoadAssumption
    <3> QED BY <2>1, <3>1, <3>2, ContentType DEF EditFile, Edit, TypeOK
  <2>2. CASE UNCHANGED vars
    BY <2>2 DEF TypeOK, vars
  <2> QED BY <2>1, <2>2
<1>2. \A s \in Sessions : cacher[s].gensym \in Nat
  BY SessionType DEF Cachers
<1>3. GensymsOnward
  BY <1>1, <1>2 DEF GensymsOnward
<1>4. JobsStand
  BY <1>1 DEF JobsStand, Job
<1> QED BY <1>1, <1>3, <1>4 DEF TypeOK, Depth, Stack, Job, Free

LEMMA InitType ==
  ASSUME Init
  PROVE  TypeOK
<1>1. disk \in [Files -> Forms \cup {Missing}] /\ moves \in Nat
  BY LoadAssumption DEF Init, LoadInit
<1>2. Idle \in Cachers /\ Idle.stack = <<>> /\ Idle.job = NoJob
  BY EmptySeq DEF Idle, Cachers, Jobs, NoJob, Chains
<1>3. Down \in SessionStates /\ Down.loads = <<>>
  BY FreshType DEF Fresh, Down
<1>4. /\ session = [s \in Sessions |-> Down] /\ cacher = [s \in Sessions |-> Idle]
      /\ dir = [p \in {} |-> 0] /\ inodes = <<>>
  BY DEF Init, LoadInit
<1> HIDE DEF Idle, Down
<1>5. \A s \in Sessions : Depth(s) = Len(session[s].loads) /\ Job(s) = NoJob /\ Free(s)
  BY <1>2, <1>3, <1>4 DEF Depth, Stack, Job, Free
<1>6. inodes \in Seq(Recordings \cup {Torn}) /\ DOMAIN dir = {}
  BY <1>4, EmptySeq
<1> QED BY <1>1, <1>2, <1>3, <1>4, <1>5, <1>6 DEF TypeOK

\* The steps of write_cache, and all others.
WriteStep(s) == OpenTmp(s) \/ WriteTmp(s) \/ Rename(s) \/ RemoveTmp(s)

LEMMA NextType ==
  ASSUME TypeOK, [Next]_vars
  PROVE  TypeOK' /\ GensymsOnward /\ (JobsStand \/ \E s \in Sessions : WriteStep(s))
<1>1. CASE (\E f \in Files : EditFile(f)) \/ UNCHANGED vars
  BY <1>1, NoSessionType
<1>2. ASSUME NEW s \in Sessions, NEW f \in Files, LoadTop(s, f)
      PROVE  TypeOK' /\ GensymsOnward /\ JobsStand
  BY <1>2, LoadTopType
<1>3. ASSUME NEW s \in Sessions,
             \/ Start(s) \/ Stop(s) \/ Read(s) \/ TypecheckForm(s) \/ Evaluate(s)
             \/ Finish(s) \/ GiveUp(s)
      PROVE  TypeOK' /\ GensymsOnward /\ JobsStand
  BY <1>3, StartType, StopType, ReadType, TypecheckFormType, EvaluateType, FinishType,
     GiveUpType
<1>4. ASSUME NEW s \in Sessions, WriteStep(s)
      PROVE  TypeOK' /\ GensymsOnward
  BY <1>4, OpenTmpType, WriteTmpType, RenameType, RemoveTmpType DEF WriteStep
<1> QED BY <1>1, <1>2, <1>3, <1>4 DEF Next, WriteStep

\* Type correctness of the cache, for any sessions, files, bounds and edits: in
\* particular each session has one context for each load in progress.
THEOREM TypeCorrect == Spec => []TypeOK
<1>1. Init => TypeOK
  BY InitType
<1>2. TypeOK /\ [Next]_vars => TypeOK'
  BY NextType
<1> QED BY <1>1, <1>2, PTL DEF Spec

\* No fresh name is made twice in a session.
THEOREM GensymsMoveOn == Spec => GensymNeverReused
<1>1. TypeOK /\ [Next]_vars => [GensymsOnward]_vars
  BY NextType
<1>2. [][GensymsOnward]_vars => GensymNeverReused
  BY PTL DEF GensymNeverReused, GensymsOnward
<1> QED BY <1>1, <1>2, TypeCorrect, PTL DEF Spec

(* ---- who owns a file --------------------------------------------------------------- *)

\* An inode has one path at most, and all who hold it or link it have one key.
FilesOwned ==
  /\ \A p, q \in DOMAIN dir : dir[p] = dir[q] => p = q
  /\ \A s \in Sessions, p \in DOMAIN dir :
       Holding(s) /\ Job(s).inode = dir[p] => p[2] = Job(s).key
  /\ \A s, t \in Sessions :
       Holding(s) /\ Holding(t) /\ Job(s).inode = Job(t).inode => Job(s).key = Job(t).key

\* What a writer holds lies in the directory's range of inodes.
LEMMA HoldingType ==
  ASSUME TypeOK, NEW s \in Sessions, Holding(s)
  PROVE  /\ ~Free(s) /\ Job(s).inode \in DOMAIN inodes /\ Job(s).inode <= Len(inodes)
         /\ Job(s).inode \in Nat
<1>1. ~Free(s) /\ Job(s).inode \in DOMAIN inodes
  BY DEF Holding, Free, Job, NoJob, TypeOK
<1>2. inodes \in Seq(Recordings \cup {Torn})
  BY DEF TypeOK
<1> QED BY <1>1, <1>2, LenProperties

\* A session at a later stage of its job holds the inode and the key.
LEMMA JobOnHolds ==
  ASSUME TypeOK, NEW s \in Sessions, ~Free(s), NEW inode \in Nat,
         NEW stage \in {"write", "rename", "remove"}, JobMoves(s, JobOn(s, stage, inode))
  PROVE  /\ Holding(s)' /\ Job(s)'.inode = inode /\ Job(s)'.key = Job(s).key
         /\ Job(s)'.rec = Job(s).rec /\ Job(s)'.stage = stage
         /\ \A t \in Sessions \ {s} : /\ Job(t)' = Job(t)
                                      /\ Holding(t)' <=> Holding(t)
<1>1. /\ Job(s)' = JobOn(s, stage, inode)
      /\ \A t \in Sessions \ {s} : Job(t)' = Job(t)
  BY DEF JobMoves
<1> QED BY <1>1, JobOnType DEF Holding

LEMMA JobDoneHolds ==
  ASSUME NEW s \in Sessions, JobMoves(s, NoJob)
  PROVE  /\ ~Holding(s)' /\ Job(s)' = NoJob
         /\ \A t \in Sessions \ {s} : /\ Job(t)' = Job(t)
                                      /\ Holding(t)' <=> Holding(t)
BY DEF JobMoves, Holding, NoJob

LEMMA FilesOwnedStep ==
  ASSUME TypeOK, FilesOwned, [Next]_vars
  PROVE  FilesOwned'
<1>1. CASE JobsStand
  BY <1>1 DEF JobsStand, FilesOwned, Holding
<1>2. ASSUME NEW s \in Sessions, OpenTmp(s) PROVE FilesOwned'
  <2>1. PICK i \in 1 .. Len(inodes) + 1 :
          /\ JobMoves(s, JobOn(s, "write", i))
          /\ DOMAIN dir' = DOMAIN dir \cup {TmpFile(Job(s).key)}
          /\ \A p \in DOMAIN dir : dir'[p] = dir[p] /\ dir[p] \in DOMAIN inodes
          /\ dir'[TmpFile(Job(s).key)] = i
          /\ TmpFile(Job(s).key) \notin DOMAIN dir => i = Len(inodes) + 1
    BY <1>2, OpenTmpType
  <2> DEFINE path == TmpFile(Job(s).key)
  <2>2. path[2] = Job(s).key /\ ~Free(s)
    BY <1>2 DEF TmpFile, OpenTmp, Writing
  <2>3. Len(inodes) \in Nat /\ DOMAIN inodes = 1 .. Len(inodes)
    BY LenProperties DEF TypeOK
  <2>4. i \in Nat
    BY <2>3
  <2>5. /\ Holding(s)' /\ Job(s)'.inode = i /\ Job(s)'.key = Job(s).key
        /\ \A t \in Sessions \ {s} : Job(t)' = Job(t) /\ (Holding(t)' <=> Holding(t))
    BY <2>1, <2>2, <2>4, JobOnHolds
  <2>6. \A p \in DOMAIN dir : dir[p] = i => p = path
    BY <2>1, <2>3 DEF FilesOwned
  <2>7. ASSUME NEW t \in Sessions, Holding(t), Job(t).inode = i
        PROVE  Job(t).key = Job(s).key
    <3>1. i \in DOMAIN inodes /\ i # Len(inodes) + 1
      BY <2>3, <2>7, HoldingType
    <3>2. path \in DOMAIN dir /\ dir[path] = i
      BY <2>1, <3>1
    <3> QED BY <2>2, <2>7, <3>2 DEF FilesOwned
  <2> HIDE DEF path
  <2>8. \A p, q \in DOMAIN dir' : dir'[p] = dir'[q] => p = q
    BY <2>1, <2>6 DEF FilesOwned, path
  <2>9. \A t \in Sessions, p \in DOMAIN dir' :
          Holding(t)' /\ Job(t)'.inode = dir'[p] => p[2] = Job(t)'.key
    BY <2>1, <2>2, <2>5, <2>6, <2>7 DEF FilesOwned, path
  <2>10. \A t, u \in Sessions : Holding(t)' /\ Holding(u)' /\ Job(t)'.inode = Job(u)'.inode
                                 => Job(t)'.key = Job(u)'.key
    BY <2>5, <2>7 DEF FilesOwned
  <2> QED BY <2>8, <2>9, <2>10 DEF FilesOwned
<1>3. ASSUME NEW s \in Sessions, WriteTmp(s) PROVE FilesOwned'
  <2>1. /\ JobMoves(s, JobOn(s, "rename", Job(s).inode)) /\ dir' = dir
        /\ ~Free(s) /\ Holding(s) /\ Job(s).inode \in Nat
    <3>1. Holding(s)
      BY <1>3 DEF WriteTmp, Writing, Holding
    <3> QED BY <1>3, <3>1, WriteTmpType, HoldingType
  <2>2. /\ Holding(s)' /\ Job(s)'.inode = Job(s).inode /\ Job(s)'.key = Job(s).key
        /\ \A t \in Sessions \ {s} : Job(t)' = Job(t) /\ (Holding(t)' <=> Holding(t))
    BY <2>1, JobOnHolds
  <2> QED BY <2>1, <2>2 DEF FilesOwned
<1>4. ASSUME NEW s \in Sessions, Rename(s) PROVE FilesOwned'
  <2> DEFINE tmp == TmpFile(Job(s).key)
             final == TcFile(Job(s).key)
  <2>1. tmp[2] = final[2] /\ Holding(s) /\ ~Free(s) /\ Job(s).inode \in Nat
    BY <1>4, HoldingType DEF Rename, Writing, TmpFile, TcFile, Holding, TypeOK
  <2>2. CASE tmp \in DOMAIN dir
    <3>1. /\ JobMoves(s, NoJob)
          /\ DOMAIN dir' = (DOMAIN dir \ {tmp}) \cup {final} /\ dir'[final] = dir[tmp]
          /\ \A p \in DOMAIN dir' \ {final} : dir'[p] = dir[p]
      BY <1>4, <2>2, RenameType
    <3>2. /\ ~Holding(s)'
          /\ \A t \in Sessions \ {s} : Job(t)' = Job(t) /\ (Holding(t)' <=> Holding(t))
      BY <3>1, JobDoneHolds
    <3> HIDE DEF tmp, final
    <3> QED BY <2>1, <2>2, <3>1, <3>2 DEF FilesOwned
  <2>3. CASE tmp \notin DOMAIN dir
    <3>1. JobMoves(s, JobOn(s, "remove", Job(s).inode)) /\ dir' = dir
      BY <1>4, <2>3, RenameType
    <3>2. /\ Holding(s)' /\ Job(s)'.inode = Job(s).inode /\ Job(s)'.key = Job(s).key
          /\ \A t \in Sessions \ {s} : Job(t)' = Job(t) /\ (Holding(t)' <=> Holding(t))
      BY <2>1, <3>1, JobOnHolds
    <3> QED BY <2>1, <3>1, <3>2 DEF FilesOwned
  <2> QED BY <2>2, <2>3
<1>5. ASSUME NEW s \in Sessions, RemoveTmp(s) PROVE FilesOwned'
  <2>1. /\ JobMoves(s, NoJob)
        /\ DOMAIN dir' \subseteq DOMAIN dir /\ \A p \in DOMAIN dir' : dir'[p] = dir[p]
    BY <1>5, RemoveTmpType
  <2>2. /\ ~Holding(s)'
        /\ \A t \in Sessions \ {s} : Job(t)' = Job(t) /\ (Holding(t)' <=> Holding(t))
    BY <2>1, JobDoneHolds
  <2> QED BY <2>1, <2>2 DEF FilesOwned
<1> QED BY <1>1, <1>2, <1>3, <1>4, <1>5, NextType DEF WriteStep

LEMMA FilesOwnedInit ==
  ASSUME Init
  PROVE  FilesOwned
<1>1. DOMAIN dir = {} /\ \A s \in Sessions : Job(s) = NoJob
  BY DEF Init, Job, Idle
<1> QED BY <1>1 DEF FilesOwned, Holding, NoJob

\* Sessions never mix up the files of two keys.
LEMMA FilesStayOwned == Spec => [](TypeOK /\ FilesOwned)
<1>1. Init => FilesOwned
  BY FilesOwnedInit
<1>2. TypeOK /\ FilesOwned /\ [Next]_vars => FilesOwned'
  BY FilesOwnedStep
<1> QED BY <1>1, <1>2, TypeCorrect, PTL DEF Spec

(* ---- torn files ----------------------------------------------------------------------- *)

\* A torn file is being written, or it is a temporary one that nobody holds.
TornKept ==
  \A i \in DOMAIN inodes : inodes[i] = Torn =>
    \/ \E s \in Sessions : Job(s).stage = "write" /\ Job(s).inode = i
    \/ \E key \in Keys :
         /\ TmpFile(key) \in DOMAIN dir /\ dir[TmpFile(key)] = i
         /\ \A s \in Sessions : Holding(s) => Job(s).key # key

\* Another session has taken away the file that s writes, or is about to.
Shares(s) ==
  \/ ~(TmpFile(Job(s).key) \in DOMAIN dir /\ dir[TmpFile(Job(s).key)] = Job(s).inode)
  \/ \E t \in Sessions \ {s} : Holding(t) /\ Job(t).key = Job(s).key
CrashesApart ==
  \A s \in Sessions : Stop(s) /\ Job(s).stage = "write" => ~Shares(s)

LEMMA TornKeptStep ==
  ASSUME TypeOK, FilesOwned, TornKept, [Next]_vars, [CrashesApart]_vars
  PROVE  TornKept'
<1> SUFFICES ASSUME NEW i \in DOMAIN inodes', inodes'[i] = Torn
             PROVE  \/ \E s \in Sessions : Job(s)'.stage = "write" /\ Job(s)'.inode = i
                    \/ \E key \in Keys :
                         /\ TmpFile(key) \in DOMAIN dir' /\ dir'[TmpFile(key)] = i
                         /\ \A s \in Sessions : Holding(s)' => Job(s)'.key # key
  BY DEF TornKept
<1> DEFINE Written == \E s \in Sessions : Job(s).stage = "write" /\ Job(s).inode = i
           Kept(key) == /\ TmpFile(key) \in DOMAIN dir /\ dir[TmpFile(key)] = i
                        /\ \A s \in Sessions : Holding(s) => Job(s).key # key
<1>1. CASE JobsStand
  <2>1. i \in DOMAIN inodes /\ inodes[i] = Torn /\ dir' = dir
    BY <1>1 DEF JobsStand
  <2>2. CASE \E key \in Keys : Kept(key)
    BY <1>1, <2>1, <2>2 DEF JobsStand, Holding
  <2>3. ASSUME NEW s \in Sessions, Job(s).stage = "write", Job(s).inode = i
        PROVE  \/ \E t \in Sessions : Job(t)'.stage = "write" /\ Job(t)'.inode = i
               \/ \E key \in Keys :
                    /\ TmpFile(key) \in DOMAIN dir' /\ dir'[TmpFile(key)] = i
                    /\ \A t \in Sessions : Holding(t)' => Job(t)'.key # key
    <3>1. Holding(s) /\ ~Free(s) /\ Job(s).key \in Keys
      BY <2>3, HoldingType, WritingType DEF Holding
    <3>2. CASE Job(s)' = Job(s)
      BY <2>3, <3>2
    <3>3. CASE Job(s)' # Job(s)
      <4>1. ~Holding(s)' /\ (Start(s) \/ Stop(s))
        BY <1>1, <3>1, <3>3 DEF JobsStand
      <4>2. Stop(s)
        BY <3>1, <4>1 DEF Start, StartSession, TypeOK
      <4>3. vars' # vars
        BY <3>3 DEF vars, Job
      <4>4. ~Shares(s)
        BY <2>3, <4>2, <4>3 DEF CrashesApart
      <4>5. \A t \in Sessions : Holding(t)' => Job(t)'.key # Job(s).key
        BY <1>1, <4>1, <4>4 DEF Shares, JobsStand, Holding
      <4> QED BY <2>1, <2>3, <3>1, <4>4, <4>5 DEF Shares
    <3> QED BY <3>2, <3>3
  <2> QED BY <2>1, <2>2, <2>3 DEF TornKept
<1>2. ASSUME NEW s \in Sessions, OpenTmp(s)
      PROVE  \/ \E t \in Sessions : Job(t)'.stage = "write" /\ Job(t)'.inode = i
             \/ \E key \in Keys :
                  /\ TmpFile(key) \in DOMAIN dir' /\ dir'[TmpFile(key)] = i
                  /\ \A t \in Sessions : Holding(t)' => Job(t)'.key # key
  <2>1. PICK k \in 1 .. Len(inodes) + 1 :
          /\ JobMoves(s, JobOn(s, "write", k))
          /\ \A m \in DOMAIN inodes' \ {k} : m \in DOMAIN inodes /\ inodes'[m] = inodes[m]
          /\ DOMAIN dir' = DOMAIN dir \cup {TmpFile(Job(s).key)}
          /\ \A p \in DOMAIN dir : dir'[p] = dir[p] /\ dir[p] \in DOMAIN inodes
          /\ dir'[TmpFile(Job(s).key)] = k
    BY <1>2, OpenTmpType
  <2>2. k \in Nat /\ ~Free(s) /\ Job(s).stage = "open"
    BY <1>2, LenProperties DEF OpenTmp, Writing, TypeOK
  <2>3. /\ Job(s)'.inode = k /\ Job(s)'.stage = "write" /\ Job(s)'.key = Job(s).key
        /\ \A t \in Sessions \ {s} : Job(t)' = Job(t) /\ (Holding(t)' <=> Holding(t))
    BY <2>1, <2>2, JobOnHolds
  <2>4. CASE i = k
    BY <2>3, <2>4
  <2>5. CASE i # k
    <3>1. i \in DOMAIN inodes /\ inodes[i] = Torn
      BY <2>1, <2>5
    <3>2. CASE Written
      BY <2>2, <2>3, <3>2
    <3>3. ASSUME NEW key \in Keys, Kept(key)
          PROVE  /\ TmpFile(key) \in DOMAIN dir' /\ dir'[TmpFile(key)] = i
                 /\ \A t \in Sessions : Holding(t)' => Job(t)'.key # key
      <4>1. dir'[TmpFile(key)] = i /\ TmpFile(key) \in DOMAIN dir'
        BY <2>1, <3>3
      <4>2. key # Job(s).key
        BY <2>1, <2>5, <4>1
      <4> QED BY <2>3, <3>3, <4>1, <4>2
    <3> QED BY <3>1, <3>2, <3>3 DEF TornKept
  <2> QED BY <2>4, <2>5
<1>3. ASSUME NEW s \in Sessions, WriteTmp(s)
      PROVE  \/ \E t \in Sessions : Job(t)'.stage = "write" /\ Job(t)'.inode = i
             \/ \E key \in Keys :
                  /\ TmpFile(key) \in DOMAIN dir' /\ dir'[TmpFile(key)] = i
                  /\ \A t \in Sessions : Holding(t)' => Job(t)'.key # key
  <2>1. /\ JobMoves(s, JobOn(s, "rename", Job(s).inode)) /\ dir' = dir
        /\ ~Free(s) /\ Holding(s) /\ Job(s).inode \in Nat /\ Job(s).rec # Torn
        /\ inodes' = [inodes EXCEPT ![Job(s).inode] = Job(s).rec]
        /\ DOMAIN inodes' = DOMAIN inodes
    <3>1. Holding(s)
      BY <1>3 DEF WriteTmp, Writing, Holding
    <3> QED BY <1>3, <3>1, WriteTmpType, HoldingType
  <2>2. /\ Job(s)'.inode = Job(s).inode /\ Job(s)'.key = Job(s).key
        /\ \A t \in Sessions \ {s} : Job(t)' = Job(t) /\ (Holding(t)' <=> Holding(t))
    BY <2>1, JobOnHolds
  <2>3. i # Job(s).inode /\ i \in DOMAIN inodes /\ inodes[i] = Torn
    BY <2>1
  <2>4. CASE Written
    BY <2>2, <2>3, <2>4
  <2>5. CASE \E key \in Keys : Kept(key)
    BY <2>1, <2>2, <2>5
  <2> QED BY <2>3, <2>4, <2>5 DEF TornKept
<1>4. ASSUME NEW s \in Sessions, Rename(s) \/ RemoveTmp(s)
      PROVE  \/ \E t \in Sessions : Job(t)'.stage = "write" /\ Job(t)'.inode = i
             \/ \E key \in Keys :
                  /\ TmpFile(key) \in DOMAIN dir' /\ dir'[TmpFile(key)] = i
                  /\ \A t \in Sessions : Holding(t)' => Job(t)'.key # key
  <2>1. ~Free(s) /\ Holding(s) /\ Job(s).stage # "write" /\ Job(s).inode \in Nat
    <3>1. Holding(s) /\ Job(s).stage # "write"
      BY <1>4 DEF Rename, RemoveTmp, Writing, Holding
    <3> QED BY <3>1, HoldingType
  <2>2. /\ \A t \in Sessions \ {s} : Job(t)' = Job(t) /\ (Holding(t)' <=> Holding(t))
        /\ Holding(s)' => Job(s)'.key = Job(s).key
        /\ i \in DOMAIN inodes /\ inodes[i] = Torn
    BY <1>4, <2>1, RenameType, RemoveTmpType, JobDoneHolds, JobOnHolds
  <2>3. \A key \in Keys : key # Job(s).key /\ TmpFile(key) \in DOMAIN dir =>
          TmpFile(key) \in DOMAIN dir' /\ dir'[TmpFile(key)] = dir[TmpFile(key)]
    BY <1>4, RenameType DEF RemoveTmp, Without, TmpFile, TcFile
  <2>4. CASE Written
    BY <2>1, <2>2, <2>4
  <2>5. CASE \E key \in Keys : Kept(key)
    BY <2>1, <2>2, <2>3, <2>5
  <2> QED BY <2>2, <2>4, <2>5 DEF TornKept
<1> QED BY <1>1, <1>2, <1>3, <1>4, NextType DEF WriteStep

LEMMA TornKeptShows ==
  ASSUME TypeOK, FilesOwned, TornKept
  PROVE  NoTornLeft
<1> SUFFICES ASSUME NEW key \in Recorded, ~Hit(key)
             PROVE  \E s \in Sessions : /\ Job(s).stage \in {"write", "rename"}
                                        /\ Job(s).inode = dir[TcFile(key)]
  BY DEF NoTornLeft
<1>1. PICK p \in DOMAIN dir : p[1] = "tc" /\ key = p[2]
  BY DEF Recorded
<1>2. p \in {"tc", "tmp"} \X Keys
  BY DEF TypeOK
<1>3. p = TcFile(key)
  BY <1>1, <1>2 DEF TcFile
<1>4. dir[p] \in DOMAIN inodes /\ inodes[dir[p]] = Torn
  BY <1>3, LenProperties DEF Hit, TypeOK
<1>5. \A other \in Keys : TmpFile(other) \in DOMAIN dir => dir[TmpFile(other)] # dir[p]
  BY <1>3 DEF FilesOwned, TmpFile, TcFile
<1> QED BY <1>3, <1>4, <1>5 DEF TornKept

\* A crash leaves no torn file behind, unless it ends a session that writes a
\* temporary file which another one shares (tc_cache.rs:480).
THEOREM NoTornFiles == Spec /\ [][CrashesApart]_vars => []NoTornLeft
<1>1. Init => TornKept
  BY EmptySeq DEF Init, TornKept
<1>2. TypeOK /\ FilesOwned /\ TornKept /\ [Next]_vars /\ [CrashesApart]_vars => TornKept'
  BY TornKeptStep
<1>3. TypeOK /\ FilesOwned /\ TornKept => NoTornLeft
  BY TornKeptShows
<1> QED BY <1>1, <1>2, <1>3, FilesStayOwned, PTL DEF Spec

\* A torn file loses the session that writes it last by the end of that session alone.
LEMMA OrphansStep ==
  ASSUME TypeOK, [Next]_vars, NEW i \in Orphans' \ Orphans
  PROVE  \E s \in Sessions :
           Job(s).stage = "write" /\ Job(s).inode = i /\ ~session'[s].up
<1>1. ASSUME i \in DOMAIN inodes, inodes[i] = Torn
      PROVE  \E s \in Sessions : /\ Job(s).stage = "write" /\ Job(s).inode = i
                                /\ ~Free(s) /\ session[s].up /\ Job(s)' # Job(s)
  <2>1. PICK s \in Sessions : Job(s).stage = "write" /\ Job(s).inode = i
    BY <1>1 DEF Orphans
  <2>2. ~Free(s) /\ session[s].up
    BY <2>1 DEF Free, Job, NoJob, TypeOK
  <2>3. Job(s)' # Job(s)
    BY <2>1 DEF Orphans
  <2> QED BY <2>1, <2>2, <2>3
<1>2. CASE JobsStand
  <2>1. PICK s \in Sessions : /\ Job(s).stage = "write" /\ Job(s).inode = i
                             /\ ~Free(s) /\ session[s].up /\ Job(s)' # Job(s)
    BY <1>1, <1>2 DEF JobsStand, Orphans
  <2>2. Stop(s)
    BY <1>2, <2>1 DEF JobsStand, Start, StartSession
  <2>3. session[s].up /\ session' = [session EXCEPT ![s] = Down] /\ session \in [Sessions -> SessionStates]
    BY <2>2 DEF Stop, Crash, Begin, TypeOK
  <2>4. ~session'[s].up
    BY <2>3 DEF Down, Fresh
  <2> QED BY <2>1, <2>4
<1>3. ASSUME NEW s \in Sessions, WriteStep(s) PROVE FALSE
  <2>1. CASE OpenTmp(s)
    <3>1. PICK new \in 1 .. Len(inodes) + 1 :
            /\ JobMoves(s, JobOn(s, "write", new))
            /\ \A k \in DOMAIN inodes' \ {new} : k \in DOMAIN inodes /\ inodes'[k] = inodes[k]
      BY <2>1, OpenTmpType
    <3>2. new \in Nat /\ ~Free(s) /\ Job(s).stage = "open"
      BY <2>1, LenProperties DEF TypeOK, OpenTmp, Writing
    <3>3. /\ Job(s)'.inode = new /\ Job(s)'.stage = "write"
          /\ \A t \in Sessions \ {s} : Job(t)' = Job(t)
      BY <3>1, <3>2, JobOnHolds
    <3>4. i # new
      BY <3>3 DEF Orphans
    <3>5. i \in DOMAIN inodes /\ inodes[i] = Torn
      BY <3>1, <3>4 DEF Orphans
    <3> QED BY <1>1, <3>2, <3>3, <3>5
  <2>2. CASE WriteTmp(s)
    <3>1. /\ JobMoves(s, JobOn(s, "rename", Job(s).inode)) /\ Job(s).inode \in DOMAIN inodes
          /\ inodes' = [inodes EXCEPT ![Job(s).inode] = Job(s).rec]
          /\ DOMAIN inodes' = DOMAIN inodes /\ Job(s).rec # Torn
      BY <2>2, WriteTmpType
    <3>2. i # Job(s).inode /\ i \in DOMAIN inodes /\ inodes[i] = Torn
      BY <3>1 DEF Orphans
    <3>3. \A t \in Sessions \ {s} : Job(t)' = Job(t)
      BY <3>1 DEF JobMoves
    <3> QED BY <1>1, <3>2, <3>3
  <2>3. CASE Rename(s) \/ RemoveTmp(s)
    <3>1. Job(s).stage \in {"rename", "remove"} /\ inodes' = inodes
      BY <2>3 DEF Rename, RemoveTmp, Writing
    <3>2. \A t \in Sessions \ {s} : Job(t)' = Job(t)
      BY <2>3, RenameType, RemoveTmpType DEF JobMoves
    <3> QED BY <1>1, <3>1, <3>2 DEF Orphans
  <2> QED BY <1>3, <2>1, <2>2, <2>3 DEF WriteStep
<1> QED BY <1>2, <1>3, NextType

\* Sharing the temporary file leaves nothing torn behind, whatever the sessions write at
\* once: a torn file without a writer is the work of a crash (tc_cache.rs:481).
THEOREM OnlyCrashesTear == Spec => TornOnlyByCrash
<1>1. TypeOK /\ [Next]_vars =>
        [\A i \in Orphans' \ Orphans : \E s \in Sessions :
           Job(s).stage = "write" /\ Job(s).inode = i /\ ~session'[s].up]_vars
  BY OrphansStep
<1> QED BY <1>1, TypeCorrect, PTL DEF Spec, TornOnlyByCrash

\* No two sessions write a recording for one key at a time.
Alone ==
  \A s, t \in Sessions : s # t /\ ~Free(s) /\ ~Free(t) => Job(s).key # Job(t).key

\* Then a temporary file stays its writer's until it is renamed.
Unshared ==
  \A s \in Sessions :
    /\ Job(s).stage # "remove"
    /\ Holding(s) => /\ TmpFile(Job(s).key) \in DOMAIN dir
                     /\ dir[TmpFile(Job(s).key)] = Job(s).inode

LEMMA UnsharedStep ==
  ASSUME TypeOK, FilesOwned, Alone, Unshared, [Next]_vars
  PROVE  Unshared'
<1>1. CASE JobsStand
  BY <1>1 DEF JobsStand, Unshared, Holding
<1>2. ASSUME NEW s \in Sessions, WriteStep(s) PROVE Unshared'
  <2>1. ~Free(s)
    BY <1>2 DEF WriteStep, OpenTmp, WriteTmp, Rename, RemoveTmp, Writing
  <2>2. ASSUME NEW t \in Sessions \ {s}, Holding(t)
        PROVE  TmpFile(Job(t).key) # TmpFile(Job(s).key)
    BY <2>1, <2>2, HoldingType DEF Alone, TmpFile
  <2>3. CASE OpenTmp(s)
    <3>1. PICK i \in 1 .. Len(inodes) + 1 :
            /\ JobMoves(s, JobOn(s, "write", i))
            /\ DOMAIN dir' = DOMAIN dir \cup {TmpFile(Job(s).key)}
            /\ \A p \in DOMAIN dir : dir'[p] = dir[p]
            /\ dir'[TmpFile(Job(s).key)] = i
      BY <2>3, OpenTmpType
    <3>2. i \in Nat
      BY LenProperties DEF TypeOK
    <3>3. /\ Job(s)'.inode = i /\ Job(s)'.key = Job(s).key /\ Job(s)'.stage = "write"
          /\ \A t \in Sessions \ {s} : Job(t)' = Job(t) /\ (Holding(t)' <=> Holding(t))
      BY <2>1, <3>1, <3>2, JobOnHolds
    <3> QED BY <3>1, <3>3 DEF Unshared
  <2>4. CASE WriteTmp(s)
    <3>1. Holding(s) /\ JobMoves(s, JobOn(s, "rename", Job(s).inode)) /\ dir' = dir
      BY <2>4, WriteTmpType DEF WriteTmp, Writing, Holding
    <3>2. /\ Job(s)'.inode = Job(s).inode /\ Job(s)'.key = Job(s).key
          /\ Job(s)'.stage = "rename"
          /\ \A t \in Sessions \ {s} : Job(t)' = Job(t) /\ (Holding(t)' <=> Holding(t))
      BY <2>1, <3>1, JobOnHolds, HoldingType
    <3> QED BY <3>1, <3>2 DEF Unshared
  <2>5. CASE Rename(s)
    <3>1. TmpFile(Job(s).key) \in DOMAIN dir
      BY <2>5 DEF Unshared, Rename, Writing, Holding
    <3>2. /\ JobMoves(s, NoJob)
          /\ DOMAIN dir'
               = (DOMAIN dir \ {TmpFile(Job(s).key)}) \cup {TcFile(Job(s).key)}
          /\ \A p \in DOMAIN dir' \ {TcFile(Job(s).key)} : dir'[p] = dir[p]
      BY <2>5, <3>1, RenameType
    <3>3. /\ ~Holding(s)' /\ Job(s)' = NoJob
          /\ \A t \in Sessions \ {s} : Job(t)' = Job(t) /\ (Holding(t)' <=> Holding(t))
      BY <3>2, JobDoneHolds
    <3>4. \A key : TmpFile(key) # TcFile(Job(s).key)
      BY DEF TmpFile, TcFile
    <3> QED BY <2>2, <3>2, <3>3, <3>4 DEF Unshared, NoJob
  <2>6. CASE RemoveTmp(s)
    BY <2>6 DEF Unshared, RemoveTmp, Writing
  <2> QED BY <1>2, <2>3, <2>4, <2>5, <2>6 DEF WriteStep
<1> QED BY <1>1, <1>2, NextType

\* No torn file is left, wherever sessions crash, while no two of them write
\* a recording for one key at a time.
THEOREM NoTornFilesAlone == Spec /\ []Alone => []NoTornLeft
<1>1. Init => Unshared
  BY DEF Init, Unshared, Holding, Job, Idle, NoJob
<1>2. TypeOK /\ FilesOwned /\ Alone /\ Unshared /\ [Next]_vars => Unshared'
  BY UnsharedStep
<1>3. TypeOK /\ Alone /\ Unshared => CrashesApart
  <2> SUFFICES ASSUME TypeOK, Alone, Unshared, NEW s \in Sessions, Job(s).stage = "write"
               PROVE  ~Shares(s)
    BY DEF CrashesApart
  <2>1. Holding(s) /\ ~Free(s)
    BY HoldingType DEF Holding
  <2> QED BY <2>1, HoldingType DEF Shares, Alone, Unshared
<1> QED BY <1>1, <1>2, <1>3, FilesStayOwned, NoTornFiles, PTL DEF Spec

\* In particular one session leaves none, whatever it loads and wherever it crashes.
THEOREM NoTornFilesOfOne ==
  ASSUME \A s, t \in Sessions : s = t
  PROVE  Spec => []NoTornLeft
<1>1. Alone
  BY DEF Alone
<1> QED BY <1>1, NoTornFilesAlone, PTL
=============================================================================
