---------------------------- MODULE TcAlignProofs ----------------------------
(***************************************************************************)
(* Proofs about TcCache, third part: replays stay aligned.  Where files do *)
(* not change and loads do not fail, what a load goes through is decided   *)
(* by the key it begins under, so that a replay meets what its recording   *)
(* holds, and a history that is repeated comes to the same key.            *)
(***************************************************************************)
EXTENDS TcReplayProofs

(* ---- the walk through a file ------------------------------------------------------- *)

\* A load from where it started, at its form number at: the chain of completed
\* loads and the session's (tc) flag by then.
Starts == [chain : Chains, content : Forms, tc : BOOLEAN]
Spots == [from : Starts, at : Nat, chain : Chains, tc : BOOLEAN]
Start0(chain, content, tc) == [chain |-> chain, content |-> content, tc |-> tc]
Spot(from, at, chain, tc) == [from |-> from, at |-> at, chain |-> chain, tc |-> tc]
Switched(tc, form) == IF form.op = "tc" THEN form.on ELSE tc

\* A load comes to x by beginning, by passing a form, or by a nested load that
\* ended at z.
Begins(x) == x.at = 1 /\ x.chain = x.from.chain /\ x.tc = x.from.tc
Onwards(y, x) ==
  y.from = x.from /\ y.at \in 1 .. Len(y.from.content) /\ x.at = y.at + 1
Passes(y, x) ==
  LET form == y.from.content[y.at] IN
  /\ Onwards(y, x) /\ form.op # "load"
  /\ x.chain = y.chain /\ x.tc = Switched(y.tc, form)
Nests(d, y, z, x) ==
  LET form == y.from.content[y.at]
      content == d[form.file]
  IN /\ Onwards(y, x) /\ form.op = "load" /\ content # Missing
     /\ z.from = Start0(y.chain, content, y.tc) /\ z.at = Len(content) + 1
     /\ x.chain = Append(z.chain, Ended(content, y.tc)) /\ x.tc = z.tc

Follows(d, R, x) ==
  Begins(x) \/ (\E y \in R : Passes(y, x)) \/ (\E y, z \in R : Nests(d, y, z, x))
ClosedWalk(d, R) == \A x \in Spots : Follows(d, R, x) => x \in R
Walk(d) == {x \in Spots : \A R \in SUBSET Spots : ClosedWalk(d, R) => x \in R}

LEMMA WalkStep ==
  ASSUME NEW d
  PROVE  Walk(d) \subseteq Spots /\ ClosedWalk(d, Walk(d))
<1>1. Walk(d) \subseteq Spots
  BY DEF Walk
<1>2. ASSUME NEW x \in Spots, Follows(d, Walk(d), x)
      PROVE  x \in Walk(d)
  <2>1. ASSUME NEW R \in SUBSET Spots, ClosedWalk(d, R)
        PROVE  x \in R
    <3>1. Walk(d) \subseteq R
      BY <2>1 DEF Walk
    <3>2. Follows(d, R, x)
      BY <1>2, <3>1 DEF Follows
    <3> QED BY <2>1, <3>2 DEF ClosedWalk
  <2> QED BY <2>1 DEF Walk
<1> QED BY <1>1, <1>2 DEF ClosedWalk

LEMMA WalkBack ==
  ASSUME NEW d, NEW x \in Walk(d)
  PROVE  Follows(d, Walk(d), x)
<1> DEFINE R == {y \in Walk(d) : Follows(d, Walk(d), y)}
<1>1. R \in SUBSET Spots
  BY WalkStep
<1>2. ClosedWalk(d, R)
  <2> SUFFICES ASSUME NEW y \in Spots, Follows(d, R, y) PROVE y \in R
    BY DEF ClosedWalk
  <2>1. Follows(d, Walk(d), y)
    BY DEF Follows
  <2>2. y \in Walk(d)
    BY <2>1, WalkStep DEF ClosedWalk
  <2> QED BY <2>1, <2>2
<1>3. x \in R
  <2> HIDE DEF R
  <2> QED BY <1>1, <1>2 DEF Walk
<1> QED BY <1>3

\* The disk, the start and the form that a load is at decide chain and flag.
LEMMA WalkUnique ==
  ASSUME NEW d, NEW x \in Walk(d), NEW y \in Walk(d), x.from = y.from, x.at = y.at
  PROVE  x = y
<1> DEFINE Only(u) == \A v \in Walk(d) : v.from = u.from /\ v.at = u.at => v = u
           R == {u \in Walk(d) : Only(u)}
<1>1. R \in SUBSET Spots /\ \A u \in R : u \in Walk(d) /\ Only(u)
  BY WalkStep
<1>2. \A u, v \in Spots : u.from = v.from /\ u.at = v.at /\ u.chain = v.chain /\ u.tc = v.tc
                           => u = v
  BY DEF Spots
<1>3. ClosedWalk(d, R)
  <2> SUFFICES ASSUME NEW u \in Spots, Follows(d, R, u) PROVE u \in R
    BY DEF ClosedWalk
  <2> HIDE DEF R, Only
  <2>1. u \in Walk(d)
    <3>1. Follows(d, Walk(d), u)
      BY <1>1 DEF Follows
    <3> QED BY <3>1, WalkStep DEF ClosedWalk
  <2>2. ASSUME NEW v \in Walk(d), v.from = u.from, v.at = u.at
        PROVE  v.chain = u.chain /\ v.tc = u.tc
    <3>1. Follows(d, Walk(d), v)
      BY WalkBack
    <3>2. ASSUME NEW w \in Walk(d), NEW e, Onwards(w, e) PROVE e.at # 1
      BY <3>2, WalkStep DEF Onwards, Spots
    <3>3. CASE Begins(u)
      <4>1. Begins(v)
        BY <2>2, <3>1, <3>2, <3>3 DEF Follows, Passes, Nests, Begins
      <4> QED BY <2>2, <3>3, <4>1 DEF Begins
    <3>4. ASSUME NEW w \in Walk(d), NEW e \in R, Onwards(w, v), Onwards(e, u)
          PROVE  w = e
      <4>1. e \in Walk(d) /\ Only(e) /\ w.at \in Nat /\ e.at \in Nat
        BY <1>1, <3>4, WalkStep DEF Spots
      <4>2. w.from = e.from
        BY <2>2, <3>4 DEF Onwards
      <4>3. v.at = w.at + 1 /\ u.at = e.at + 1
        BY <3>4 DEF Onwards
      <4>4. w.at + 1 = e.at + 1
        BY <2>2, <4>3
      <4>5. \A i, j \in Nat : i + 1 = j + 1 => i = j
        OBVIOUS
      <4>6. w.at = e.at
        BY <4>1, <4>4, <4>5
      <4> QED BY <4>1, <4>2, <4>6 DEF Only
    <3>5. CASE \E e \in R : Passes(e, u)
      <4>1. PICK e \in R : Passes(e, u)
        BY <3>5
      <4>2. Onwards(e, u) /\ e \in Walk(d) /\ e.from.content[e.at].op # "load"
        BY <1>1, <4>1 DEF Passes
      <4>3. \E w \in Walk(d) : Passes(w, v)
        <5>1. ~Begins(v)
          BY <2>2, <3>2, <4>2 DEF Begins
        <5>2. ~\E w, z \in Walk(d) : Nests(d, w, z, v)
          BY <3>4, <4>2 DEF Nests
        <5> QED BY <3>1, <5>1, <5>2 DEF Follows
      <4>4. PICK w \in Walk(d) : Passes(w, v)
        BY <4>3
      <4>5. w = e
        BY <3>4, <4>2, <4>4 DEF Passes
      <4> QED BY <4>1, <4>4, <4>5 DEF Passes
    <3>6. CASE \E e, z \in R : Nests(d, e, z, u)
      <4>1. PICK e \in R, z \in R : Nests(d, e, z, u)
        BY <3>6
      <4>2. /\ Onwards(e, u) /\ e \in Walk(d) /\ e.from.content[e.at].op = "load"
            /\ z \in Walk(d) /\ Only(z)
        BY <1>1, <4>1 DEF Nests
      <4>3. \E w, t \in Walk(d) : Nests(d, w, t, v)
        <5>1. ~Begins(v)
          BY <2>2, <3>2, <4>2 DEF Begins
        <5>2. ~\E w \in Walk(d) : Passes(w, v)
          BY <3>4, <4>2 DEF Passes
        <5> QED BY <3>1, <5>1, <5>2 DEF Follows
      <4>4. PICK w \in Walk(d), t \in Walk(d) : Nests(d, w, t, v)
        BY <4>3
      <4>5. w = e
        BY <3>4, <4>2, <4>4 DEF Nests
      <4>6. t = z
        <5>1. t.from = z.from /\ t.at = z.at
          BY <4>1, <4>4, <4>5 DEF Nests
        <5> QED BY <4>2, <5>1 DEF Only
      <4> QED BY <4>1, <4>4, <4>5, <4>6 DEF Nests
    <3> QED BY <3>3, <3>5, <3>6 DEF Follows
  <2>3. Only(u)
    BY <1>2, <2>1, <2>2, WalkStep DEF Only
  <2> QED BY <2>1, <2>3 DEF R
<1>4. x \in R
  <2> HIDE DEF R
  <2> QED BY <1>1, <1>3 DEF Walk
<1> QED BY <1>4

\* A load passes its forms one by one.
LEMMA WalkBegin ==
  ASSUME NEW d, NEW from \in Starts
  PROVE  Spot(from, 1, from.chain, from.tc) \in Walk(d)
<1> DEFINE x == Spot(from, 1, from.chain, from.tc)
<1>1. x \in Spots /\ Begins(x)
  BY DEF Spot, Spots, Starts, Begins
<1>2. Follows(d, Walk(d), x)
  BY <1>1 DEF Follows
<1> HIDE DEF x
<1>3. x \in Walk(d)
  BY <1>1, <1>2, WalkStep DEF ClosedWalk
<1> QED BY <1>3 DEF x

LEMMA SwitchedType ==
  ASSUME NEW form \in Form, NEW tc \in BOOLEAN
  PROVE  Switched(tc, form) \in BOOLEAN
BY DEF Switched, Form

LEMMA WalkPass ==
  ASSUME NEW d, NEW from \in Starts, NEW at \in 1 .. Len(from.content), NEW chain, NEW tc,
         Spot(from, at, chain, tc) \in Walk(d), from.content[at].op # "load"
  PROVE  Spot(from, at + 1, chain, Switched(tc, from.content[at])) \in Walk(d)
<1> DEFINE y == Spot(from, at, chain, tc)
           form == from.content[at]
           x == Spot(from, at + 1, chain, Switched(tc, form))
<1>1. y \in Spots /\ y \in Walk(d)
  BY WalkStep
<1>2. chain \in Chains /\ tc \in BOOLEAN /\ at \in Nat
  BY <1>1 DEF Spot, Spots
<1>3. form \in Form
  <2>1. from.content \in Forms /\ Len(from.content) \in Nat
    BY LenProperties DEF Starts, Forms
  <2> QED BY <2>1, ElementOfSeq DEF Forms
<1>4. y.from = from /\ y.at = at /\ y.chain = chain /\ y.tc = tc
  BY DEF Spot
<1>5. x.from = from /\ x.at = at + 1 /\ x.chain = chain /\ x.tc = Switched(tc, form)
  BY DEF Spot
<1>6. x \in Spots
  BY <1>2, <1>3, SwitchedType DEF Spot, Spots
<1> HIDE DEF x, y
<1>7. Passes(y, x)
  BY <1>4, <1>5 DEF Passes, Onwards
<1>8. x \in Walk(d)
  BY <1>1, <1>6, <1>7, WalkStep DEF ClosedWalk, Follows
<1> QED BY <1>8 DEF x

LEMMA WalkNest ==
  ASSUME NEW d, NEW from \in Starts, NEW at \in 1 .. Len(from.content), NEW chain, NEW tc,
         Spot(from, at, chain, tc) \in Walk(d), from.content[at].op = "load",
         NEW content \in Forms, content = d[from.content[at].file], content # Missing,
         NEW last, NEW then,
         Spot(Start0(chain, content, tc), Len(content) + 1, last, then) \in Walk(d)
  PROVE  Spot(from, at + 1, Append(last, Ended(content, tc)), then) \in Walk(d)
<1> DEFINE y == Spot(from, at, chain, tc)
           z == Spot(Start0(chain, content, tc), Len(content) + 1, last, then)
           next == Append(last, Ended(content, tc))
           x == Spot(from, at + 1, next, then)
<1>1. y \in Spots /\ y \in Walk(d) /\ z \in Spots /\ z \in Walk(d)
  BY WalkStep
<1>2. chain \in Chains /\ tc \in BOOLEAN /\ at \in Nat /\ last \in Chains /\ then \in BOOLEAN
  BY <1>1 DEF Spot, Spots
<1>3. next \in Chains
  <2>1. Ended(content, tc) \in [file : Forms, tc : BOOLEAN]
    BY <1>2 DEF Ended
  <2> QED BY <1>2, <2>1, AppendProperties DEF Chains
<1>4. /\ y.from = from /\ y.at = at /\ y.chain = chain /\ y.tc = tc
      /\ z.from = Start0(chain, content, tc) /\ z.at = Len(content) + 1 /\ z.chain = last
      /\ z.tc = then
  BY DEF Spot
<1> HIDE DEF next
<1>5. x.from = from /\ x.at = at + 1 /\ x.chain = next /\ x.tc = then /\ x \in Spots
  BY <1>2, <1>3 DEF Spot, Spots
<1> HIDE DEF x, y, z
<1>6. Nests(d, y, z, x)
  BY <1>4, <1>5 DEF Nests, Onwards, next
<1>7. x \in Walk(d)
  BY <1>1, <1>5, <1>6, WalkStep DEF ClosedWalk, Follows
<1> QED BY <1>7 DEF x, next

LEMMA WalkChain ==
  ASSUME NEW d, NEW from, NEW at, NEW chain, NEW tc, NEW chain2, NEW tc2,
         Spot(from, at, chain, tc) \in Walk(d), Spot(from, at, chain2, tc2) \in Walk(d)
  PROVE  chain = chain2 /\ tc = tc2
<1> DEFINE x == Spot(from, at, chain, tc)
           y == Spot(from, at, chain2, tc2)
<1>1. x.from = from /\ x.at = at /\ x.chain = chain /\ x.tc = tc
  BY DEF Spot
<1>2. y.from = from /\ y.at = at /\ y.chain = chain2 /\ y.tc = tc2
  BY DEF Spot
<1> HIDE DEF x, y
<1>3. x = y
  BY <1>1, <1>2, WalkUnique DEF x, y
<1> QED BY <1>1, <1>2, <1>3

(* ---- a load follows its walk --------------------------------------------------------- *)

\* The walk that a key begins, and the checkpoints of its forms before upto: a
\* chain for each nested load, whose file was there.
Origin(key) == Start0(key.chain, key.content, key.tc)
Checkpoint(d, key, ckpt, i) ==
  LET m == LoadsBefore(key.content, i) + 1 IN
  /\ d[key.content[i].file] # Missing /\ m \in DOMAIN ckpt
  /\ \E tc \in BOOLEAN : Spot(Origin(key), i + 1, ckpt[m], tc) \in Walk(d)
Checkpoints(d, key, ckpt, upto) ==
  \A i \in 1 .. upto - 1 : key.content[i].op = "load" => Checkpoint(d, key, ckpt, i)
Whole(d, key, rec) == Checkpoints(d, key, rec.ckpt, Len(key.content) + 1)

\* A load that is at a form, chain and flag of its walk.
Followed(d, ctx, load, chain, tc) ==
  /\ ~ctx.poisoned /\ ctx.key.content = d[load.file]
  /\ Spot(Origin(ctx.key), load.at, chain, tc) \in Walk(d)
  /\ Checkpoints(d, ctx.key, ctx.ckpt,
                 IF ctx.replay THEN Len(ctx.key.content) + 1 ELSE load.at)

\* The chain and the flag that each load of a stack waits with: those its nested
\* load began with.
ChainOf(c, i) == IF i = Len(c.stack) THEN c.chain ELSE c.stack[i + 1].key.chain
FlagOf(k, c, i) == IF i = Len(c.stack) THEN k.tc ELSE c.stack[i + 1].key.tc
Following(k, c, d) ==
  /\ \A i \in 1 .. Len(c.stack) :
       Followed(d, c.stack[i], k.loads[i], ChainOf(c, i), FlagOf(k, c, i))
  /\ \A i \in 1 .. Len(c.stack) - 1 :
       c.stack[i].key.content[k.loads[i].at].file = k.loads[i + 1].file

Unpoisoned(stack) == \A i \in 1 .. Len(stack) : stack[i].replay => ~stack[i].poisoned
Aligns(k, c, d) == Unpoisoned(c.stack) /\ (Alive(k, c) => Following(k, c, d))

LEMMA OriginType ==
  ASSUME NEW key \in Keys
  PROVE  /\ Origin(key) \in Starts /\ Origin(key).chain = key.chain
         /\ Origin(key).content = key.content /\ Origin(key).tc = key.tc
BY DEF Origin, Start0, Starts, Keys

\* The innermost load goes on along its walk, the others stand.
TopSteps(k, c, k2, c2, ctx, load, top, next) ==
  /\ Len(c.stack) \in Nat \ {0} /\ Len(c.stack) = Len(k.loads)
  /\ ctx = c.stack[Len(c.stack)] /\ load = k.loads[Len(c.stack)]
  /\ Replaces(c.stack, c2.stack, top) /\ Replaces(k.loads, k2.loads, next)

LEMMA TopFollows ==
  ASSUME NEW k, NEW c, NEW k2, NEW c2, NEW d, NEW ctx, NEW load, NEW top, NEW next,
         TopSteps(k, c, k2, c2, ctx, load, top, next),
         Unpoisoned(c.stack), Following(k, c, d),
         top.key = ctx.key, next.file = load.file, Followed(d, top, next, c2.chain, k2.tc)
  PROVE  Aligns(k2, c2, d)
<1> DEFINE n == Len(c.stack)
           st == c.stack
           lo == k.loads
           st2 == c2.stack
           lo2 == k2.loads
<1>1. /\ n \in Nat \ {0} /\ Len(st2) = n /\ st2[n] = top /\ lo2[n] = next
      /\ \A i \in 1 .. n - 1 : st2[i] = st[i] /\ lo2[i] = lo[i]
      /\ st[n] = ctx /\ lo[n] = load
  BY DEF TopSteps, Replaces
<1>2. \A i \in 1 .. n : st2[i].key = st[i].key /\ lo2[i].file = lo[i].file
  BY <1>1
<1>3. /\ \A i \in 1 .. n - 1 : ChainOf(c2, i) = ChainOf(c, i) /\ FlagOf(k2, c2, i) = FlagOf(k, c, i)
      /\ ChainOf(c2, n) = c2.chain /\ FlagOf(k2, c2, n) = k2.tc
  <2>1. \A i \in 1 .. n - 1 : i # n /\ i + 1 \in 1 .. n
    BY <1>1
  <2> QED BY <1>1, <1>2, <2>1 DEF ChainOf, FlagOf
<1>4. ASSUME NEW i \in 1 .. n
      PROVE  Followed(d, st2[i], lo2[i], ChainOf(c2, i), FlagOf(k2, c2, i))
  <2>1. CASE i = n
    BY <1>1, <1>3, <2>1
  <2>2. CASE i # n
    <3>1. i \in 1 .. n - 1
      BY <1>1, <2>2
    <3>2. Followed(d, st[i], lo[i], ChainOf(c, i), FlagOf(k, c, i))
      BY DEF Following
    <3> QED BY <1>1, <1>3, <3>1, <3>2
  <2> QED BY <2>1, <2>2
<1>5. ASSUME NEW i \in 1 .. n - 1
      PROVE  st2[i].key.content[lo2[i].at].file = lo2[i + 1].file
  <2>1. st[i].key.content[lo[i].at].file = lo[i + 1].file
    BY DEF Following
  <2>2. i + 1 \in 1 .. n
    BY <1>1
  <2> QED BY <1>1, <1>2, <2>1, <2>2
<1>6. Following(k2, c2, d)
  BY <1>1, <1>4, <1>5 DEF Following
<1>7. Unpoisoned(st2)
  <2>1. ASSUME NEW i \in 1 .. n PROVE ~st2[i].poisoned
    BY <1>4 DEF Followed
  <2> QED BY <1>1, <2>1 DEF Unpoisoned
<1> QED BY <1>6, <1>7 DEF Aligns

\* It fails, in a context that is not poisoned by that.
LEMMA TopFails ==
  ASSUME NEW k, NEW c, NEW k2, NEW c2, NEW d, NEW ctx, NEW load, NEW top, NEW next,
         TopSteps(k, c, k2, c2, ctx, load, top, next),
         Unpoisoned(c.stack), top.replay => ~top.poisoned, next.stage = "failed"
  PROVE  Aligns(k2, c2, d)
<1> DEFINE n == Len(c.stack)
           st == c.stack
           st2 == c2.stack
<1>1. /\ n \in Nat \ {0} /\ Len(st2) = n /\ st2[n] = top /\ k2.loads[n] = next
      /\ \A i \in 1 .. n : i # n => st2[i] = st[i]
  BY DEF TopSteps, Replaces
<1>2. Unpoisoned(st2)
  BY <1>1 DEF Unpoisoned
<1>3. ~Alive(k2, c2)
  BY <1>1 DEF Alive
<1> QED BY <1>2, <1>3 DEF Aligns

\* A load begins, around which the others stand.
LEMMA PushFollows ==
  ASSUME NEW k, NEW c, NEW k2, NEW c2, NEW d, NEW n \in Nat, n = Len(c.stack),
         Unpoisoned(c.stack), Following(k, c, d), Len(c2.stack) = n + 1,
         \A i \in 1 .. n : /\ c2.stack[i] = c.stack[i] /\ k2.loads[i].file = k.loads[i].file
                           /\ k2.loads[i].at = k.loads[i].at,
         NEW top, NEW load, top = c2.stack[n + 1], load = k2.loads[n + 1],
         c2.chain = c.chain, k2.tc = k.tc, top.key.chain = c.chain, top.key.tc = k.tc,
         Followed(d, top, load, c.chain, k.tc),
         n # 0 => c.stack[n].key.content[k.loads[n].at].file = load.file
  PROVE  Aligns(k2, c2, d)
<1> DEFINE st == c.stack
           lo == k.loads
           st2 == c2.stack
           lo2 == k2.loads
<1>1. /\ \A i \in 1 .. n : ChainOf(c2, i) = ChainOf(c, i) /\ FlagOf(k2, c2, i) = FlagOf(k, c, i)
      /\ ChainOf(c2, n + 1) = c.chain /\ FlagOf(k2, c2, n + 1) = k.tc
  <2>1. ASSUME NEW i \in 1 .. n
        PROVE  ChainOf(c2, i) = ChainOf(c, i) /\ FlagOf(k2, c2, i) = FlagOf(k, c, i)
    <3>1. i # n + 1 /\ (i # n => i + 1 \in 1 .. n)
      OBVIOUS
    <3> QED BY <3>1 DEF ChainOf, FlagOf
  <2> QED BY <2>1 DEF ChainOf, FlagOf
<1>2. ASSUME NEW i \in 1 .. n + 1
      PROVE  Followed(d, st2[i], lo2[i], ChainOf(c2, i), FlagOf(k2, c2, i))
  <2>1. CASE i = n + 1
    BY <1>1, <2>1
  <2>2. CASE i # n + 1
    <3>1. i \in 1 .. n
      BY <2>2
    <3>2. Followed(d, st[i], lo[i], ChainOf(c, i), FlagOf(k, c, i))
      BY <3>1 DEF Following
    <3>3. st2[i] = st[i] /\ lo2[i].file = lo[i].file /\ lo2[i].at = lo[i].at
      BY <3>1
    <3> QED BY <1>1, <3>1, <3>2, <3>3 DEF Followed
  <2> QED BY <2>1, <2>2
<1>3. ASSUME NEW i \in 1 .. n
      PROVE  st2[i].key.content[lo2[i].at].file = lo2[i + 1].file
  <2>1. CASE i = n
    <3>1. n # 0 /\ st2[n] = st[n] /\ lo2[n].at = lo[n].at
      BY <2>1
    <3>2. st[n].key.content[lo[n].at].file = lo2[n + 1].file
      BY <3>1
    <3> QED BY <2>1, <3>1, <3>2
  <2>2. CASE i # n
    <3>1. i \in 1 .. n - 1 /\ i + 1 \in 1 .. n
      BY <2>2
    <3>2. st[i].key.content[lo[i].at].file = lo[i + 1].file
      BY <3>1 DEF Following
    <3> QED BY <3>1, <3>2
  <2> QED BY <2>1, <2>2
<1>4. Following(k2, c2, d)
  <2>1. Len(st2) = n + 1 /\ Len(st2) - 1 = n
    OBVIOUS
  <2> QED BY <1>2, <1>3, <2>1 DEF Following
<1>5. Unpoisoned(st2)
  <2>1. ASSUME NEW i \in 1 .. n + 1 PROVE ~st2[i].poisoned
    BY <1>2 DEF Followed
  <2> QED BY <2>1 DEF Unpoisoned
<1> QED BY <1>4, <1>5 DEF Aligns

(* ---- the steps of a load -------------------------------------------------------------- *)

\* A session that loads, sound and aligned.
LEMMA FollowsNow ==
  ASSUME TypeOK, NEW s \in Sessions, Loading(s), Stands(session[s], cacher[s], disk),
         Aligns(session[s], cacher[s], disk)
  PROVE  LET ctx == Context1(s)
             load == Now(s)
             n == Len(cacher[s].stack)
         IN /\ n \in Nat \ {0} /\ n = Len(session[s].loads) /\ load \in Loads
            /\ ctx = cacher[s].stack[n] /\ load = session[s].loads[n] /\ ctx \in Contexts
            /\ session[s] \in SessionStates /\ cacher[s] \in Cachers
            /\ Unpoisoned(cacher[s].stack) /\ (ctx.replay => ~ctx.poisoned)
            /\ load.stage # "failed" /\ (load.stage = "read" => ctx.keyed) =>
                 /\ Following(session[s], cacher[s], disk)
                 /\ Followed(disk, ctx, load, cacher[s].chain, session[s].tc)
                 /\ ctx \in KeyedContexts /\ Level(ctx, load) /\ Steady(ctx, load)
                 /\ ctx.key.content = ctx.hash /\ ctx.key \in Keys /\ ctx.keyed
<1> DEFINE ctx == Context1(s)
           load == Now(s)
           n == Len(cacher[s].stack)
<1>1. /\ n \in Nat \ {0} /\ n = Len(session[s].loads) /\ load \in Loads
      /\ ctx = cacher[s].stack[n] /\ load = session[s].loads[n]
      /\ cacher[s].stack \in Seq(Contexts) /\ session[s].up
  BY InnermostLoad DEF Depth, Stack, Loading
<1>2. ctx \in Contexts
  <2>1. n \in 1 .. n
    BY <1>1
  <2> HIDE DEF ctx
  <2> QED BY <1>1, <2>1, ElementOfSeq
<1>3. session[s] \in SessionStates /\ cacher[s] \in Cachers
  BY SessionType
<1>4. Unpoisoned(cacher[s].stack) /\ (ctx.replay => ~ctx.poisoned)
  BY <1>1 DEF Aligns, Unpoisoned
<1>5. ASSUME load.stage # "failed", load.stage = "read" => ctx.keyed
      PROVE  /\ Following(session[s], cacher[s], disk)
             /\ Followed(disk, ctx, load, cacher[s].chain, session[s].tc)
             /\ ctx \in KeyedContexts /\ Level(ctx, load) /\ Steady(ctx, load)
             /\ ctx.key.content = ctx.hash /\ ctx.key \in Keys /\ ctx.keyed
  <2>1. ctx \in KeyedContexts /\ Level(ctx, load)
    BY <1>5, InnermostLoad
  <2>2. ctx.key.content = ctx.hash /\ ctx.key \in Keys /\ ctx.keyed
    BY <2>1 DEF Level, Keyed, KeyedContexts
  <2>3. Alive(session[s], cacher[s])
    BY <1>1, <1>5, <2>2 DEF Alive
  <2>4. Following(session[s], cacher[s], disk)
    BY <2>3 DEF Aligns
  <2>5. Followed(disk, ctx, load, cacher[s].chain, session[s].tc)
    <3>1. n \in 1 .. n
      BY <1>1
    <3> QED BY <1>1, <2>4, <3>1 DEF Following, ChainOf, FlagOf
  <2>6. Steady(ctx, load)
    BY <2>1, <2>5 DEF Followed, Level
  <2> QED BY <2>1, <2>2, <2>4, <2>5, <2>6
<1> HIDE DEF ctx, load, n
<1> QED BY <1>1, <1>2, <1>3, <1>4, <1>5 DEF ctx, load, n

LEMMA FailedReplaces ==
  ASSUME NEW k \in SessionStates, k.loads # <<>>, NEW load \in Loads
  PROVE  Replaces(k.loads, Replaced(k, Failed(load)).loads, Failed(load))
         /\ Failed(load).stage = "failed"
<1> DEFINE lo == k.loads
           failed == Failed(load)
<1>1. failed \in Loads /\ failed.stage = "failed"
  BY OnwardType DEF Failed, Loads
<1>2. Replaced(k, failed).loads = [lo EXCEPT ![Len(lo)] = failed]
  BY <1>1, ReplacedType
<1>3. lo \in Seq(Loads) /\ lo # <<>>
  BY DEF SessionStates
<1> HIDE DEF lo, failed
<1>4. Replaces(lo, [lo EXCEPT ![Len(lo)] = failed], failed)
  BY <1>1, <1>3, ReplacesTop
<1> QED BY <1>1, <1>2, <1>4 DEF lo, failed

LEMMA ReadAligns ==
  ASSUME TypeOK, NEW s \in Sessions, Read(s), Stands(session[s], cacher[s], disk),
         Aligns(session[s], cacher[s], disk)
  PROVE  Aligns(session'[s], cacher'[s], disk) /\ cacher'[s].job = cacher[s].job
<1> DEFINE k == session[s]
           c == cacher[s]
           k2 == session'[s]
           c2 == cacher'[s]
           ctx == Context1(s)
           load == Now(s)
           forms == disk[load.file]
           top == [ctx EXCEPT !.readAt = c.gensym]
           next == [load EXCEPT !.forms = forms, !.stage = FirstStage(load)]
<1>1. /\ Loading(s) /\ k.loads # <<>> /\ load.stage = "read" /\ c2.chain = c.chain
      /\ c2.job = c.job /\ Replaces(c.stack, c2.stack, top)
      /\ forms = Missing => k2 = Replaced(k, Failed(load))
      /\ forms # Missing =>
           /\ next \in Loads /\ next.at = load.at /\ next.file = load.file
           /\ Replaces(k.loads, k2.loads, next) /\ k2.tc = k.tc
  BY ReadMoves DEF Stack
<1>2. /\ Len(c.stack) \in Nat \ {0} /\ Len(c.stack) = Len(k.loads) /\ load \in Loads
      /\ ctx = c.stack[Len(c.stack)] /\ load = k.loads[Len(c.stack)] /\ ctx \in Contexts
      /\ k \in SessionStates /\ Unpoisoned(c.stack) /\ (ctx.replay => ~ctx.poisoned)
  BY <1>1, FollowsNow
<1>3. top.replay = ctx.replay /\ top.poisoned = ctx.poisoned
  <2> HIDE DEF ctx
  <2> QED BY <1>2 DEF Contexts, KeyedContexts, UnkeyedContexts
<1>4. CASE forms = Missing
  <2>1. Replaces(k.loads, k2.loads, Failed(load)) /\ Failed(load).stage = "failed"
    <3> HIDE DEF k, load, k2
    <3> QED BY <1>1, <1>2, <1>4, FailedReplaces
  <2> DEFINE failed == Failed(load)
  <2> HIDE DEF k, c, k2, c2, ctx, load, top, failed, forms
  <2>2. TopSteps(k, c, k2, c2, ctx, load, top, failed)
    BY <1>1, <1>2, <2>1 DEF TopSteps, failed
  <2>3. Aligns(k2, c2, disk)
    BY <1>2, <1>3, <2>1, <2>2, TopFails DEF failed
  <2> QED BY <1>1, <2>3 DEF k2, c2, c
<1>5. CASE forms # Missing
  <2>1. ctx.keyed
    BY <1>1, <1>5, InnermostLoad
  <2>2. /\ Following(k, c, disk) /\ Followed(disk, ctx, load, c.chain, k.tc)
        /\ ctx \in KeyedContexts
    BY <1>1, <2>1, FollowsNow
  <2>3. top.key = ctx.key /\ top.ckpt = ctx.ckpt
    <3> HIDE DEF ctx
    <3> QED BY <2>2 DEF KeyedContexts
  <2> HIDE DEF k, c, k2, c2, ctx, load, top, next, forms
  <2>4. Followed(disk, top, next, c2.chain, k2.tc)
    BY <1>1, <1>3, <1>5, <2>2, <2>3 DEF Followed
  <2>5. TopSteps(k, c, k2, c2, ctx, load, top, next)
    BY <1>1, <1>2, <1>5 DEF TopSteps
  <2>6. Aligns(k2, c2, disk)
    BY <1>1, <1>2, <1>5, <2>2, <2>3, <2>4, <2>5, TopFollows
  <2> QED BY <1>1, <2>6 DEF k2, c2, c
<1> QED BY <1>4, <1>5

LEMMA TypecheckAligns ==
  ASSUME TypeOK, NEW s \in Sessions, TypecheckForm(s), Stands(session[s], cacher[s], disk),
         Aligns(session[s], cacher[s], disk)
  PROVE  Aligns(session'[s], cacher'[s], disk)
<1> DEFINE k == session[s]
           c == cacher[s]
           k2 == session'[s]
           c2 == cacher'[s]
           ctx == Context1(s)
           load == Now(s)
<1>1. Loading(s) /\ k.loads # <<>> /\ load.stage = "check" /\ c2.chain = c.chain
  BY CheckMoves
<1>2. PICK top \in Contexts :
        /\ SameBut(ctx, top) /\ Replaces(c.stack, c2.stack, top)
        /\ \/ k2 = Replaced(k, Failed(load))
           \/ \E next \in Loads :
                /\ CheckedOn(load, next) /\ next.file = load.file
                /\ Replaces(k.loads, k2.loads, next) /\ k2.tc = k.tc
  BY CheckMoves DEF Stack
<1>3. /\ Len(c.stack) \in Nat \ {0} /\ Len(c.stack) = Len(k.loads) /\ load \in Loads
      /\ ctx = c.stack[Len(c.stack)] /\ load = k.loads[Len(c.stack)]
      /\ k \in SessionStates /\ Unpoisoned(c.stack) /\ (ctx.replay => ~ctx.poisoned)
  BY <1>1, FollowsNow
<1>4. Following(k, c, disk) /\ Followed(disk, ctx, load, c.chain, k.tc)
  BY <1>1, FollowsNow
<1>5. /\ top.key = ctx.key /\ top.ckpt = ctx.ckpt /\ top.replay = ctx.replay
      /\ top.poisoned = ctx.poisoned
  BY <1>2 DEF SameBut
<1> HIDE DEF k, c, k2, c2, ctx, load
<1>6. CASE k2 = Replaced(k, Failed(load))
  <2>1. Replaces(k.loads, k2.loads, Failed(load)) /\ Failed(load).stage = "failed"
    BY <1>1, <1>3, <1>6, FailedReplaces
  <2> DEFINE failed == Failed(load)
  <2> HIDE DEF failed
  <2>2. TopSteps(k, c, k2, c2, ctx, load, top, failed)
    BY <1>2, <1>3, <2>1 DEF TopSteps, failed
  <2>3. Aligns(k2, c2, disk)
    BY <1>3, <1>5, <2>1, <2>2, TopFails DEF failed
  <2> QED BY <2>3 DEF k2, c2
<1>7. ASSUME NEW next \in Loads, CheckedOn(load, next), next.file = load.file,
             Replaces(k.loads, k2.loads, next), k2.tc = k.tc
      PROVE  Aligns(k2, c2, disk)
  <2>1. Followed(disk, top, next, c2.chain, k2.tc)
    BY <1>1, <1>4, <1>5, <1>7 DEF Followed, CheckedOn
  <2>2. TopSteps(k, c, k2, c2, ctx, load, top, next)
    BY <1>2, <1>3, <1>7 DEF TopSteps
  <2> QED BY <1>3, <1>4, <1>5, <1>7, <2>1, <2>2, TopFollows
<1> QED BY <1>2, <1>6, <1>7 DEF k2, c2

\* A form that loads nothing is passed.
LEMMA PassFollows ==
  ASSUME NEW d, NEW ctx \in KeyedContexts, NEW load, NEW next, NEW chain, NEW tc, NEW form,
         Followed(d, ctx, load, chain, tc), load.at \in 1 .. Len(ctx.key.content),
         form = ctx.key.content[load.at], form.op # "load",
         next.file = load.file, next.at = load.at + 1
  PROVE  Followed(d, ctx, next, chain, Switched(tc, form))
<1> DEFINE from == Origin(ctx.key)
           content == ctx.key.content
<1>1. from \in Starts /\ from.content = content /\ load.at \in Nat
  BY OriginType DEF KeyedContexts
<1>2. Spot(from, load.at, chain, tc) \in Walk(d)
  BY DEF Followed
<1> HIDE DEF from
<1>3. Spot(from, next.at, chain, Switched(tc, form)) \in Walk(d)
  BY <1>1, <1>2, WalkPass
<1>4. Checkpoints(d, ctx.key, ctx.ckpt, load.at) => Checkpoints(d, ctx.key, ctx.ckpt, next.at)
  <2>1. \A i \in 1 .. next.at - 1 : i \in 1 .. load.at - 1 \/ i = load.at
    BY <1>1
  <2> QED BY <2>1 DEF Checkpoints
<1> QED BY <1>3, <1>4 DEF Followed, from

\* The form that the innermost load is at.
LEMMA FormFollows ==
  ASSUME TypeOK, NEW s \in Sessions, Loading(s), Stands(session[s], cacher[s], disk),
         Aligns(session[s], cacher[s], disk), Now(s).stage = "eval", More(s)
  PROVE  LET ctx == Context1(s)
             load == Now(s)
         IN /\ load.at \in 1 .. Len(ctx.key.content) /\ FormNow(s) = ctx.key.content[load.at]
            /\ ctx.key.content = ctx.hash /\ ctx.key.content \in Forms
<1> DEFINE ctx == Context1(s)
           load == Now(s)
<1>1. Level(ctx, load) /\ ctx.key.content = ctx.hash /\ ctx.key \in Keys /\ load \in Loads
  BY FollowsNow
<1>2. load.forms = ctx.hash
  BY <1>1 DEF Level, Keyed
<1>3. load.at \in Nat \ {0} /\ load.at <= Len(load.forms) /\ ctx.key.content \in Forms
  BY <1>1 DEF Loads, More, Keys
<1>4. Len(ctx.key.content) \in Nat
  BY <1>3, LenProperties DEF Forms
<1>5. FormNow(s) = load.forms[load.at]
  BY DEF FormNow
<1> HIDE DEF ctx, load
<1>6. load.at \in 1 .. Len(ctx.key.content)
  BY <1>1, <1>2, <1>3, <1>4
<1> QED BY <1>1, <1>2, <1>3, <1>5, <1>6 DEF ctx, load

LEMMA EvaluateAligns ==
  ASSUME TypeOK, NEW s \in Sessions, Evaluate(s), FormNow(s).op # "load",
         Stands(session[s], cacher[s], disk), Aligns(session[s], cacher[s], disk)
  PROVE  Aligns(session'[s], cacher'[s], disk) /\ cacher'[s].job = cacher[s].job
<1> DEFINE k == session[s]
           c == cacher[s]
           k2 == session'[s]
           c2 == cacher'[s]
           ctx == Context1(s)
           load == Now(s)
           form == FormNow(s)
           next == Onward(load)
<1>1. /\ Loading(s) /\ k.loads # <<>> /\ load.stage = "eval" /\ More(s)
      /\ c2.stack = c.stack /\ c2.chain = c.chain /\ c2.job = c.job
      /\ \/ k2 = Replaced(k, Failed(load))
         \/ /\ next \in Loads /\ next.at = load.at + 1 /\ next.file = load.file
            /\ k2.loads = [k.loads EXCEPT ![Len(k.loads)] = next]
            /\ k2.tc = Switched(k.tc, form)
  BY EvalMoves DEF Switched
<1>2. /\ Len(c.stack) \in Nat \ {0} /\ Len(c.stack) = Len(k.loads) /\ load \in Loads
      /\ ctx = c.stack[Len(c.stack)] /\ load = k.loads[Len(c.stack)]
      /\ k \in SessionStates /\ Unpoisoned(c.stack) /\ (ctx.replay => ~ctx.poisoned)
  BY <1>1, FollowsNow
<1>3. /\ Following(k, c, disk) /\ Followed(disk, ctx, load, c.chain, k.tc)
      /\ ctx \in KeyedContexts
  BY <1>1, FollowsNow
<1>4. load.at \in 1 .. Len(ctx.key.content) /\ form = ctx.key.content[load.at]
  BY <1>1, FormFollows
<1>5. form.op # "load"
  OBVIOUS
<1> HIDE DEF k, c, k2, c2, ctx, load, form, next
<1>6. Replaces(c.stack, c2.stack, ctx)
  <2>1. c.stack # <<>>
    BY <1>2
  <2> QED BY <1>1, <1>2, <2>1 DEF Replaces
<1>7. CASE k2 = Replaced(k, Failed(load))
  <2>1. Replaces(k.loads, k2.loads, Failed(load)) /\ Failed(load).stage = "failed"
    BY <1>1, <1>2, <1>7, FailedReplaces
  <2> DEFINE failed == Failed(load)
  <2> HIDE DEF failed
  <2>2. TopSteps(k, c, k2, c2, ctx, load, ctx, failed)
    BY <1>2, <1>6, <2>1 DEF TopSteps, failed
  <2>3. Aligns(k2, c2, disk)
    BY <1>2, <2>1, <2>2, TopFails DEF failed
  <2> QED BY <1>1, <2>3 DEF k2, c2, c
<1>8. CASE k2 # Replaced(k, Failed(load))
  <2>1. /\ next \in Loads /\ next.at = load.at + 1 /\ next.file = load.file
        /\ k2.loads = [k.loads EXCEPT ![Len(k.loads)] = next]
        /\ k2.tc = Switched(k.tc, form)
    BY <1>1, <1>8
  <2>2. Replaces(k.loads, k2.loads, next)
    <3> DEFINE lo == k.loads
    <3>1. lo \in Seq(Loads) /\ lo # <<>>
      BY <1>1, <1>2 DEF SessionStates
    <3> HIDE DEF lo
    <3>2. Replaces(lo, [lo EXCEPT ![Len(lo)] = next], next)
      BY <2>1, <3>1, ReplacesTop
    <3> QED BY <2>1, <3>2 DEF lo
  <2>3. Followed(disk, ctx, next, c2.chain, k2.tc)
    BY <1>1, <1>3, <1>4, <1>5, <2>1, PassFollows
  <2>4. TopSteps(k, c, k2, c2, ctx, load, ctx, next)
    BY <1>2, <1>6, <2>2 DEF TopSteps
  <2>5. Aligns(k2, c2, disk)
    BY <1>2, <1>3, <2>1, <2>3, <2>4, TopFollows
  <2> QED BY <1>1, <2>5 DEF k2, c2, c
<1> QED BY <1>7, <1>8

(* ---- a load begins -------------------------------------------------------------------- *)

\* The recordings of the directory have every checkpoint of their keys' walks.
FilesWhole(d) ==
  \A p \in DOMAIN dir : inodes[dir[p]] # Torn => Whole(d, p[2], inodes[dir[p]])

\* The innermost load, if any, is at a form that loads a file.
LoadsNext(k, c, f) ==
  LET n == Len(c.stack)
      content == c.stack[n].key.content
      at == k.loads[n].at
  IN n # 0 => at \in 1 .. Len(content) /\ content[at].op = "load" /\ content[at].file = f

\* The wrapper finds no file, so that no load around waits for one it replays.
LEMMA MissingAligns ==
  ASSUME NEW c \in Cachers, NEW k, NEW d, Following(k, c, d), Unpoisoned(c.stack),
         NEW f, LoadsNext(k, c, f), d[f] = Missing, NEW within \in Withins,
         NEW k2, NEW e, e.stack = Append(PoisonedTop(c.stack), Unkeyed(within))
  PROVE  Aligns(k2, e, d)
<1> DEFINE st == c.stack
           n == Len(st)
           q == PoisonedTop(st)
           top == Unkeyed(within)
           st2 == e.stack
<1>1. st \in Seq(Contexts) /\ n \in Nat
  BY LenProperties DEF Cachers
<1>2. q \in Seq(Contexts) /\ Len(q) = n
  BY <1>1, PoisonedTopType
<1>3. top \in Contexts /\ ~top.keyed /\ ~top.replay
  BY DEF Unkeyed, UnkeyedContexts, Contexts
<1>4. /\ Len(st2) = n + 1 /\ st2[n + 1] = top /\ \A i \in 1 .. n : st2[i] = q[i]
  <2> HIDE DEF q, top, n
  <2>1. /\ Len(Append(q, top)) = n + 1 /\ Append(q, top)[n + 1] = top
        /\ \A i \in 1 .. n : Append(q, top)[i] = q[i]
    BY <1>2, <1>3, AppendProperties
  <2> QED BY <2>1 DEF q, top
<1>5. ASSUME NEW i \in 1 .. n
      PROVE  q[i].replay = st[i].replay /\ (i # n => q[i] = st[i])
  <2>1. st # <<>> /\ st[i] \in Contexts /\ i \in DOMAIN st
    BY <1>1, ElementOfSeq, LenProperties
  <2>2. q = [st EXCEPT ![n].poisoned = TRUE]
    BY <2>1 DEF PoisonedTop
  <2>3. [st[i] EXCEPT !.poisoned = TRUE].replay = st[i].replay
    <3> DEFINE ctx == st[i]
    <3>1. ctx \in Contexts
      BY <2>1
    <3> HIDE DEF ctx
    <3>2. [ctx EXCEPT !.poisoned = TRUE].replay = ctx.replay
      BY <3>1 DEF Contexts, KeyedContexts, UnkeyedContexts
    <3> QED BY <3>2 DEF ctx
  <2>4. q[i] = IF i = n THEN [st[i] EXCEPT !.poisoned = TRUE] ELSE st[i]
    <3> HIDE DEF st, n, q
    <3> QED BY <2>1, <2>2
  <2> QED BY <2>3, <2>4
<1>6. n # 0 => ~st[n].replay
  <2> SUFFICES ASSUME n # 0, st[n].replay PROVE FALSE
    OBVIOUS
  <2> DEFINE key == st[n].key
             at == k.loads[n].at
  <2>1. n \in 1 .. n
    BY <1>1
  <2>2. Followed(d, st[n], k.loads[n], ChainOf(c, n), FlagOf(k, c, n))
    BY <2>1 DEF Following
  <2>3. Checkpoints(d, key, st[n].ckpt, Len(key.content) + 1)
    BY <2>2 DEF Followed
  <2>4. at \in 1 .. Len(key.content) /\ key.content[at].op = "load" /\ key.content[at].file = f
    BY DEF LoadsNext
  <2>5. at \in 1 .. (Len(key.content) + 1) - 1
    <3>1. st[n] \in Contexts
      BY <1>1, <2>1, ElementOfSeq
    <3>2. key \in Keys
      BY <3>1 DEF Contexts, KeyedContexts, UnkeyedContexts
    <3>3. Len(key.content) \in Nat
      BY <3>2, LenProperties DEF Keys, Forms
    <3> HIDE DEF key, at
    <3> QED BY <2>4, <3>3
  <2> HIDE DEF key, at
  <2>6. Checkpoint(d, key, st[n].ckpt, at)
    BY <2>3, <2>4, <2>5 DEF Checkpoints
  <2> QED BY <2>4, <2>6 DEF Checkpoint
<1>7. Unpoisoned(st2)
  <2>1. ASSUME NEW i \in 1 .. n + 1, st2[i].replay
        PROVE  ~st2[i].poisoned
    <3>1. CASE i = n + 1
      BY <1>3, <1>4, <2>1, <3>1
    <3>2. CASE i # n + 1
      <4>1. i \in 1 .. n
        BY <1>1, <3>2
      <4>2. i # n
        BY <1>4, <1>5, <1>6, <2>1, <4>1
      <4>3. st2[i] = st[i]
        BY <1>4, <1>5, <4>1, <4>2
      <4> QED BY <2>1, <4>1, <4>3 DEF Unpoisoned
    <3> QED BY <3>1, <3>2
  <2> QED BY <1>4, <2>1 DEF Unpoisoned
<1>8. ~Alive(k2, e)
  BY <1>1, <1>3, <1>4 DEF Alive
<1> QED BY <1>7, <1>8 DEF Aligns

LEMMA EnteredAligns ==
  ASSUME TypeOK, FilesSound, FilesWhole(disk), NEW c \in Cachers, NEW k \in SessionStates,
         Following(k, c, disk), Unpoisoned(c.stack), NEW n, n = Len(c.stack), n = Len(k.loads),
         NEW f \in Files, LoadsNext(k, c, f),
         NEW k2, k2 = [k EXCEPT !.loads = Append(@, Load(f, k.tc))],
         NEW e, e = Entered(c, disk[f], k.tc)
  PROVE  Aligns(k2, e, disk)
<1> DEFINE content == disk[f]
           key == Key(c, content, k.tc)
           load == Load(f, k.tc)
<1>1. /\ c.stack \in Seq(Contexts) /\ k.loads \in Seq(Loads) /\ k.tc \in BOOLEAN
      /\ n \in Nat /\ c.chain \in Chains /\ content \in Forms \cup {Missing}
  BY LenProperties, ContentType DEF Cachers, SessionStates
<1>2. load \in Loads /\ load.file = f /\ load.at = 1
  BY <1>1, LoadType DEF Load
<1> HIDE DEF load
<1>3. /\ Len(k2.loads) = n + 1 /\ k2.loads[n + 1] = load /\ k2.tc = k.tc
      /\ \A i \in 1 .. n : k2.loads[i] = k.loads[i]
  <2>1. k2.loads = Append(k.loads, load) /\ k2.tc = k.tc
    BY DEF SessionStates, load
  <2> QED BY <1>1, <1>2, <2>1, AppendProperties
<1>4. CASE content = Missing
  <2>1. Enclosing(c.stack) \in Withins
    BY <1>1, EnclosingType
  <2>2. e.stack = Append(PoisonedTop(c.stack), Unkeyed(Enclosing(c.stack)))
    BY <1>4 DEF Entered, Cachers
  <2> QED BY <1>4, <2>1, <2>2, MissingAligns
<1>5. CASE content # Missing
  <2>1. content \in Forms /\ key \in Keys /\ key.content = content /\ key.tc = k.tc
        /\ key.chain = c.chain
    BY <1>1, <1>5, KeyType DEF Key
  <2> HIDE DEF key
  <2>2. PICK top \in KeyedContexts :
          /\ e.stack = Append(c.stack, top) /\ e.chain = c.chain
          /\ ~top.poisoned /\ top.key = key
          /\ top.replay => Hit(key) /\ Served(top, Recording(key))
    BY <1>1, <1>5, <2>1, EnteredNew DEF key
  <2>3. /\ Len(e.stack) = n + 1 /\ e.stack[n + 1] = top
        /\ \A i \in 1 .. n : e.stack[i] = c.stack[i]
    <3>1. top \in Contexts
      BY DEF Contexts
    <3> DEFINE q == c.stack
    <3>2. q \in Seq(Contexts) /\ Len(q) = n
      BY <1>1
    <3> HIDE DEF q
    <3>3. /\ Len(Append(q, top)) = n + 1 /\ Append(q, top)[n + 1] = top
          /\ \A i \in 1 .. n : Append(q, top)[i] = q[i]
      BY <3>1, <3>2, AppendProperties
    <3> QED BY <2>2, <3>3 DEF q
  <2>4. Followed(disk, top, load, c.chain, k.tc)
    <3>1. Spot(Origin(key), 1, c.chain, k.tc) \in Walk(disk)
      BY <2>1, OriginType, WalkBegin
    <3>2. Checkpoints(disk, key, top.ckpt, 1)
      BY DEF Checkpoints
    <3>3. top.replay => Checkpoints(disk, key, top.ckpt, Len(key.content) + 1)
      <4>1. Hit(key) => Whole(disk, key, Recording(key))
        <5> DEFINE p == TcFile(key)
        <5>1. p[2] = key
          BY DEF TcFile
        <5> HIDE DEF p
        <5> QED BY <5>1 DEF Hit, Recording, FilesWhole, p
      <4> QED BY <2>2, <4>1 DEF Whole, Served
    <3> QED BY <1>2, <2>1, <2>2, <3>1, <3>2, <3>3 DEF Followed
  <2>5. n # 0 => c.stack[n].key.content[k.loads[n].at].file = load.file
    BY <1>2 DEF LoadsNext
  <2> HIDE DEF content
  <2>6. /\ e.chain = c.chain /\ k2.tc = k.tc /\ top.key.chain = c.chain /\ top.key.tc = k.tc
        /\ top = e.stack[n + 1] /\ load = k2.loads[n + 1] /\ Len(e.stack) = n + 1
        /\ \A i \in 1 .. n : /\ e.stack[i] = c.stack[i] /\ k2.loads[i].file = k.loads[i].file
                             /\ k2.loads[i].at = k.loads[i].at
    BY <1>3, <2>1, <2>2, <2>3
  <2> QED BY <1>1, <2>4, <2>5, <2>6, PushFollows
<1> QED BY <1>4, <1>5

\* A session at its prompt has nothing to follow.
LEMMA PromptFollows ==
  ASSUME NEW k, NEW c, NEW d, Len(c.stack) = 0
  PROVE  Following(k, c, d) /\ Unpoisoned(c.stack) /\ Aligns(k, c, d)
BY DEF Following, Unpoisoned, Aligns

LEMMA LoadTopAligns ==
  ASSUME TypeOK, FilesSound, FilesWhole(disk), NEW s \in Sessions, NEW f \in Files,
         LoadTop(s, f)
  PROVE  Aligns(session'[s], cacher'[s], disk)
<1> DEFINE k == session[s]
           c == cacher[s]
           k2 == session'[s]
           e == cacher'[s]
<1>1. /\ k.loads = <<>> /\ k \in SessionStates /\ c \in Cachers /\ c.stack = <<>>
      /\ k2 = [k EXCEPT !.loads = Append(@, Load(f, k.tc))]
      /\ e = Entered(c, disk[f], k.tc)
  BY SessionType DEF LoadTop, LoadFile, Begin, Begun, Caches, TypeOK
<1> HIDE DEF k, c, k2, e
<1>2. Len(c.stack) = 0 /\ Len(k.loads) = 0
  BY <1>1
<1>3. LoadsNext(k, c, f) /\ Following(k, c, disk) /\ Unpoisoned(c.stack)
  BY <1>2, PromptFollows DEF LoadsNext
<1>4. Aligns(k2, e, disk)
  BY <1>1, <1>2, <1>3, EnteredAligns
<1> QED BY <1>4 DEF k2, e

LEMMA NestedAligns ==
  ASSUME TypeOK, FilesSound, FilesWhole(disk), NEW s \in Sessions,
         Evaluate(s), FormNow(s).op = "load",
         Stands(session[s], cacher[s], disk), Aligns(session[s], cacher[s], disk)
  PROVE  Aligns(session'[s], cacher'[s], disk)
<1> DEFINE n == Len(cacher[s].stack)
           ctx == Context1(s)
           load == Now(s)
           form == FormNow(s)
           k0 == session[s]
           c0 == cacher[s]
           k2 == session'[s]
           e == cacher'[s]
<1>1. Loading(s) /\ load.stage = "eval" /\ More(s)
  BY NestMoves
<1>2. /\ n \in Nat \ {0} /\ n = Len(k0.loads) /\ n = Len(c0.stack)
      /\ ctx = c0.stack[n] /\ load = k0.loads[n]
      /\ Unpoisoned(c0.stack) /\ Following(k0, c0, disk)
  BY <1>1, FollowsNow
<1>3. load.at \in 1 .. Len(ctx.key.content) /\ form = ctx.key.content[load.at]
  BY <1>1, FormFollows
<1>4. PICK next, k, c, f : NestedIn(s, next, k, c, f)
  BY NestMoves
<1>5. /\ next.at = load.at /\ next.file = load.file
      /\ k \in SessionStates /\ k.tc = k0.tc /\ Replaces(k0.loads, k.loads, next)
      /\ c \in Cachers /\ c.stack = c0.stack /\ c.chain = c0.chain
      /\ f \in Files /\ f = form.file
      /\ k2 = [k EXCEPT !.loads = Append(@, Load(f, k.tc))]
      /\ e = Entered(c, disk[f], k.tc)
  BY <1>4 DEF NestedIn, Stack
<1>6. form.op = "load"
  OBVIOUS
<1> HIDE DEF n, ctx, load, form, k0, c0, k2, e
<1>7. /\ Len(k.loads) = n /\ k.loads[n] = next
      /\ \A i \in 1 .. n : k.loads[i].at = k0.loads[i].at /\ k.loads[i].file = k0.loads[i].file
  <2>1. /\ Len(k.loads) = n /\ n \in 1 .. n
        /\ \A i \in 1 .. n : k.loads[i] = IF i = n THEN next ELSE k0.loads[i]
    <3>1. /\ Len(k.loads) = Len(k0.loads)
          /\ \A i \in 1 .. Len(k0.loads) :
               k.loads[i] = IF i = Len(k0.loads) THEN next ELSE k0.loads[i]
      BY <1>5 DEF Replaces
    <3>2. n = Len(k0.loads) /\ n \in 1 .. n
      BY <1>2
    <3> QED BY <3>1, <3>2
  <2>2. ASSUME NEW i \in 1 .. n
        PROVE  k.loads[i].at = k0.loads[i].at /\ k.loads[i].file = k0.loads[i].file
    <3>1. CASE i = n
      <4>1. k.loads[i] = next /\ k0.loads[i] = load
        BY <1>2, <2>1, <3>1
      <4> QED BY <1>5, <4>1
    <3>2. CASE i # n
      BY <2>1, <3>2
    <3> QED BY <3>1, <3>2
  <2> QED BY <2>1, <2>2
<1>8. LoadsNext(k, c, f)
  BY <1>2, <1>3, <1>5, <1>6, <1>7 DEF LoadsNext
<1>9. Following(k, c, disk)
  <2>1. ASSUME NEW i \in 1 .. n
        PROVE  Followed(disk, c.stack[i], k.loads[i], ChainOf(c, i), FlagOf(k, c, i))
    <3>1. Followed(disk, c0.stack[i], k0.loads[i], ChainOf(c0, i), FlagOf(k0, c0, i))
      BY <1>2 DEF Following
    <3>2. ChainOf(c, i) = ChainOf(c0, i) /\ FlagOf(k, c, i) = FlagOf(k0, c0, i)
      BY <1>5 DEF ChainOf, FlagOf
    <3> QED BY <1>5, <1>7, <3>1, <3>2 DEF Followed
  <2>2. ASSUME NEW i \in 1 .. n - 1
        PROVE  c.stack[i].key.content[k.loads[i].at].file = k.loads[i + 1].file
    <3>1. i \in 1 .. n /\ i + 1 \in 1 .. n
      BY <1>2
    <3>2. c0.stack[i].key.content[k0.loads[i].at].file = k0.loads[i + 1].file
      BY <1>2 DEF Following
    <3> QED BY <1>5, <1>7, <3>1, <3>2
  <2> QED BY <1>2, <1>5, <2>1, <2>2 DEF Following
<1>10. Unpoisoned(c.stack) /\ n = Len(c.stack)
  BY <1>2, <1>5
<1>11. Aligns(k2, e, disk)
  BY <1>5, <1>7, <1>8, <1>9, <1>10, EnteredAligns
<1> QED BY <1>11 DEF k2, e

(* ---- a load ends ----------------------------------------------------------------------- *)

LEMMA CheckpointsGrow ==
  ASSUME NEW d, NEW key, NEW ckpt \in Seq(Chains), NEW chain \in Chains, NEW i,
         Checkpoint(d, key, ckpt, i)
  PROVE  Checkpoint(d, key, Append(ckpt, chain), i)
<1> DEFINE m == LoadsBefore(key.content, i) + 1
           ckpt2 == Append(ckpt, chain)
<1>1. /\ d[key.content[i].file] # Missing /\ m \in DOMAIN ckpt
      /\ \E tc \in BOOLEAN : Spot(Origin(key), i + 1, ckpt[m], tc) \in Walk(d)
  BY DEF Checkpoint
<1> HIDE DEF m
<1>2. m \in DOMAIN ckpt2 /\ ckpt2[m] = ckpt[m]
  <2>1. m \in 1 .. Len(ckpt) /\ Len(ckpt) \in Nat
    BY <1>1, LenProperties
  <2>2. /\ ckpt2 \in Seq(Chains) /\ Len(ckpt2) = Len(ckpt) + 1
        /\ \A j \in 1 .. Len(ckpt) : ckpt2[j] = ckpt[j]
    BY AppendProperties
  <2> HIDE DEF ckpt2
  <2>3. DOMAIN ckpt2 = 1 .. Len(ckpt) + 1
    BY <2>2, LenProperties
  <2> QED BY <2>1, <2>2, <2>3
<1> HIDE DEF ckpt2
<1>3. \E tc \in BOOLEAN : Spot(Origin(key), i + 1, ckpt2[m], tc) \in Walk(d)
  BY <1>1, <1>2
<1> QED BY <1>1, <1>2, <1>3 DEF Checkpoint, m, ckpt2

\* What the load around goes through, and that the chain it meets is the one its
\* recording holds.
LEMMA CheckpointedFollows ==
  ASSUME NEW d, NEW ctx \in KeyedContexts, NEW load \in Loads, Level(ctx, load),
         load.stage = "nested", load.at <= Len(ctx.hash), ctx.hash[load.at].op = "load",
         NEW waits, NEW flag, Followed(d, ctx, load, waits, flag),
         NEW content \in Forms, content = d[ctx.hash[load.at].file], content # Missing,
         NEW last, NEW then,
         Spot(Start0(waits, content, flag), Len(content) + 1, last, then) \in Walk(d),
         NEW chain \in Chains, chain = Append(last, Ended(content, flag))
  PROVE  LET top == Checkpointed(ctx, chain)
             next == Onward(load)
         IN /\ top.key = ctx.key /\ next.file = load.file
            /\ Followed(d, top, next, chain, then)
<1> DEFINE top == Checkpointed(ctx, chain)
           next == Onward(load)
           key == ctx.key
           at == load.at
           done == LoadsBefore(ctx.hash, at)
           m == LoadsBefore(key.content, at) + 1
           p == [ctx EXCEPT !.digest = Append(@, chain)]
           from == Origin(key)
<1>1. /\ key \in Keys /\ key.content = ctx.hash /\ ctx.keyed /\ ~ctx.poisoned
      /\ Steady(ctx, load) /\ ctx.ckpt \in Seq(Chains) /\ Len(ctx.ckpt) \in Nat
      /\ at \in 1 .. Len(key.content) /\ at \in Nat \ {0}
      /\ key.content = d[load.file] /\ Spot(from, at, waits, flag) \in Walk(d)
  <2>1. key \in Keys /\ key.content = ctx.hash /\ ctx.keyed /\ ctx.ckpt \in Seq(Chains)
        /\ ctx.hash \in Forms /\ at \in Nat \ {0}
    BY DEF KeyedContexts, Level, Keyed, Loads
  <2>2. Len(ctx.ckpt) \in Nat /\ Len(ctx.hash) \in Nat
    BY <2>1, LenProperties DEF Forms
  <2>3. /\ ~ctx.poisoned /\ key.content = d[load.file]
        /\ Spot(from, at, waits, flag) \in Walk(d)
    BY DEF Followed
  <2>4. Steady(ctx, load)
    BY <2>3 DEF Level
  <2> HIDE DEF key, at, from
  <2>5. at \in 1 .. Len(key.content)
    BY <2>1, <2>2 DEF at
  <2> QED BY <2>1, <2>2, <2>3, <2>4, <2>5 DEF key
<1>2. next.at = at + 1 /\ next.file = load.file
  BY DEF Onward, Loads
<1>3. from \in Starts /\ from.content = key.content
  BY <1>1, OriginType
<1> HIDE DEF from
<1>4. Spot(from, at + 1, chain, then) \in Walk(d)
  <2>1. from.content[at].op = "load" /\ content = d[from.content[at].file]
    BY <1>1, <1>3
  <2>2. at \in 1 .. Len(from.content)
    BY <1>1, <1>3
  <2> HIDE DEF at
  <2> QED BY <1>1, <1>3, <2>1, <2>2, WalkNest
<1>5. then \in BOOLEAN
  <2>1. Spot(from, at + 1, chain, then) \in Spots
    BY <1>4, WalkStep
  <2> QED BY <2>1 DEF Spot, Spots
<1>6. /\ p.keyed /\ p.key = key /\ p.replay = ctx.replay /\ p.poisoned = ctx.poisoned
      /\ p.ckpt = ctx.ckpt /\ p.ckptCursor = ctx.ckptCursor /\ p \in KeyedContexts
  <2>1. Append(ctx.digest, chain) \in Digests
    BY AppendProperties DEF Digests, KeyedContexts
  <2> QED BY <1>1, <2>1 DEF KeyedContexts
<1> HIDE DEF p
<1>7. /\ ctx.replay => ctx.ckptCursor = m
      /\ ~ctx.replay => Len(ctx.ckpt) + 1 = m
  BY <1>1 DEF Steady
<1>8. CASE ~ctx.replay
  <2> DEFINE ckpt2 == Append(ctx.ckpt, chain)
  <2>1. top = [p EXCEPT !.ckpt = Append(@, chain)]
    BY <1>1, <1>6, <1>8 DEF Checkpointed, p
  <2>2. top.key = key /\ ~top.replay /\ ~top.poisoned /\ top.ckpt = ckpt2
    BY <1>1, <1>6, <1>8, <2>1 DEF KeyedContexts
  <2>3. Checkpoints(d, key, ctx.ckpt, at)
    BY <1>8 DEF Followed
  <2>4. Checkpoint(d, key, ckpt2, at)
    <3>1. m \in DOMAIN ckpt2 /\ ckpt2[m] = chain
      <4>1. /\ ckpt2 \in Seq(Chains) /\ Len(ckpt2) = Len(ctx.ckpt) + 1
            /\ ckpt2[Len(ctx.ckpt) + 1] = chain
        BY <1>1, AppendProperties
      <4> HIDE DEF ckpt2
      <4>2. DOMAIN ckpt2 = 1 .. Len(ctx.ckpt) + 1
        BY <4>1, LenProperties
      <4> QED BY <1>1, <1>7, <1>8, <4>1, <4>2
    <3>2. d[key.content[at].file] # Missing
      BY <1>1
    <3> HIDE DEF key, at, ckpt2, m
    <3> QED BY <1>4, <1>5, <3>1, <3>2 DEF Checkpoint, m, from
  <2>5. Checkpoints(d, key, ckpt2, at + 1)
    <3>1. ASSUME NEW i \in 1 .. (at + 1) - 1, key.content[i].op = "load"
          PROVE  Checkpoint(d, key, ckpt2, i)
      <4>1. CASE i = at
        BY <2>4, <4>1
      <4>2. CASE i # at
        <5>1. i \in 1 .. at - 1
          BY <1>1, <4>2
        <5>2. Checkpoint(d, key, ctx.ckpt, i)
          BY <2>3, <3>1, <5>1 DEF Checkpoints
        <5> QED BY <1>1, <5>2, CheckpointsGrow
      <4> QED BY <4>1, <4>2
    <3> HIDE DEF key, at, ckpt2
    <3> QED BY <3>1 DEF Checkpoints
  <2> HIDE DEF top, next
  <2>6. Followed(d, top, next, chain, then)
    BY <1>1, <1>2, <1>4, <2>2, <2>5 DEF Followed, from
  <2> QED BY <1>2, <2>2, <2>6 DEF top, next
<1>9. CASE ctx.replay
  <2>1. Checkpoints(d, key, ctx.ckpt, Len(key.content) + 1)
    BY <1>9 DEF Followed
  <2>2. Checkpoint(d, key, ctx.ckpt, at)
    <3>1. at \in 1 .. (Len(key.content) + 1) - 1
      <4>1. Len(key.content) \in Nat
        BY <1>1, LenProperties DEF Keys, Forms
      <4> QED BY <1>1, <4>1
    <3>2. key.content[at].op = "load"
      BY <1>1
    <3> HIDE DEF key, at
    <3> QED BY <2>1, <3>1, <3>2 DEF Checkpoints
  <2>3. m \in DOMAIN ctx.ckpt /\ ctx.ckpt[m] = chain
    <3>1. PICK tc \in BOOLEAN : Spot(from, at + 1, ctx.ckpt[m], tc) \in Walk(d)
      BY <2>2 DEF Checkpoint, from
    <3>2. m \in DOMAIN ctx.ckpt
      BY <2>2 DEF Checkpoint
    <3> HIDE DEF at, m
    <3> QED BY <1>4, <3>1, <3>2, WalkChain
  <2>4. top = [p EXCEPT !.ckptCursor = @ + 1]
    <3>1. p.ckptCursor \in DOMAIN p.ckpt /\ p.ckpt[p.ckptCursor] = chain
      BY <1>6, <1>7, <1>9, <2>3
    <3> QED BY <1>1, <1>6, <1>9, <3>1 DEF Checkpointed, p
  <2>5. top.key = key /\ top.replay /\ ~top.poisoned /\ top.ckpt = ctx.ckpt
    BY <1>1, <1>6, <1>9, <2>4 DEF KeyedContexts
  <2> HIDE DEF top, next
  <2>6. Followed(d, top, next, chain, then)
    BY <1>1, <1>2, <1>4, <2>1, <2>5 DEF Followed, from
  <2> QED BY <1>2, <2>5, <2>6 DEF top, next
<1> QED BY <1>8, <1>9

LEMMA MissingNoForms == Missing \notin Forms
<1> SUFFICES ASSUME Missing \in Forms PROVE FALSE
  OBVIOUS
<1> DEFINE q == Missing
<1>1. q \in Seq(Form) /\ 1 \in 1 .. Len(q) /\ q[1] = [op |-> "missing"]
  BY DEF Missing, Forms
<1> HIDE DEF q
<1>2. q[1] \in Form
  BY <1>1, ElementOfSeq
<1> QED BY <1>1, <1>2 DEF Form

\* The loads around one that ends, as they waited for it.
Waited(k, c, k1, c1, m) ==
  /\ Len(c.stack) = m + 1 /\ Len(c1.stack) = m
  /\ \A i \in 1 .. m : c1.stack[i] = c.stack[i] /\ k1.loads[i] = k.loads[i]
  /\ c1.chain = c.stack[m + 1].key.chain /\ k1.tc = c.stack[m + 1].key.tc

LEMMA PopFollows ==
  ASSUME NEW k, NEW c, NEW k1, NEW c1, NEW d, NEW m \in Nat \ {0},
         Waited(k, c, k1, c1, m), Following(k, c, d)
  PROVE  /\ Following(k1, c1, d) /\ Unpoisoned(c1.stack)
         /\ Followed(d, c1.stack[m], k1.loads[m], c1.chain, k1.tc)
         /\ c1.stack[m].key.content[k1.loads[m].at].file = k.loads[m + 1].file
<1> DEFINE st == c.stack
           lo == k.loads
           st1 == c1.stack
           lo1 == k1.loads
<1>0. /\ Len(st) = m + 1 /\ Len(st1) = m
      /\ \A i \in 1 .. m : st1[i] = st[i] /\ lo1[i] = lo[i]
      /\ c1.chain = st[m + 1].key.chain /\ k1.tc = st[m + 1].key.tc
  BY DEF Waited
<1>1. ASSUME NEW i \in 1 .. m
      PROVE  Followed(d, st1[i], lo1[i], ChainOf(c1, i), FlagOf(k1, c1, i))
  <2>1. i \in 1 .. m + 1 /\ i # m + 1
    OBVIOUS
  <2>2. Followed(d, st[i], lo[i], ChainOf(c, i), FlagOf(k, c, i))
    BY <1>0, <2>1 DEF Following
  <2>3. ChainOf(c1, i) = ChainOf(c, i) /\ FlagOf(k1, c1, i) = FlagOf(k, c, i)
    <3>1. CASE i = m
      BY <1>0, <2>1, <3>1 DEF ChainOf, FlagOf
    <3>2. CASE i # m
      <4>1. i + 1 \in 1 .. m
        BY <3>2
      <4> QED BY <1>0, <2>1, <3>2, <4>1 DEF ChainOf, FlagOf
    <3> QED BY <3>1, <3>2
  <2> QED BY <1>0, <2>2, <2>3
<1>2. ASSUME NEW i \in 1 .. m
      PROVE  st1[i].key.content[lo1[i].at].file = lo[i + 1].file
  <2>1. i \in 1 .. Len(st) - 1
    BY <1>0
  <2>2. st[i].key.content[lo[i].at].file = lo[i + 1].file
    BY <2>1 DEF Following
  <2> QED BY <1>0, <2>2
<1>3. ASSUME NEW i \in 1 .. m - 1
      PROVE  st1[i].key.content[lo1[i].at].file = lo1[i + 1].file
  <2>1. i \in 1 .. m /\ i + 1 \in 1 .. m
    OBVIOUS
  <2> QED BY <1>0, <1>2, <2>1
<1>4. Following(k1, c1, d)
  BY <1>0, <1>1, <1>3 DEF Following
<1>5. Unpoisoned(st1)
  <2>1. \A i \in 1 .. m : ~st1[i].poisoned
    BY <1>1 DEF Followed
  <2> QED BY <1>0, <2>1 DEF Unpoisoned
<1>6. m \in 1 .. m
  OBVIOUS
<1>7. Followed(d, st1[m], lo1[m], c1.chain, k1.tc)
  <2>1. ChainOf(c1, m) = c1.chain /\ FlagOf(k1, c1, m) = k1.tc
    BY <1>0 DEF ChainOf, FlagOf
  <2>2. Followed(d, st1[m], lo1[m], ChainOf(c1, m), FlagOf(k1, c1, m))
    BY <1>1, <1>6
  <2> QED BY <2>1, <2>2
<1>8. st1[m].key.content[lo1[m].at].file = lo[m + 1].file
  BY <1>2, <1>6
<1> QED BY <1>4, <1>5, <1>7, <1>8

LEMMA EndedAligns ==
  ASSUME NEW k \in SessionStates, NEW c \in Cachers, NEW d, NEW ctx, NEW load,
         AtEndOf(k, c, d, ctx, load), Following(k, c, d),
         NEW k2, k2 = Returned(k, FALSE), NEW c2, c2 = Completed(c)
  PROVE  /\ Aligns(k2, c2, d)
         /\ c2.job # NoJob => Whole(d, c2.job.key, c2.job.rec)
<1> DEFINE n == Len(c.stack)
           m == n - 1
           chain == Append(c.chain, [file |-> ctx.hash, tc |-> ctx.tc])
           outer == SubSeq(c.stack, 1, n - 1)
           loads == SubSeq(k.loads, 1, n - 1)
           content == ctx.key.content
<1>1. /\ n \in Nat \ {0} /\ n = Len(k.loads) /\ ctx = c.stack[n] /\ load = k.loads[n]
      /\ ctx \in KeyedContexts /\ load \in Loads /\ Level(ctx, load)
      /\ load.at = Len(ctx.hash) + 1 /\ Stacked(c.stack, k.loads, n)
      /\ c.stack \in Seq(Contexts) /\ k.loads \in Seq(Loads) /\ c.chain \in Chains
  BY DEF AtEndOf, Cachers, SessionStates
<1>2. /\ content \in Forms /\ ctx.tc \in BOOLEAN /\ ctx.key \in Keys /\ ctx.keyed
      /\ content = ctx.hash /\ ctx.key.tc = ctx.tc /\ content # Missing
  BY <1>1, MissingNoForms DEF KeyedContexts, Level, Keyed
<1>3. chain \in Chains /\ chain = Append(c.chain, Ended(content, ctx.key.tc))
  <2>1. [file |-> ctx.hash, tc |-> ctx.tc] \in [file : Forms, tc : BOOLEAN]
    BY <1>2
  <2>2. chain \in Chains
    BY <1>1, <2>1, AppendProperties DEF Chains
  <2> QED BY <1>2, <2>2 DEF Ended
<1>4. Followed(d, ctx, load, c.chain, k.tc)
  <2>1. n \in 1 .. n
    BY <1>1
  <2>2. Followed(d, c.stack[n], k.loads[n], ChainOf(c, n), FlagOf(k, c, n))
    BY <2>1 DEF Following
  <2> QED BY <1>1, <2>2 DEF ChainOf, FlagOf
<1>5. /\ n = Len(c.stack) /\ outer = SubSeq(c.stack, 1, n - 1)
      /\ loads = SubSeq(k.loads, 1, n - 1) /\ m + 1 = n
      /\ chain = Append(c.chain, [file |-> ctx.hash, tc |-> ctx.tc])
  BY <1>1
<1> HIDE DEF n, chain, outer, loads, content
<1>6. EndedFrom(k, k2, c, c2, n, ctx, chain, outer, loads)
  BY <1>1, <1>2, <1>3, <1>5, EndedMoves
<1>7. c2.job # NoJob => Whole(d, c2.job.key, c2.job.rec)
  <2> SUFFICES ASSUME c2.job # NoJob PROVE Whole(d, c2.job.key, c2.job.rec)
    OBVIOUS
  <2>1. ~ctx.replay /\ c2.job.key = ctx.key /\ c2.job.rec.ckpt = ctx.ckpt
    BY <1>6 DEF EndedFrom, CompletedFrom
  <2>2. Checkpoints(d, ctx.key, ctx.ckpt, load.at) /\ load.at = Len(ctx.key.content) + 1
    BY <1>1, <1>2, <1>4, <2>1 DEF Followed, content
  <2> QED BY <2>1, <2>2 DEF Whole
<1>8. CASE n = 1
  <2>1. c2.stack = <<>>
    BY <1>6, <1>8 DEF EndedFrom
  <2>2. Len(c2.stack) = 0
    BY <2>1
  <2> QED BY <1>7, <2>2, PromptFollows
<1>9. CASE n # 1
  <2> DEFINE around == c.stack[m]
             parent == k.loads[m]
             top == Checkpointed(around, chain)
             next == Onward(parent)
             c1 == [c EXCEPT !.stack = outer, !.chain = ctx.key.chain]
             k1 == [k EXCEPT !.loads = loads, !.tc = ctx.key.tc]
  <2>0. n \in Nat \ {0}
    BY <1>1
  <2>1. m \in Nat \ {0} /\ m \in 1 .. n /\ m \in 1 .. n - 1 /\ m + 1 = n
    BY <1>9, <2>0
  <2> HIDE DEF m
  <2>2. Level(around, parent) /\ Link(around, parent, ctx)
    BY <1>1, <2>1 DEF Stacked
  <2>3. around \in Contexts /\ parent \in Loads
    <3>1. m \in 1 .. Len(c.stack) /\ m \in 1 .. Len(k.loads)
      BY <1>1, <1>5, <2>1
    <3> QED BY <1>1, <3>1, ElementOfSeq
  <2>4. around \in KeyedContexts /\ around.key.content = around.hash
    BY <2>2, <2>3 DEF Contexts, UnkeyedContexts, Level, Keyed
  <2>5. /\ outer[m] = around /\ loads[m] = parent /\ Len(outer) = m /\ Len(loads) = m
        /\ \A i \in 1 .. m : outer[i] = c.stack[i] /\ loads[i] = k.loads[i]
    <3>1. /\ Len(outer) = n - 1 /\ Len(loads) = n - 1
          /\ \A i \in 1 .. n - 1 : outer[i] = c.stack[i] /\ loads[i] = k.loads[i]
      BY <1>6 DEF EndedFrom
    <3>2. n - 1 = m
      BY <1>1, <2>1
    <3> QED BY <2>1, <3>1, <3>2
  <2>6. /\ Replaces(outer, c2.stack, top) /\ Replaces(loads, k2.loads, next)
        /\ c2.chain = chain /\ k2.tc = k.tc
    <3>1. n - 1 = m
      BY <1>1, <2>1
    <3> QED BY <1>6, <1>9, <2>5, <3>1 DEF EndedFrom, CompletedFrom, ReturnedFrom
  <2>7. /\ c1.stack = outer /\ c1.chain = ctx.key.chain
        /\ k1.loads = loads /\ k1.tc = ctx.key.tc
    BY DEF Cachers, SessionStates
  <2> HIDE DEF c1, k1, around, parent, top, next
  <2>8. /\ Following(k1, c1, d) /\ Unpoisoned(c1.stack)
        /\ Followed(d, around, parent, ctx.key.chain, ctx.key.tc)
        /\ around.key.content[parent.at].file = load.file
    <3>1. Waited(k, c, k1, c1, m)
      BY <1>1, <1>5, <2>1, <2>5, <2>7 DEF Waited
    <3>2. /\ Following(k1, c1, d) /\ Unpoisoned(c1.stack)
          /\ Followed(d, c1.stack[m], k1.loads[m], c1.chain, k1.tc)
          /\ c1.stack[m].key.content[k1.loads[m].at].file = k.loads[m + 1].file
      BY <2>1, <3>1, PopFollows
    <3>3. c1.stack[m] = around /\ k1.loads[m] = parent /\ k.loads[m + 1] = load
      BY <1>1, <2>1, <2>5, <2>7
    <3> QED BY <2>7, <3>2, <3>3
  <2>9. /\ parent.stage = "nested" /\ parent.at <= Len(around.hash)
        /\ around.hash[parent.at].op = "load"
    BY <2>2 DEF Link
  <2>10. content = d[around.hash[parent.at].file]
    BY <1>4, <2>4, <2>8 DEF Followed, content
  <2>11. Spot(Start0(ctx.key.chain, content, ctx.key.tc), Len(content) + 1, c.chain, k.tc)
           \in Walk(d)
    <3>1. load.at = Len(content) + 1
      BY <1>1, <1>2
    <3> QED BY <1>4, <3>1 DEF Followed, Origin, content
  <2>12. top.key = around.key /\ next.file = parent.file /\ Followed(d, top, next, chain, k.tc)
    BY <1>2, <1>3, <2>2, <2>3, <2>4, <2>8, <2>9, <2>10, <2>11, CheckpointedFollows
    DEF top, next
  <2>13. TopSteps(k1, c1, k2, c2, around, parent, top, next)
    BY <2>1, <2>5, <2>6, <2>7 DEF TopSteps
  <2>14. Aligns(k2, c2, d)
    BY <2>6, <2>8, <2>12, <2>13, TopFollows
  <2> QED BY <1>7, <2>14
<1> QED BY <1>8, <1>9

LEMMA FinishAligns ==
  ASSUME TypeOK, NEW s \in Sessions, Finish(s), Stands(session[s], cacher[s], disk),
         Aligns(session[s], cacher[s], disk)
  PROVE  /\ Aligns(session'[s], cacher'[s], disk)
         /\ cacher'[s].job # NoJob => Whole(disk, cacher'[s].job.key, cacher'[s].job.rec)
<1> DEFINE ctx == Context1(s)
           load == Now(s)
           c == cacher[s]
           k == session[s]
           c2 == cacher'[s]
           k2 == session'[s]
<1>1. /\ Loading(s) /\ load.stage \in {"check", "eval"} /\ ~More(s) /\ k.up
  BY DEF Finish, EndLoad, Loading
<1>2. /\ Len(c.stack) \in Nat \ {0} /\ load \in Loads /\ k \in SessionStates /\ c \in Cachers
      /\ Len(c.stack) = Len(k.loads)
      /\ ctx = c.stack[Len(c.stack)] /\ load = k.loads[Len(c.stack)]
  BY <1>1, FollowsNow
<1>3. Following(k, c, disk)
  BY <1>1, FollowsNow
<1>4. /\ ctx \in KeyedContexts /\ Level(ctx, load) /\ AtTop(ctx, load, c, disk)
      /\ Stacked(c.stack, k.loads, Len(c.stack))
      /\ <<PlaceIn(ctx.key, c.chain, FormAt(load)), k.types>> \in Reach
  BY <1>1, InnermostLoad DEF Stack, Depth
<1>5. /\ Len(ctx.hash) \in Nat /\ load.forms = ctx.hash /\ FormAt(load) = load.at
      /\ load.at \in Nat \ {0} /\ load.at <= Len(ctx.hash) + 1
      /\ ChainHere(ctx, load, c.chain)
  BY <1>1, <1>2, <1>4, LenProperties
  DEF KeyedContexts, Level, Keyed, Staged, Loads, Forms, FormAt, AtTop
<1>6. load.at = Len(ctx.hash) + 1
  BY <1>1, <1>5 DEF More
<1>7. c2 = Completed(c) /\ k2 = Returned(k, FALSE)
  BY DEF Finish, EndLoad, Begin, Caches, TypeOK
<1> HIDE DEF ctx, load, c, k, c2, k2
<1>8. AtEndOf(k, c, disk, ctx, load)
  BY <1>1, <1>2, <1>4, <1>5, <1>6 DEF AtEndOf
<1>9. Aligns(k2, c2, disk) /\ (c2.job # NoJob => Whole(disk, c2.job.key, c2.job.rec))
  BY <1>2, <1>3, <1>7, <1>8, EndedAligns
<1> QED BY <1>9 DEF c2, k2

(* ---- every step of a session ------------------------------------------------------------ *)

\* Everyone goes along its walk, and what is being written and what the directory
\* holds has the checkpoints of one.
Aligned ==
  /\ \A s \in Sessions : Aligns(session[s], cacher[s], disk)
  /\ \A s \in Sessions : Job(s) # NoJob => Whole(disk, Job(s).key, Job(s).rec)
  /\ FilesWhole(disk)

LEMMA SessionAligned ==
  ASSUME TypeOK, Aligned, NEW s \in Sessions, NEW k, NEW c,
         Begin(s, k), Caches(s, c), UNCHANGED disk,
         Aligns(session'[s], cacher'[s], disk),
         cacher'[s].job # NoJob => Whole(disk, cacher'[s].job.key, cacher'[s].job.rec)
  PROVE  Aligned'
<1>1. /\ \A t \in Sessions \ {s} : session'[t] = session[t] /\ cacher'[t] = cacher[t]
      /\ dir' = dir /\ inodes' = inodes /\ disk' = disk
  BY DEF Begin, Caches, TypeOK
<1>2. ASSUME NEW t \in Sessions
      PROVE  Aligns(session'[t], cacher'[t], disk')
  BY <1>1 DEF Aligned
<1>3. ASSUME NEW t \in Sessions, Job(t)' # NoJob
      PROVE  Whole(disk', Job(t)'.key, Job(t)'.rec)
  <2>1. CASE t = s
    BY <1>1, <1>3, <2>1 DEF Job
  <2>2. CASE t # s
    <3>1. Job(t)' = Job(t)
      BY <1>1, <2>2 DEF Job
    <3>2. Job(t) # NoJob => Whole(disk, Job(t).key, Job(t).rec)
      BY DEF Aligned
    <3> QED BY <1>1, <1>3, <3>1, <3>2
  <2> QED BY <2>1, <2>2
<1>4. FilesWhole(disk)'
  BY <1>1 DEF Aligned, FilesWhole
<1> QED BY <1>2, <1>3, <1>4 DEF Aligned

\* A recording that a session was writing, or none, is no new one.
LEMMA KeptWhole ==
  ASSUME Aligned, NEW s \in Sessions, NEW c, c.job \in {cacher[s].job, NoJob}
  PROVE  c.job # NoJob => Whole(disk, c.job.key, c.job.rec)
BY DEF Aligned, Job

LEMMA StartAligned ==
  ASSUME TypeOK, Aligned, NEW s \in Sessions, Start(s) \/ Stop(s)
  PROVE  Aligned'
<1>1. PICK k : Begin(s, k) /\ Caches(s, Idle) /\ UNCHANGED disk
  BY DEF Start, Stop, StartSession, Crash
<1>2. cacher'[s] = Idle
  BY <1>1 DEF Caches, TypeOK
<1>3. Aligns(session'[s], cacher'[s], disk)
  <2> DEFINE c2 == cacher'[s]
             k2 == session'[s]
  <2>1. Len(c2.stack) = 0
    BY <1>2 DEF Idle
  <2> HIDE DEF c2, k2
  <2>2. Aligns(k2, c2, disk)
    BY <2>1, PromptFollows
  <2> QED BY <2>2 DEF c2, k2
<1>4. cacher'[s].job = NoJob
  BY <1>2 DEF Idle
<1> DEFINE c == Idle
<1>5. Caches(s, c)
  BY <1>1
<1> HIDE DEF c
<1> QED BY <1>1, <1>3, <1>4, <1>5, SessionAligned

LEMMA LoadTopAligned ==
  ASSUME TypeOK, Sound, Aligned, NEW s \in Sessions, NEW f \in Files, LoadTop(s, f)
  PROVE  Aligned'
<1> DEFINE k == Begun(s, f)
           c == Entered(cacher[s], disk[f], session[s].tc)
<1>1. Begin(s, k) /\ Caches(s, c) /\ UNCHANGED disk
  BY DEF LoadTop, LoadFile
<1>2. Aligns(session'[s], cacher'[s], disk)
  BY LoadTopAligns DEF Sound, Aligned
<1>3. c.job = cacher[s].job
  BY ContentType, SessionType, EnteredType DEF SessionStates
<1> HIDE DEF k, c
<1>4. cacher'[s] = c
  BY <1>1 DEF Caches, TypeOK
<1>5. cacher'[s].job # NoJob => Whole(disk, cacher'[s].job.key, cacher'[s].job.rec)
  BY <1>3, <1>4, KeptWhole
<1> QED BY <1>1, <1>2, <1>5, SessionAligned

\* The kernel's read, a check and an evaluation, which finish no recording.
LEMMA ReadAligned ==
  ASSUME TypeOK, Sound, Aligned, NEW s \in Sessions, Read(s)
  PROVE  Aligned'
<1>1. PICK k, c : Begin(s, k) /\ Caches(s, c) /\ UNCHANGED disk
  BY DEF Read, ReadForms, Working
<1>2. Aligns(session'[s], cacher'[s], disk) /\ cacher'[s].job = cacher[s].job
  BY ReadAligns DEF Sound, Aligned
<1>3. cacher'[s].job # NoJob => Whole(disk, cacher'[s].job.key, cacher'[s].job.rec)
  BY <1>2, KeptWhole
<1> QED BY <1>1, <1>2, <1>3, SessionAligned

\* A session that checks or evaluates is writing nothing, nor does it begin to.
LEMMA TypecheckKeepsJob ==
  ASSUME TypeOK, NEW s \in Sessions, TypecheckForm(s)
  PROVE  cacher'[s].job = NoJob
<1>1. cacher[s].job = NoJob
  BY DEF TypecheckForm, Free
<1> DEFINE answer == Checking(cacher[s], FormNow(s), session[s].types)
<1>2. cacher'[s] = answer.cacher
  BY DEF TypecheckForm, Caches, TypeOK
<1>3. answer.cacher.job = cacher[s].job
  <2>1. Loading(s) /\ More(s) /\ session[s].loads # <<>>
    BY DEF TypecheckForm, AtStage, Loading
  <2> QED BY <2>1, SessionType, FormType, CheckingType DEF SessionStates
<1> QED BY <1>1, <1>2, <1>3

LEMMA EvaluateKeepsJob ==
  ASSUME TypeOK, NEW s \in Sessions, Evaluate(s)
  PROVE  cacher'[s].job = NoJob
<1>1. cacher[s].job = NoJob
  BY DEF Evaluate, Free
<1>2. CASE FormNow(s).op # "load"
  BY <1>1, <1>2, EvalMoves
<1>3. CASE FormNow(s).op = "load"
  <2>1. PICK next, k1, c1, f : NestedIn(s, next, k1, c1, f)
    BY <1>3, NestMoves
  <2>2. /\ c1 \in Cachers /\ c1.job = cacher[s].job /\ k1 \in SessionStates /\ f \in Files
        /\ cacher'[s] = Entered(c1, disk[f], k1.tc)
    BY <2>1 DEF NestedIn
  <2>3. disk[f] \in Forms \cup {Missing} /\ k1.tc \in BOOLEAN
    BY <2>2, ContentType DEF SessionStates
  <2>4. Entered(c1, disk[f], k1.tc).job = c1.job
    BY <2>2, <2>3, EnteredType
  <2> QED BY <1>1, <2>2, <2>4
<1> QED BY <1>2, <1>3

LEMMA TypecheckAligned ==
  ASSUME TypeOK, Sound, Aligned, NEW s \in Sessions, TypecheckForm(s)
  PROVE  Aligned'
<1>1. PICK k, c : Begin(s, k) /\ Caches(s, c) /\ UNCHANGED disk
  BY DEF TypecheckForm, Working
<1>2. Aligns(session'[s], cacher'[s], disk)
  BY TypecheckAligns DEF Sound, Aligned
<1>3. cacher'[s].job = NoJob
  BY TypecheckKeepsJob
<1> QED BY <1>1, <1>2, <1>3, SessionAligned

LEMMA EvaluateAligned ==
  ASSUME TypeOK, Sound, Aligned, NEW s \in Sessions, Evaluate(s)
  PROVE  Aligned'
<1>1. PICK k, c : Begin(s, k) /\ Caches(s, c) /\ UNCHANGED disk
  BY DEF Evaluate, EvalForm, Working
<1>2. Aligns(session'[s], cacher'[s], disk)
  BY EvaluateAligns, NestedAligns DEF Sound, Aligned
<1>3. cacher'[s].job = NoJob
  BY EvaluateKeepsJob
<1> QED BY <1>1, <1>2, <1>3, SessionAligned

LEMMA FinishAligned ==
  ASSUME TypeOK, Sound, Aligned, NEW s \in Sessions, Finish(s)
  PROVE  Aligned'
<1>1. PICK k, c : Begin(s, k) /\ Caches(s, c) /\ UNCHANGED disk
  BY DEF Finish, EndLoad, Working
<1>2. /\ Aligns(session'[s], cacher'[s], disk)
      /\ cacher'[s].job # NoJob => Whole(disk, cacher'[s].job.key, cacher'[s].job.rec)
  BY FinishAligns DEF Sound, Aligned
<1> QED BY <1>1, <1>2, SessionAligned

\* Writing touches no stack, and moves recordings that are whole.
LEMMA WriteAligned ==
  ASSUME TypeOK, TypeOK', FilesOwned, Sound, Aligned, NEW s \in Sessions, WriteStep(s)
  PROVE  Aligned'
<1>1. disk' = disk /\ session' = session
  BY DEF WriteStep, OpenTmp, WriteTmp, Rename, RemoveTmp, Elsewhere
<1>2. ASSUME NEW t \in Sessions
      PROVE  Aligns(session'[t], cacher'[t], disk')
  <2> DEFINE k == session[t]
             c == cacher[t]
             c2 == cacher'[t]
  <2>1. Aligns(k, c, disk) /\ c2.stack = c.stack /\ c2.chain = c.chain
    BY WritingKeeps DEF Aligned
  <2> HIDE DEF k, c, c2
  <2>2. /\ \A i : ChainOf(c2, i) = ChainOf(c, i) /\ FlagOf(k, c2, i) = FlagOf(k, c, i)
        /\ Alive(k, c2) => Alive(k, c)
    BY <2>1 DEF ChainOf, FlagOf, Alive
  <2>3. Aligns(k, c2, disk)
    BY <2>1, <2>2 DEF Aligns, Following
  <2> QED BY <1>1, <2>3 DEF k, c2
<1>3. ASSUME NEW t \in Sessions, Job(t)' # NoJob
      PROVE  Whole(disk', Job(t)'.key, Job(t)'.rec)
  <2>1. Job(t) # NoJob /\ Job(t)'.key = Job(t).key /\ Job(t)'.rec = Job(t).rec
    BY <1>3, WritingMoves
  <2>2. Whole(disk, Job(t).key, Job(t).rec)
    BY <2>1 DEF Aligned
  <2> QED BY <1>1, <2>1, <2>2
<1>4. ASSUME NEW p \in DOMAIN dir', inodes'[dir'[p]] # Torn
      PROVE  Whole(disk', p[2], inodes'[dir'[p]])
  <2>1. \/ \E q \in DOMAIN dir : q[2] = p[2] /\ inodes'[dir'[p]] = inodes[dir[q]]
        \/ ~Free(s) /\ p[2] = Job(s).key /\ inodes'[dir'[p]] = Job(s).rec
    BY <1>4, WrittenFiles
  <2>2. ~Free(s) => Whole(disk, Job(s).key, Job(s).rec)
    BY DEF Aligned, Free, Job
  <2>3. \A q \in DOMAIN dir : inodes[dir[q]] # Torn => Whole(disk, q[2], inodes[dir[q]])
    BY DEF Aligned, FilesWhole
  <2> QED BY <1>1, <1>4, <2>1, <2>2, <2>3
<1>5. FilesWhole(disk)'
  BY <1>4 DEF FilesWhole
<1> QED BY <1>2, <1>3, <1>5 DEF Aligned

LEMMA AlignedInit ==
  ASSUME Init
  PROVE  Aligned
<1>1. \A s \in Sessions : session[s] = Down /\ cacher[s] = Idle
  BY DEF Init, LoadInit
<1>2. ASSUME NEW s \in Sessions
      PROVE  Aligns(session[s], cacher[s], disk)
  <2> DEFINE c == cacher[s]
             k == session[s]
  <2>1. Len(c.stack) = 0
    BY <1>1 DEF Idle
  <2> HIDE DEF c, k
  <2>2. Aligns(k, c, disk)
    BY <2>1, PromptFollows
  <2> QED BY <2>2 DEF c, k
<1>3. \A s \in Sessions : Job(s) = NoJob
  BY <1>1 DEF Idle, Job
<1>4. FilesWhole(disk)
  BY DEF Init, FilesWhole
<1> QED BY <1>2, <1>3, <1>4 DEF Aligned

\* Files stay as they are, and no session gives a load up.
Undisturbed == UNCHANGED disk /\ NoneGivesUp

LEMMA AlignedStep ==
  ASSUME TypeOK, TypeOK', FilesOwned, Sound, Aligned, [Next]_vars, [Undisturbed]_vars
  PROVE  Aligned'
<1>1. CASE UNCHANGED vars
  <2>1. UNCHANGED <<disk, session, moves, cacher, dir, inodes>>
    BY <1>1 DEF vars
  <2>2. \A s \in Sessions : Aligns(session'[s], cacher'[s], disk') /\ Job(s)' = Job(s)
    BY <2>1 DEF Aligned, Job
  <2>3. FilesWhole(disk)'
    BY <2>1 DEF Aligned, FilesWhole
  <2> QED BY <2>1, <2>2, <2>3 DEF Aligned
<1>2. CASE ~UNCHANGED vars
  <2>1. disk' = disk /\ \A s \in Sessions : ~GiveUp(s)
    BY <1>2 DEF Undisturbed, NoneGivesUp
  <2>2. ~\E f \in Files : EditFile(f)
    BY <2>1 DEF EditFile, Edit, TypeOK
  <2>3. PICK s \in Sessions :
          \/ Start(s) \/ Stop(s) \/ \E f \in Files : LoadTop(s, f)
          \/ Read(s) \/ TypecheckForm(s) \/ Evaluate(s) \/ Finish(s) \/ WriteStep(s)
    BY <1>2, <2>1, <2>2 DEF Next, WriteStep
  <2> QED BY <2>3, StartAligned, LoadTopAligned, ReadAligned, TypecheckAligned,
             EvaluateAligned, FinishAligned, WriteAligned
<1> QED BY <1>1, <1>2

\* A replay serves its recording to the end: no form, and no load nested in it,
\* makes it turn away from it, whoever recorded it and however sessions interleave,
\* crash and write (the checkpoints of load_wrapper, tc_cache.rs).  Files stay as
\* they are and no load is given up: otherwise a replay may have to turn away.
THEOREM ReplaysAlign ==
  Spec /\ [][Undisturbed]_vars => []ReplaysAligned
<1>1. Init => TypeOK /\ FilesOwned /\ Sound /\ Aligned
  BY InitType, FilesOwnedInit, SoundInit, AlignedInit
<1>2. [Undisturbed]_vars /\ [Next]_vars /\ TypeOK
        => [EditsApart /\ FailuresLeaveNoTrace]_vars
  BY DEF Undisturbed, NoneGivesUp, EditsApart, FailuresLeaveNoTrace, EditFile, Edit, TypeOK
<1>3. TypeOK /\ FilesOwned /\ Sound /\ Aligned /\ [Next]_vars /\ [Undisturbed]_vars
        => TypeOK' /\ FilesOwned' /\ Sound' /\ Aligned'
  BY <1>2, NextType, FilesOwnedStep, SoundStep, AlignedStep
<1>4. TypeOK /\ Aligned => ReplaysAligned
  <2> SUFFICES ASSUME TypeOK, Aligned, NEW s \in Sessions, NEW i \in DOMAIN Stack(s),
                      Stack(s)[i].replay
               PROVE  ~Stack(s)[i].poisoned
    BY DEF ReplaysAligned
  <2>1. Stack(s) \in Seq(Contexts) /\ Unpoisoned(Stack(s))
    BY SessionType DEF Aligned, Aligns, Stack, Cachers
  <2>2. i \in 1 .. Len(Stack(s))
    BY <2>1, LenProperties
  <2> QED BY <2>1, <2>2 DEF Unpoisoned
<1> QED BY <1>1, <1>3, <1>4, PTL DEF Spec

\* Where every file has one content, that is so in every behaviour without a
\* load given up: nobody can edit.
Versioned == \A f \in Files : disk[f] \in Versions[f]

LEMMA NobodyEdits ==
  ASSUME \A f \in Files : \A x, y \in Versions[f] : x = y, TypeOK, Versioned, [Next]_vars
  PROVE  TypeOK' /\ Versioned' /\ UNCHANGED disk
<1>1. ~\E f \in Files : EditFile(f)
  BY DEF EditFile, Edit, Versioned
<1>2. UNCHANGED disk
  <2>1. CASE UNCHANGED vars
    BY <2>1 DEF vars
  <2>2. CASE \E s \in Sessions : Start(s) \/ Stop(s)
    BY <2>2 DEF Start, Stop, StartSession, Crash
  <2>3. CASE \E s \in Sessions : Read(s) \/ TypecheckForm(s) \/ Evaluate(s)
    BY <2>3 DEF Read, TypecheckForm, Evaluate, ReadForms, EvalForm, Working
  <2>4. CASE \E s \in Sessions : Finish(s) \/ GiveUp(s) \/ \E f \in Files : LoadTop(s, f)
    BY <2>4 DEF Finish, GiveUp, LoadTop, EndLoad, FailLoad, LoadFile, Working
  <2>5. CASE \E s \in Sessions : WriteStep(s)
    BY <2>5 DEF WriteStep, OpenTmp, WriteTmp, Rename, RemoveTmp, Elsewhere
  <2> QED BY <1>1, <2>1, <2>2, <2>3, <2>4, <2>5 DEF Next, WriteStep
<1> QED BY <1>2, NextType DEF Versioned

THEOREM ReplaysAlignUnedited ==
  ASSUME \A f \in Files : \A x, y \in Versions[f] : x = y
  PROVE  Spec /\ [][NoneGivesUp]_vars => []ReplaysAligned
<1>1. Init => Versioned /\ TypeOK
  BY InitType DEF Init, LoadInit, Versioned
<1>2. TypeOK /\ Versioned /\ [Next]_vars => TypeOK' /\ Versioned' /\ UNCHANGED disk
  BY NobodyEdits
<1>3. UNCHANGED disk /\ [NoneGivesUp]_vars => [Undisturbed]_vars
  BY DEF Undisturbed
<1> QED BY <1>1, <1>2, <1>3, ReplaysAlign, PTL DEF Spec

(* ---- the gensyms of a place ------------------------------------------------------------- *)

\* What the way to a place from the one before it costs, and the gensyms that the
\* way from nowhere has cost.
CostAt(q) ==
  IF JustRead(q) THEN CostOfRead(Inner(q).content, Inner(q).tc)
  ELSE IF JustPassed(q)
  THEN (IF Inner(q).tc THEN CostOfCheck(FormBefore(q)) ELSE 0) + CostOfEval(FormBefore(q))
  ELSE 0
ClosedCount(R) ==
  /\ <<Nowhere, 0>> \in R
  /\ \A q \in Places, n, now \in Nat :
       q # Nowhere /\ <<Before(q), n>> \in R /\ now = n + CostAt(q) => <<q, now>> \in R
Count == {x \in Places \X Nat : \A R \in SUBSET (Places \X Nat) : ClosedCount(R) => x \in R}

LEMMA CountStep == Count \subseteq Places \X Nat /\ ClosedCount(Count)
<1>1. <<Nowhere, 0>> \in Count
  BY NowhereType DEF Count, ClosedCount
<1>2. ASSUME NEW q \in Places, NEW n \in Nat, NEW now \in Nat, q # Nowhere,
             <<Before(q), n>> \in Count, now = n + CostAt(q)
      PROVE  <<q, now>> \in Count
  <2>1. ASSUME NEW R \in SUBSET (Places \X Nat), ClosedCount(R)
        PROVE  <<q, now>> \in R
    <3>1. <<Before(q), n>> \in R
      BY <1>2, <2>1 DEF Count
    <3> QED BY <1>2, <2>1, <3>1 DEF ClosedCount
  <2> QED BY <1>2, <2>1 DEF Count
<1>3. Count \subseteq Places \X Nat
  BY DEF Count
<1> QED BY <1>1, <1>2, <1>3 DEF ClosedCount

LEMMA CountBack ==
  ASSUME NEW q, NEW n, <<q, n>> \in Count
  PROVE  \/ q = Nowhere /\ n = 0
         \/ q # Nowhere /\ \E earlier \in Nat : <<Before(q), earlier>> \in Count
                                               /\ n = earlier + CostAt(q)
<1> DEFINE Back(p, t) == \/ p = Nowhere /\ t = 0
                         \/ p # Nowhere /\ \E earlier \in Nat : <<Before(p), earlier>> \in Count
                                                               /\ t = earlier + CostAt(p)
           R == {x \in Count : Back(x[1], x[2])}
<1>1. ClosedCount(R)
  <2>1. <<Nowhere, 0>> \in R
    BY CountStep DEF ClosedCount
  <2>2. ASSUME NEW p \in Places, NEW t \in Nat, NEW now \in Nat, p # Nowhere,
               <<Before(p), t>> \in R, now = t + CostAt(p)
        PROVE  <<p, now>> \in R
    <3>1. <<Before(p), t>> \in Count
      BY <2>2
    <3>2. <<p, now>> \in Count
      BY <2>2, <3>1, CountStep DEF ClosedCount
    <3>3. Back(p, now)
      BY <2>2, <3>1
    <3> QED BY <3>2, <3>3
  <2> HIDE DEF R
  <2> QED BY <2>1, <2>2 DEF ClosedCount
<1>2. R \in SUBSET (Places \X Nat)
  BY CountStep
<1>3. <<q, n>> \in R
  <2> HIDE DEF R
  <2> QED BY <1>1, <1>2 DEF Count
<1>4. Back(q, n)
  BY <1>3
<1> QED BY <1>4

\* A place tells the gensyms spent.
LEMMA CountUnique ==
  ASSUME NEW q, NEW n, NEW m, <<q, n>> \in Count, <<q, m>> \in Count
  PROVE  n = m
<1> DEFINE R == {x \in Count : \A t \in Nat : <<x[1], t>> \in Count => t = x[2]}
<1>1. ClosedCount(R)
  <2>1. <<Nowhere, 0>> \in R
    <3>1. \A t \in Nat : <<Nowhere, t>> \in Count => t = 0
      BY CountBack
    <3> QED BY <3>1, CountStep DEF ClosedCount
  <2>2. ASSUME NEW p \in Places, NEW t \in Nat, NEW now \in Nat, p # Nowhere,
               <<Before(p), t>> \in R, now = t + CostAt(p)
        PROVE  <<p, now>> \in R
    <3>1. <<Before(p), t>> \in Count /\ \A u \in Nat : <<Before(p), u>> \in Count => u = t
      BY <2>2
    <3>2. <<p, now>> \in Count
      BY <2>2, <3>1, CountStep DEF ClosedCount
    <3>3. ASSUME NEW u \in Nat, <<p, u>> \in Count PROVE u = now
      <4>1. PICK earlier \in Nat : <<Before(p), earlier>> \in Count /\ u = earlier + CostAt(p)
        BY <2>2, <3>3, CountBack
      <4> QED BY <2>2, <3>1, <4>1
    <3> QED BY <3>2, <3>3
  <2> HIDE DEF R
  <2> QED BY <2>1, <2>2 DEF ClosedCount
<1>2. R \in SUBSET (Places \X Nat)
  BY CountStep
<1>3. <<q, n>> \in R
  <2> HIDE DEF R
  <2> QED BY <1>1, <1>2 DEF Count
<1>4. m \in Nat
  BY CountStep
<1> QED BY <1>3, <1>4

\* The steps from place to place, with what they cost.
LEMMA CountNext ==
  ASSUME NEW q \in Places, q # Nowhere, NEW n \in Nat, <<Before(q), n>> \in Count,
         NEW now \in Nat, now = n + CostAt(q)
  PROVE  <<q, now>> \in Count
BY CountStep DEF ClosedCount

LEMMA CountEnter ==
  ASSUME NEW chain \in Chains, NEW frames \in Seq(Frames), NEW content \in Forms,
         NEW tc \in BOOLEAN, NEW n \in Nat, <<Place(chain, frames), n>> \in Count
  PROVE  <<Place(chain, Append(frames, Frame(content, tc, 0))), n>> \in Count
<1> DEFINE q == Place(chain, Append(frames, Frame(content, tc, 0)))
<1>1. q \in Places /\ q # Nowhere /\ Before(q) = Place(chain, frames) /\ CostAt(q) = 0
  BY EnterPlace DEF CostAt
<1> HIDE DEF q
<1>2. n = n + CostAt(q)
  BY <1>1
<1>3. <<q, n>> \in Count
  BY <1>1, <1>2, CountNext
<1> QED BY <1>3 DEF q

LEMMA CountRead ==
  ASSUME NEW chain \in Chains, NEW frames \in Seq(Frames), NEW content \in Forms,
         NEW tc \in BOOLEAN, NEW n \in Nat,
         <<Place(chain, Append(frames, Frame(content, tc, 0))), n>> \in Count
  PROVE  <<Place(chain, Append(frames, Frame(content, tc, 1))), n + CostOfRead(content, tc)>>
           \in Count
<1> DEFINE q == Place(chain, Append(frames, Frame(content, tc, 1)))
           now == n + CostOfRead(content, tc)
<1>1. /\ q \in Places /\ q # Nowhere
      /\ Before(q) = Place(chain, Append(frames, Frame(content, tc, 0)))
      /\ now = n + CostAt(q)
  BY ReadPlace DEF CostAt
<1>2. now \in Nat
  BY CostType
<1> HIDE DEF q, now
<1>3. <<q, now>> \in Count
  BY <1>1, <1>2, CountNext
<1> QED BY <1>3 DEF q, now

LEMMA CountPass ==
  ASSUME NEW chain \in Chains, NEW frames \in Seq(Frames), NEW content \in Forms,
         NEW tc \in BOOLEAN, NEW n \in Nat,
         NEW at \in 1 .. Len(content), content[at].op # "load",
         <<Place(chain, Append(frames, Frame(content, tc, at))), n>> \in Count
  PROVE  <<Place(chain, Append(frames, Frame(content, tc, at + 1))),
           n + ((IF tc THEN CostOfCheck(content[at]) ELSE 0) + CostOfEval(content[at]))>> \in Count
<1> DEFINE q == Place(chain, Append(frames, Frame(content, tc, at + 1)))
           cost == (IF tc THEN CostOfCheck(content[at]) ELSE 0) + CostOfEval(content[at])
           now == n + cost
<1>1. /\ q \in Places /\ q # Nowhere
      /\ Before(q) = Place(chain, Append(frames, Frame(content, tc, at)))
      /\ CostAt(q) = cost
  BY PassPlace DEF CostAt
<1>2. cost \in Nat
  BY DEF CostOfCheck, CostOfEval
<1> HIDE DEF q, cost
<1>3. now \in Nat /\ now = n + CostAt(q)
  BY <1>1, <1>2
<1> HIDE DEF now
<1>4. <<q, now>> \in Count
  BY <1>1, <1>3, CountNext
<1> QED BY <1>4 DEF q, now, cost

LEMMA CountReturn ==
  ASSUME NEW chain \in Chains, NEW frames \in Seq(Frames), NEW content \in Forms,
         NEW tc \in BOOLEAN, NEW n \in Nat,
         NEW at \in 1 .. Len(content), content[at].op = "load",
         NEW inner \in Forms, NEW itc \in BOOLEAN,
         <<Place(chain, Append(Append(frames, Frame(content, tc, at)),
                               Frame(inner, itc, Len(inner) + 1))), n>> \in Count
  PROVE  <<Place(Append(chain, Ended(inner, itc)),
                 Append(frames, Frame(content, tc, at + 1))), n>> \in Count
<1> DEFINE q == Place(Append(chain, Ended(inner, itc)),
                      Append(frames, Frame(content, tc, at + 1)))
<1>1. /\ q \in Places /\ q # Nowhere /\ CostAt(q) = 0
      /\ Before(q) = Place(chain, Append(Append(frames, Frame(content, tc, at)),
                                         Frame(inner, itc, Len(inner) + 1)))
  BY ReturnPlace DEF CostAt
<1> HIDE DEF q
<1>2. n = n + CostAt(q)
  BY <1>1
<1>3. <<q, n>> \in Count
  BY <1>1, <1>2, CountNext
<1> QED BY <1>3 DEF q

LEMMA CountLeave ==
  ASSUME NEW chain \in Chains, NEW n \in Nat, NEW inner \in Forms, NEW itc \in BOOLEAN,
         <<Place(chain, Append(<<>>, Frame(inner, itc, Len(inner) + 1))), n>> \in Count
  PROVE  <<Place(Append(chain, Ended(inner, itc)), <<>>), n>> \in Count
<1> DEFINE q == Place(Append(chain, Ended(inner, itc)), <<>>)
<1>1. /\ q \in Places /\ q # Nowhere /\ CostAt(q) = 0
      /\ Before(q) = Place(chain, Append(<<>>, Frame(inner, itc, Len(inner) + 1)))
  BY LeavePlace DEF CostAt
<1> HIDE DEF q
<1>2. n = n + CostAt(q)
  BY <1>1
<1>3. <<q, n>> \in Count
  BY <1>1, <1>2, CountNext
<1> QED BY <1>3 DEF q

(* ---- what is recorded of them ------------------------------------------------------------- *)

\* A key, the entries of a recording and its end hold the gensyms of their places.
CountedAt(key, chain, at, n) == <<PlaceIn(key, chain, at), n>> \in Count
CountsKey(key) == CountedAt(key, key.chain, 0, key.gensym)
CountsEntry(key, ckpt, i, entry) ==
  \E n \in Nat : /\ CountedAt(key, ChainAt(key, ckpt, i), i, n)
                 /\ entry.gensymAfter = n + CostOfCheck(key.content[i])
CountsEntries(key, entries, ckpt) ==
  \A i \in 1 .. Len(entries) : CountsEntry(key, ckpt, i, entries[i])
CountsEnd(key, ckpt, end) ==
  LET at == Len(key.content) + 1 IN CountedAt(key, ChainAt(key, ckpt, at), at, end)
CountsRecording(key, rec) ==
  /\ CountsKey(key) /\ CountsEntries(key, rec.entries, rec.ckpt)
  /\ CountsEnd(key, rec.ckpt, rec.end)
CountsContext(ctx) ==
  /\ CountsKey(ctx.key) /\ CountsEntries(ctx.key, ctx.entries, ctx.ckpt)
  /\ ctx.replay => CountsEnd(ctx.key, ctx.ckpt, ctx.end)
CountsStack(stack) == \A i \in 1 .. Len(stack) : CountsContext(stack[i])

\* A session has spent what its place tells, and the check of the form it is
\* about to evaluate.
Midway(load) ==
  IF load.tc /\ load.stage = "eval" THEN CostOfCheck(load.forms[load.at]) ELSE 0
MidwayOf(k) == IF k.loads = <<>> THEN 0 ELSE Midway(k.loads[Len(k.loads)])
Spent(k, c) ==
  \E n \in Nat : <<PlaceOf(k, c), n>> \in Count /\ c.gensym = n + MidwayOf(k)
Counts(k, c) == Alive(k, c) => CountsStack(c.stack) /\ Spent(k, c)

\* A session that loads, its innermost load and context, and the gensyms n of the
\* form it is at.
Here(k, c, ctx, load, n) ==
  /\ Len(c.stack) \in Nat \ {0} /\ Len(c.stack) = Len(k.loads)
  /\ ctx = c.stack[Len(c.stack)] /\ load = k.loads[Len(c.stack)]
  /\ k \in SessionStates /\ c \in Cachers
  /\ ctx \in KeyedContexts /\ load \in Loads /\ Level(ctx, load) /\ Steady(ctx, load)
  /\ ~ctx.poisoned /\ c.chain = ChainAt(ctx.key, ctx.ckpt, load.at)
  /\ CountsStack(c.stack) /\ CountsContext(ctx)
  /\ n \in Nat /\ CountedAt(ctx.key, c.chain, FormAt(load), n) /\ c.gensym = n + Midway(load)

LEMMA CountsNow ==
  ASSUME TypeOK, NEW s \in Sessions, Loading(s), Stands(session[s], cacher[s], disk),
         Aligns(session[s], cacher[s], disk), Counts(session[s], cacher[s]),
         Now(s).stage # "failed", Now(s).stage = "read" => Context1(s).keyed
  PROVE  /\ \E n \in Nat : Here(session[s], cacher[s], Context1(s), Now(s), n)
         /\ Stacked(Stack(s), session[s].loads, Depth(s))
         /\ Context1(s).key.content = disk[Now(s).file]
         /\ AtTop(Context1(s), Now(s), cacher[s], disk)
<1> DEFINE ctx == Context1(s)
           load == Now(s)
           k == session[s]
           c == cacher[s]
           n == Len(c.stack)
<1>1. /\ n \in Nat \ {0} /\ n = Len(k.loads) /\ load \in Loads
      /\ ctx = c.stack[n] /\ load = k.loads[n] /\ k \in SessionStates /\ c \in Cachers
      /\ Followed(disk, ctx, load, c.chain, k.tc)
      /\ ctx \in KeyedContexts /\ Level(ctx, load) /\ Steady(ctx, load) /\ ctx.keyed
  BY FollowsNow
<1>2. AtTop(ctx, load, c, disk) /\ Stacked(Stack(s), k.loads, Depth(s))
  BY InnermostLoad
<1>3. ~ctx.poisoned /\ ctx.key.content = disk[load.file]
  BY <1>1 DEF Followed
<1>4. c.chain = ChainAt(ctx.key, ctx.ckpt, load.at)
  BY <1>2, <1>3 DEF AtTop, ChainHere
<1>5. Alive(k, c)
  BY <1>1 DEF Alive, Loading
<1>6. CountsStack(c.stack) /\ Spent(k, c)
  BY <1>5 DEF Counts
<1>7. CountsContext(ctx)
  <2>1. n \in 1 .. n
    BY <1>1
  <2> QED BY <1>1, <1>6, <2>1 DEF CountsStack
<1>8. c.stack # <<>> /\ k.loads # <<>>
  BY <1>1
<1>9. PICK m \in Nat : <<PlaceOf(k, c), m>> \in Count /\ c.gensym = m + MidwayOf(k)
  BY <1>6 DEF Spent
<1>10. CountedAt(ctx.key, c.chain, FormAt(load), m) /\ c.gensym = m + Midway(load)
  BY <1>1, <1>8, <1>9 DEF PlaceOf, MidwayOf, CountedAt
<1> HIDE DEF ctx, load, k, c, n
<1>11. Here(k, c, ctx, load, m)
  BY <1>1, <1>3, <1>4, <1>6, <1>7, <1>10 DEF Here, n
<1> QED BY <1>2, <1>3, <1>11 DEF ctx, load, k, c

\* The innermost load goes on, to a place that has been counted.
LEMMA TopCounts ==
  ASSUME NEW k2, NEW c2, NEW st, NEW lo, NEW top, NEW next, NEW m \in Nat,
         Len(st) \in Nat \ {0}, Len(st) = Len(lo), CountsStack(st),
         Replaces(st, c2.stack, top), Replaces(lo, k2.loads, next), CountsContext(top),
         CountedAt(top.key, c2.chain, FormAt(next), m), c2.gensym = m + Midway(next)
  PROVE  Counts(k2, c2)
<1> DEFINE st2 == c2.stack
           lo2 == k2.loads
           n == Len(st)
<1>1. /\ st2 # <<>> /\ lo2 # <<>> /\ Len(st2) = n /\ Len(lo2) = n /\ n \in 1 .. n
      /\ \A i \in 1 .. n : st2[i] = IF i = n THEN top ELSE st[i]
      /\ lo2[n] = next
  BY DEF Replaces
<1> HIDE DEF n
<1>2. st2[n] = top
  BY <1>1
<1>3. CountsStack(st2)
  BY <1>1 DEF CountsStack, n
<1>4. PlaceOf(k2, c2) = PlaceIn(top.key, c2.chain, FormAt(next))
  BY <1>1, <1>2 DEF PlaceOf
<1>5. MidwayOf(k2) = Midway(next)
  BY <1>1 DEF MidwayOf
<1>6. Spent(k2, c2)
  BY <1>4, <1>5 DEF Spent, CountedAt
<1> QED BY <1>3, <1>6 DEF Counts

LEMMA FailedCounts ==
  ASSUME NEW k \in SessionStates, NEW c, NEW load \in Loads, NEW top, NEW k2, NEW c2,
         Len(c.stack) \in Nat \ {0}, Len(c.stack) = Len(k.loads),
         k2 = Replaced(k, Failed(load)), Replaces(c.stack, c2.stack, top)
  PROVE  Counts(k2, c2)
<1>1. k.loads # <<>>
  OBVIOUS
<1>2. Replaces(k.loads, k2.loads, Failed(load)) /\ Failed(load).stage = "failed"
  BY <1>1, FailedReplaces
<1>3. Len(c2.stack) = Len(c.stack) /\ k2.loads[Len(c.stack)] = Failed(load)
  BY <1>2 DEF Replaces
<1>4. ~Alive(k2, c2)
  BY <1>2, <1>3 DEF Alive
<1> QED BY <1>4 DEF Counts

(* ---- the steps of a load -------------------------------------------------------------------- *)

LEMMA ReadCounts ==
  ASSUME TypeOK, NEW s \in Sessions, Read(s), Stands(session[s], cacher[s], disk),
         Aligns(session[s], cacher[s], disk), Counts(session[s], cacher[s])
  PROVE  Counts(session'[s], cacher'[s]) /\ Len(cacher'[s].stack) = Depth(s)
<1> DEFINE k == session[s]
           c == cacher[s]
           k2 == session'[s]
           c2 == cacher'[s]
           ctx == Context1(s)
           load == Now(s)
           forms == disk[load.file]
           spent == IF forms = Missing THEN 0 ELSE CostOfRead(forms, load.tc)
           top == [ctx EXCEPT !.readAt = c.gensym]
           next == [load EXCEPT !.forms = forms, !.stage = FirstStage(load)]
<1>1. /\ Loading(s) /\ load.stage = "read" /\ c2.chain = c.chain
      /\ Replaces(c.stack, c2.stack, top)
      /\ forms = Missing => k2 = Replaced(k, Failed(load))
      /\ forms # Missing =>
           /\ forms \in Forms /\ next.at = load.at /\ next.tc = load.tc
           /\ next.stage = IF load.tc THEN "check" ELSE "eval"
           /\ Replaces(k.loads, k2.loads, next)
  BY ReadMoves DEF Stack
<1>2. /\ Len(c.stack) \in Nat \ {0} /\ Len(c.stack) = Len(k.loads)
      /\ load \in Loads /\ k \in SessionStates /\ c \in Cachers
  BY <1>1, FollowsNow
<1>3. Len(c2.stack) = Depth(s)
  BY <1>1 DEF Replaces, Depth, Stack
<1>4. c2.gensym = c.gensym + spent
  <2>1. c2 = [c EXCEPT !.stack[Depth(s)].readAt = c.gensym, !.gensym = @ + spent]
    BY DEF Read, Caches, TypeOK
  <2>2. c2 = [c EXCEPT !.stack = [@ EXCEPT ![Depth(s)] = top], !.gensym = @ + spent]
    <3>1. ctx = c.stack[Depth(s)]
      BY DEF Context1, Stack
    <3> QED BY <2>1, <3>1
  <2> HIDE DEF spent, c2, top
  <2> QED BY <1>2, <2>2 DEF Cachers
<1>5. CASE forms = Missing
  <2> HIDE DEF k, c, k2, c2, load, top, forms
  <2>1. Counts(k2, c2)
    BY <1>1, <1>2, <1>5, FailedCounts
  <2> QED BY <1>3, <2>1 DEF k2, c2
<1>6. CASE forms # Missing
  <2>1. ctx.keyed
    BY <1>1, <1>6, InnermostLoad
  <2>2. PICK n \in Nat : Here(k, c, ctx, load, n)
    BY <1>1, <2>1, CountsNow
  <2>3. ctx.key.content = forms
    BY <1>1, <2>1, CountsNow
  <2>4. /\ ctx \in KeyedContexts /\ CountsContext(ctx) /\ CountsStack(c.stack)
        /\ CountedAt(ctx.key, c.chain, 0, n) /\ c.gensym = n + Midway(load)
        /\ ctx.key.tc = load.tc /\ ctx.key \in Keys /\ load.at = 1 /\ ctx.key.tc \in BOOLEAN
        /\ ctx.key.content \in Forms /\ ctx.key.within \in Withins /\ c.chain \in Chains
    BY <1>1, <2>2 DEF Here, FormAt, Level, Keyed, Staged, KeyedContexts, Keys, Cachers
  <2>5. /\ top.key = ctx.key /\ top.entries = ctx.entries /\ top.ckpt = ctx.ckpt
        /\ top.replay = ctx.replay /\ top.end = ctx.end
    <3> HIDE DEF ctx
    <3> QED BY <2>4 DEF KeyedContexts
  <2>6. CountsContext(top)
    <3> HIDE DEF ctx, top
    <3> QED BY <2>4, <2>5 DEF CountsContext
  <2>7. CountedAt(ctx.key, c.chain, 1, n + CostOfRead(forms, load.tc))
    <3>1. FramesOf(ctx.key.within) \in Seq(Frames)
      BY <2>4, FramesOfType
    <3> HIDE DEF c, ctx, load, forms
    <3> QED BY <2>3, <2>4, <3>1, CountRead DEF CountedAt, PlaceIn
  <2>8. FormAt(next) = 1 /\ Midway(next) = 0 /\ Midway(load) = 0
    <3> HIDE DEF next, load
    <3> QED BY <1>1, <2>4, <1>6 DEF FormAt, Midway
  <2>9. CostOfRead(forms, load.tc) \in Nat
    BY <2>3, <2>4, CostType
  <2> DEFINE m == n + CostOfRead(forms, load.tc)
  <2>10. m \in Nat /\ c2.gensym = m + Midway(next)
    <3>1. c2.gensym = (n + 0) + CostOfRead(forms, load.tc)
      BY <1>4, <1>6, <2>4, <2>8
    <3> HIDE DEF c2, forms, load
    <3> QED BY <2>8, <2>9, <3>1
  <2>11. CountedAt(top.key, c2.chain, FormAt(next), m)
    BY <1>1, <2>5, <2>7, <2>8
  <2> HIDE DEF k, c, k2, c2, ctx, load, top, next, forms, m
  <2>12. Counts(k2, c2)
    BY <1>1, <1>2, <1>6, <2>4, <2>6, <2>10, <2>11, TopCounts
  <2> QED BY <1>3, <2>12 DEF k2, c2
<1> QED BY <1>5, <1>6

LEMMA RecordedCounts ==
  ASSUME NEW key, NEW entries \in Seq(Entries), NEW e \in Entries, NEW ckpt,
         CountsEntries(key, entries, ckpt), CountsEntry(key, ckpt, Len(entries) + 1, e)
  PROVE  CountsEntries(key, Append(entries, e), ckpt)
<1> DEFINE more == Append(entries, e)
<1>1. /\ Len(more) = Len(entries) + 1 /\ more[Len(entries) + 1] = e /\ Len(entries) \in Nat
      /\ \A i \in 1 .. Len(entries) : more[i] = entries[i]
  BY AppendProperties, LenProperties
<1> HIDE DEF more
<1>2. ASSUME NEW i \in 1 .. Len(more) PROVE CountsEntry(key, ckpt, i, more[i])
  <2>1. CASE i = Len(entries) + 1
    BY <1>1, <2>1
  <2>2. CASE i # Len(entries) + 1
    <3>1. i \in 1 .. Len(entries)
      BY <1>1, <2>2
    <3>2. CountsEntry(key, ckpt, i, entries[i])
      BY <3>1 DEF CountsEntries
    <3> QED BY <1>1, <3>1, <3>2
  <2> QED BY <2>1, <2>2
<1> QED BY <1>2 DEF CountsEntries, more

\* typecheck_wrapper records the counter that the check leaves behind, or pins
\* it to the one on record.
LEMMA CheckingCounts ==
  ASSUME NEW k, NEW c \in Cachers, NEW ctx, NEW load, NEW m, Here(k, c, ctx, load, m),
         NEW types, InCheck(c, ctx, load, types)
  PROVE  LET form == ctx.hash[load.at]
             answer == Checking(c, form, types)
         IN /\ answer.cacher.gensym = m + CostOfCheck(form)
            /\ CountsContext(answer.cacher.stack[Len(c.stack)])
<1> DEFINE n == Len(c.stack)
           form == ctx.hash[load.at]
           hash == ArgHash(form, ctx)
           entry == ctx.entries[ctx.cursor]
           real == Verdict(form, types)
           cost == CostOfCheck(form)
           spent == c.gensym + cost
           verdict == IF hash = NoHash \/ real = None THEN None ELSE real
           recorded == [hash |-> hash, val |-> verdict, gensymAfter |-> spent]
           digested == Digested(ctx, hash)
           consumed == [digested EXCEPT !.cursor = @ + 1]
           Answer(v, gensym, top) ==
             [verdict |-> v, cacher |-> [c EXCEPT !.gensym = gensym, !.stack[n] = top]]
           answer == Checking(c, form, types)
<1>1. /\ ctx = c.stack[n] /\ ctx \in KeyedContexts /\ load \in Loads /\ types \in Types
      /\ c.stack \in Seq(Contexts) /\ n \in Nat \ {0} /\ load.stage = "check"
      /\ ~ctx.poisoned /\ CountsContext(ctx) /\ m \in Nat /\ c.gensym \in Nat
      /\ c.chain = ChainAt(ctx.key, ctx.ckpt, load.at)
  BY DEF InCheck, Here, Cachers
<1>2. /\ load.at \in Nat \ {0} /\ load.at \in 1 .. Len(ctx.hash) /\ Len(ctx.hash) \in Nat
      /\ form \in Form /\ ctx.tc /\ ctx.key.content = ctx.hash
      /\ Checked(load) = load.at - 1 /\ Steady(ctx, load)
      /\ hash = ArgHash(form, [readAt |-> ctx.key.gensym])
  <2>1. ctx.hash[load.at] \in Form /\ (~ctx.poisoned => Steady(ctx, load))
    BY InCheckShows
  <2>2. /\ load.at \in Nat \ {0} /\ load.at \in 1 .. Len(ctx.hash) /\ Len(ctx.hash) \in Nat
        /\ ctx.tc /\ ctx.key.content = ctx.hash /\ Checked(load) = load.at - 1
    BY InCheckShows
  <2>3. hash = ArgHash(form, [readAt |-> ctx.key.gensym])
    <3>1. ctx.readAt = ctx.key.gensym
      BY InCheckShows
    <3> QED BY <3>1 DEF ArgHash
  <2> QED BY <1>1, <2>1, <2>2, <2>3
<1>3. hash \in Hashes /\ real \in TypeNames \cup {None} /\ cost \in Nat /\ spent \in Nat
      /\ ctx \in Contexts
  BY <1>1, <1>2, ArgHashType, VerdictType, CostType DEF Contexts
<1>4. CountedAt(ctx.key, c.chain, load.at, m) /\ c.gensym = m
  <2>1. FormAt(load) = load.at /\ Midway(load) = 0
    BY <1>1 DEF FormAt, Midway
  <2> QED BY <1>1, <2>1 DEF Here
<1>5. /\ ctx.entries \in Seq(Entries) /\ Len(ctx.entries) \in Nat
      /\ CountsEntries(ctx.key, ctx.entries, ctx.ckpt)
  BY <1>1, LenProperties DEF KeyedContexts, CountsContext
<1>6. /\ digested \in KeyedContexts /\ digested.key = ctx.key /\ digested.entries = ctx.entries
      /\ digested.ckpt = ctx.ckpt /\ digested.replay = ctx.replay /\ digested.end = ctx.end
      /\ digested.cursor = ctx.cursor
  <2>1. Append(ctx.digest, hash) \in Digests
    BY <1>1, <1>3, AppendProperties DEF KeyedContexts, Digests
  <2> HIDE DEF hash
  <2> QED BY <1>1, <2>1 DEF KeyedContexts, Digested
<1>7. ASSUME NEW v, NEW gensym, NEW top \in Contexts, answer = Answer(v, gensym, top)
      PROVE  answer.cacher.gensym = gensym /\ answer.cacher.stack[n] = top
  <2>1. answer.cacher = [c EXCEPT !.gensym = gensym, !.stack = [@ EXCEPT ![n] = top]]
    BY <1>7
  <2> HIDE DEF answer
  <2>2. answer.cacher.gensym = gensym /\ answer.cacher.stack = [c.stack EXCEPT ![n] = top]
    BY <2>1 DEF Cachers
  <2>3. n \in 1 .. n /\ n \in DOMAIN c.stack
    BY <1>1, LenProperties
  <2> QED BY <2>2, <2>3
<1> SUFFICES \E top : /\ answer.cacher.gensym = m + cost /\ answer.cacher.stack[n] = top
                      /\ CountsContext(top)
  OBVIOUS
<1>8. CASE ~ctx.replay
  <2> DEFINE top == [digested EXCEPT !.entries = Append(@, recorded)]
             more == Append(ctx.entries, recorded)
  <2>1. recorded \in Entries /\ recorded.gensymAfter = spent
    <3> HIDE DEF hash, real, spent
    <3> QED BY <1>3 DEF Entries
  <2>2. more \in Seq(Entries)
    BY <1>5, <2>1, AppendProperties
  <2>3. /\ top \in Contexts /\ top.key = ctx.key /\ top.entries = more /\ top.ckpt = ctx.ckpt
        /\ top.replay = ctx.replay
    <3> HIDE DEF digested, recorded, hash
    <3> QED BY <1>6, <2>2 DEF KeyedContexts, Contexts
  <2>4. Len(ctx.entries) + 1 = load.at
    BY <1>2, <1>5, <1>8 DEF Steady
  <2>5. CountsEntry(ctx.key, ctx.ckpt, load.at, recorded)
    <3>1. recorded.gensymAfter = m + CostOfCheck(ctx.key.content[load.at])
      BY <1>2, <1>4, <2>1
    <3> HIDE DEF recorded
    <3> QED BY <1>1, <1>4, <3>1 DEF CountsEntry
  <2>6. answer = Answer(real, spent, top)
    BY <1>1, <1>8 DEF Checking
  <2> HIDE DEF answer, Answer, recorded, real, top
  <2>7. CountsEntries(ctx.key, more, ctx.ckpt)
    BY <1>5, <2>1, <2>4, <2>5, RecordedCounts
  <2> HIDE DEF more
  <2>8. CountsContext(top)
    BY <1>1, <1>8, <2>3, <2>7 DEF CountsContext
  <2>9. answer.cacher.gensym = spent /\ answer.cacher.stack[n] = top
    BY <1>7, <2>3, <2>6
  <2> QED BY <1>4, <2>8, <2>9
<1>9. CASE ctx.replay
  <2>1. ctx.cursor = load.at /\ Len(ctx.entries) = Len(ctx.hash)
        /\ SoundEntries(ctx.key, ctx.entries, ctx.ckpt)
    BY <1>2, <1>9 DEF Steady
  <2>2. SoundEntry(ctx.key, ctx.ckpt, load.at, entry)
    BY <1>2, <2>1 DEF SoundEntries
  <2>3. Matches(ctx, hash)
    <3>1. ctx.cursor \in DOMAIN ctx.entries
      BY <1>2, <1>5, <2>1, LenProperties
    <3>2. entry.hash = hash
      BY <1>2, <2>2 DEF SoundEntry
    <3> QED BY <3>1, <3>2 DEF Matches
  <2>4. entry.gensymAfter = spent
    <3>1. load.at \in 1 .. Len(ctx.entries)
      BY <1>2, <2>1
    <3>2. CountsEntry(ctx.key, ctx.ckpt, load.at, entry)
      BY <1>5, <2>1, <3>1 DEF CountsEntries
    <3>3. PICK was \in Nat : /\ CountedAt(ctx.key, c.chain, load.at, was)
                             /\ entry.gensymAfter = was + CostOfCheck(ctx.key.content[load.at])
      BY <1>1, <3>2 DEF CountsEntry
    <3>4. was = m
      BY <1>4, <3>3, CountUnique DEF CountedAt
    <3> QED BY <1>2, <1>4, <3>3, <3>4
  <2>5. PinAfter(c.gensym, entry) = spent
    <3>1. spent > c.gensym \/ spent = c.gensym
      BY <1>1, <1>3
    <3> HIDE DEF spent
    <3> QED BY <2>4, <3>1 DEF PinAfter, Pinned
  <2>6. /\ consumed \in Contexts /\ consumed.key = ctx.key /\ consumed.entries = ctx.entries
        /\ consumed.ckpt = ctx.ckpt /\ consumed.replay = ctx.replay /\ consumed.end = ctx.end
    <3>1. digested.cursor + 1 \in Nat \ {0}
      BY <1>2, <1>6, <2>1
    <3> HIDE DEF digested, hash
    <3> QED BY <1>6, <3>1 DEF KeyedContexts, Contexts
  <2>7. \E v : answer = Answer(v, spent, consumed)
    <3>1. CASE entry.val = None
      BY <1>1, <1>9, <2>3, <3>1 DEF Checking
    <3>2. CASE entry.val # None
      <4>1. answer = Answer(entry.val, PinAfter(c.gensym, entry), consumed)
        BY <1>1, <1>9, <2>3, <3>2 DEF Checking
      <4> HIDE DEF answer, Answer, spent, consumed, entry
      <4> QED BY <2>5, <4>1
    <3> QED BY <3>1, <3>2
  <2> HIDE DEF answer, Answer, real, consumed
  <2>8. CountsContext(consumed)
    BY <1>1, <2>6 DEF CountsContext
  <2>9. answer.cacher.gensym = spent /\ answer.cacher.stack[n] = consumed
    BY <1>7, <2>6, <2>7
  <2> QED BY <1>4, <2>8, <2>9
<1> QED BY <1>8, <1>9

LEMMA TypecheckCounts ==
  ASSUME TypeOK, NEW s \in Sessions, TypecheckForm(s), Stands(session[s], cacher[s], disk),
         Aligns(session[s], cacher[s], disk), Counts(session[s], cacher[s])
  PROVE  Counts(session'[s], cacher'[s]) /\ Len(cacher'[s].stack) = Depth(s)
<1> DEFINE k == session[s]
           c == cacher[s]
           k2 == session'[s]
           c2 == cacher'[s]
           ctx == Context1(s)
           load == Now(s)
           types == k.types
           form == ctx.hash[load.at]
           answer == Checking(c, form, types)
<1>1. Loading(s) /\ k.loads # <<>> /\ load.stage = "check" /\ c2.chain = c.chain
  BY CheckMoves
<1>2. PICK top \in Contexts :
        /\ SameBut(ctx, top) /\ Replaces(c.stack, c2.stack, top)
        /\ \/ k2 = Replaced(k, Failed(load))
           \/ \E next \in Loads :
                /\ CheckedOn(load, next) /\ Replaces(k.loads, k2.loads, next)
  BY CheckMoves DEF Stack
<1>3. /\ Len(c.stack) \in Nat \ {0} /\ Len(c.stack) = Len(k.loads)
      /\ load \in Loads /\ k \in SessionStates /\ c \in Cachers /\ ctx = c.stack[Len(c.stack)]
      /\ ctx \in KeyedContexts /\ Level(ctx, load)
  BY <1>1, FollowsNow
<1>4. Len(c2.stack) = Depth(s)
  BY <1>2 DEF Replaces, Depth, Stack
<1>5. CASE k2 = Replaced(k, Failed(load))
  <2> HIDE DEF k, c, k2, c2, load
  <2>1. Counts(k2, c2)
    BY <1>2, <1>3, <1>5, FailedCounts
  <2> QED BY <1>4, <2>1 DEF k2, c2
<1>6. ASSUME NEW next \in Loads, CheckedOn(load, next), Replaces(k.loads, k2.loads, next)
      PROVE  Counts(k2, c2)
  <2>1. PICK m \in Nat : Here(k, c, ctx, load, m)
    BY <1>1, CountsNow
  <2>2. /\ AtTop(ctx, load, c, disk)
        /\ <<PlaceIn(ctx.key, c.chain, FormAt(load)), types>> \in Reach
    BY <1>1, InnermostLoad
  <2>3. load.forms = ctx.hash /\ FormAt(load) = load.at /\ load.tc
    BY <1>1, <1>3 DEF Level, Keyed, Staged, FormAt
  <2>4. /\ form = FormNow(s) /\ load.at <= Len(ctx.hash)
    BY <2>3 DEF FormNow, TypecheckForm, More
  <2>5. InCheck(c, ctx, load, types)
    <3>1. c.stack # <<>> /\ types \in Types
      BY <1>3 DEF SessionStates
    <3> QED BY <1>1, <1>3, <2>2, <2>3, <2>4, <3>1 DEF InCheck, AtTop
  <2>6. c2 = answer.cacher
    BY <2>4 DEF TypecheckForm, Caches, TypeOK
  <2>7. c2.gensym = m + CostOfCheck(form) /\ CountsContext(c2.stack[Len(c.stack)])
    <3> HIDE DEF k, c, c2, ctx, load, types
    <3> QED BY <1>3, <2>1, <2>5, <2>6, CheckingCounts
  <2>8. c2.stack[Len(c.stack)] = top
    <3>1. Replaces(c.stack, c2.stack, top) /\ Len(c.stack) \in 1 .. Len(c.stack)
      BY <1>2, <1>3
    <3> HIDE DEF c, c2
    <3> QED BY <3>1 DEF Replaces
  <2>9. /\ CountsStack(c.stack) /\ CountedAt(ctx.key, c.chain, load.at, m)
    BY <2>1, <2>3 DEF Here
  <2>10. FormAt(next) = load.at /\ Midway(next) = CostOfCheck(form) /\ top.key = ctx.key
    BY <1>2, <1>6, <2>3 DEF CheckedOn, FormAt, Midway, SameBut
  <2> HIDE DEF k, c, k2, c2, ctx, load, form
  <2> QED BY <1>1, <1>2, <1>3, <1>6, <2>7, <2>8, <2>9, <2>10, TopCounts
<1>7. Counts(k2, c2)
  BY <1>2, <1>5, <1>6
<1> QED BY <1>4, <1>7

\* A form that is passed costs what its check, if it had one, and its evaluation do.
LEMMA EvaluateCounts ==
  ASSUME TypeOK, NEW s \in Sessions, Evaluate(s), FormNow(s).op # "load",
         Stands(session[s], cacher[s], disk), Aligns(session[s], cacher[s], disk),
         Counts(session[s], cacher[s])
  PROVE  Counts(session'[s], cacher'[s]) /\ Len(cacher'[s].stack) = Depth(s)
<1> DEFINE k == session[s]
           c == cacher[s]
           k2 == session'[s]
           c2 == cacher'[s]
           ctx == Context1(s)
           load == Now(s)
           form == FormNow(s)
           next == Onward(load)
<1>1. /\ Loading(s) /\ load.stage = "eval" /\ More(s) /\ form \in Form
      /\ c2.stack = c.stack /\ c2.chain = c.chain
      /\ \/ k2 = Replaced(k, Failed(load))
         \/ /\ next \in Loads /\ next.at = load.at + 1 /\ next.tc = load.tc
            /\ next.stage = IF load.tc THEN "check" ELSE "eval"
            /\ k2.loads = [k.loads EXCEPT ![Len(k.loads)] = next]
  BY EvalMoves
<1>2. /\ Len(c.stack) \in Nat \ {0} /\ Len(c.stack) = Len(k.loads)
      /\ load \in Loads /\ k \in SessionStates /\ c \in Cachers
      /\ ctx = c.stack[Len(c.stack)]
  BY <1>1, FollowsNow
<1>3. Len(c2.stack) = Depth(s)
  BY <1>1 DEF Depth, Stack
<1>4. PICK m \in Nat : Here(k, c, ctx, load, m)
  BY <1>1, CountsNow
<1>5. /\ ctx \in KeyedContexts /\ CountsContext(ctx) /\ CountsStack(c.stack)
      /\ CountedAt(ctx.key, c.chain, load.at, m) /\ c.gensym = m + Midway(load)
      /\ ctx.key.tc = load.tc /\ ctx.key \in Keys /\ ctx.key.tc \in BOOLEAN
      /\ load.forms = ctx.key.content
      /\ ctx.key.content \in Forms /\ ctx.key.within \in Withins /\ c.chain \in Chains
  BY <1>1, <1>4 DEF Here, FormAt, Level, Keyed, KeyedContexts, Keys, Cachers
<1>6. load.at \in 1 .. Len(ctx.key.content) /\ form = ctx.key.content[load.at]
  BY <1>1, FormFollows
<1>7. c2.gensym = c.gensym + CostOfEval(form)
  <2>1. c2 = [c EXCEPT !.gensym = @ + CostOfEval(form)]
    BY DEF Evaluate, Caches, TypeOK
  <2> HIDE DEF c, c2, form
  <2> QED BY <1>2, <2>1 DEF Cachers
<1>8. form.op # "load" /\ CostOfCheck(form) \in Nat /\ CostOfEval(form) \in Nat
  BY DEF CostOfCheck, CostOfEval
<1> DEFINE checked == IF load.tc THEN CostOfCheck(form) ELSE 0
           now == m + (checked + CostOfEval(form))
<1>9. Midway(load) = checked
  BY <1>1, <1>5, <1>6 DEF Midway
<1>10. CountedAt(ctx.key, c.chain, load.at + 1, now)
  <2>1. FramesOf(ctx.key.within) \in Seq(Frames)
    BY <1>5, FramesOfType
  <2> HIDE DEF c, ctx, load, form
  <2> QED BY <1>5, <1>6, <1>8, <2>1, CountPass DEF CountedAt, PlaceIn
<1> HIDE DEF k, c, k2, c2, ctx, load, form, next
<1>11. checked \in Nat /\ now \in Nat /\ c2.gensym = now + 0
  <2>1. checked \in Nat
    BY <1>8
  <2> HIDE DEF checked
  <2> QED BY <1>5, <1>7, <1>8, <1>9, <2>1
<1> HIDE DEF now, checked
<1>12. Replaces(c.stack, c2.stack, ctx)
  <2>1. c.stack # <<>>
    BY <1>2
  <2> QED BY <1>1, <1>2, <2>1 DEF Replaces
<1>13. CASE k2 = Replaced(k, Failed(load))
  <2>1. Counts(k2, c2)
    BY <1>2, <1>12, <1>13, FailedCounts
  <2> QED BY <1>3, <2>1 DEF k2, c2
<1>14. CASE k2 # Replaced(k, Failed(load))
  <2>1. /\ next \in Loads /\ next.at = load.at + 1 /\ next.tc = load.tc
        /\ next.stage = IF load.tc THEN "check" ELSE "eval"
        /\ k2.loads = [k.loads EXCEPT ![Len(k.loads)] = next]
    BY <1>1, <1>14
  <2>2. Replaces(k.loads, k2.loads, next)
    <3> DEFINE lo == k.loads
    <3>1. lo \in Seq(Loads) /\ lo # <<>>
      BY <1>2 DEF SessionStates
    <3> HIDE DEF lo
    <3>2. Replaces(lo, [lo EXCEPT ![Len(lo)] = next], next)
      BY <2>1, <3>1, ReplacesTop
    <3> QED BY <2>1, <3>2 DEF lo
  <2>3. FormAt(next) = load.at + 1 /\ Midway(next) = 0
    BY <2>1 DEF FormAt, Midway
  <2>4. CountedAt(ctx.key, c2.chain, FormAt(next), now) /\ c2.gensym = now + Midway(next)
    BY <1>1, <1>10, <1>11, <2>3
  <2>5. Counts(k2, c2)
    <3> DEFINE st == c.stack
               lo == k.loads
    <3>1. Len(st) \in Nat \ {0} /\ Len(st) = Len(lo) /\ CountsStack(st)
      BY <1>2, <1>5
    <3>2. Replaces(st, c2.stack, ctx) /\ Replaces(lo, k2.loads, next) /\ CountsContext(ctx)
      BY <1>5, <1>12, <2>2
    <3> HIDE DEF st, lo
    <3> QED BY <1>11, <2>4, <3>1, <3>2, TopCounts
  <2> QED BY <1>3, <2>5 DEF k2, c2
<1> QED BY <1>13, <1>14

(* ---- a load begins ------------------------------------------------------------------------- *)

\* The recordings of the directory hold the gensyms of their places.
FilesCounted ==
  \A p \in DOMAIN dir : inodes[dir[p]] # Torn => CountsRecording(p[2], inodes[dir[p]])

LEMMA HitCounted ==
  ASSUME TypeOK, FilesCounted, NEW key, Hit(key)
  PROVE  key \in Keys /\ CountsRecording(key, Recording(key))
<1> DEFINE p == TcFile(key)
<1>1. p[2] = key /\ p \in DOMAIN dir /\ inodes[dir[p]] # Torn /\ Recording(key) = inodes[dir[p]]
  BY DEF TcFile, Hit, Recording
<1> HIDE DEF p
<1>2. CountsRecording(key, Recording(key))
  BY <1>1 DEF FilesCounted
<1>3. p \in {"tc", "tmp"} \X Keys
  BY <1>1 DEF TypeOK
<1> QED BY <1>1, <1>2, <1>3

\* Keys that tell the same history have the same gensym.
LEMMA SameKey ==
  ASSUME NEW key1 \in Keys, NEW key2 \in Keys, SameHistory(key1, key2),
         CountsKey(key1), CountsKey(key2)
  PROVE  key1 = key2
<1>1. /\ key1.chain = key2.chain /\ key1.within = key2.within /\ key1.content = key2.content
      /\ key1.tc = key2.tc
  <2> DEFINE a == [key1 EXCEPT !.gensym = 0]
             b == [key2 EXCEPT !.gensym = 0]
  <2>1. a = b
    BY DEF SameHistory
  <2>2. /\ a.chain = key1.chain /\ a.within = key1.within /\ a.content = key1.content
        /\ a.tc = key1.tc
    BY DEF Keys
  <2>3. /\ b.chain = key2.chain /\ b.within = key2.within /\ b.content = key2.content
        /\ b.tc = key2.tc
    BY DEF Keys
  <2> HIDE DEF a, b
  <2> QED BY <2>1, <2>2, <2>3
<1>2. PlaceIn(key1, key1.chain, 0) = PlaceIn(key2, key2.chain, 0)
  BY <1>1 DEF PlaceIn
<1>3. key1.gensym = key2.gensym
  BY <1>2, CountUnique DEF CountsKey, CountedAt
<1> QED BY <1>1, <1>3 DEF Keys

\* load_wrapper on its way in: a history that is on record is replayed.
HeedsRecord(n, e) ==
  Len(e.stack) > n =>
    LET ctx == e.stack[n + 1] IN
    ctx.keyed /\ (\E key \in Recorded : Hit(key) /\ SameHistory(key, ctx.key)) => ctx.replay

\* A session whose innermost load is a new one, of f.
BegunFrom(k, f) == [k EXCEPT !.loads = Append(@, Load(f, k.tc))]

LEMMA EnteredCounts ==
  ASSUME TypeOK, FilesSound, FilesCounted, NEW c \in Cachers, NEW k \in SessionStates,
         CountsStack(c.stack), NEW n, n = Len(c.stack), n = Len(k.loads),
         <<Place(c.chain, FramesOf(Enclosing(c.stack))), c.gensym>> \in Count,
         NEW f \in Files, NEW k2, k2 = BegunFrom(k, f),
         NEW e, e = Entered(c, disk[f], k.tc)
  PROVE  /\ Counts(k2, e) /\ Len(e.stack) = n + 1
         /\ HeedsRecord(n, e)
<1> DEFINE content == disk[f]
           key == Key(c, content, k.tc)
           load == Load(f, k.tc)
           within == Enclosing(c.stack)
<1>1. /\ c.stack \in Seq(Contexts) /\ k.loads \in Seq(Loads) /\ k.tc \in BOOLEAN
      /\ n \in Nat /\ c.chain \in Chains /\ c.gensym \in Nat /\ content \in Forms \cup {Missing}
  BY LenProperties, ContentType DEF Cachers, SessionStates
<1>2. load \in Loads /\ load.stage = "read"
  BY <1>1, LoadType DEF Load
<1>3. within \in Withins
  BY <1>1, EnclosingType
<1> HIDE DEF load
<1>4. /\ Len(k2.loads) = n + 1 /\ k2.loads[n + 1] = load /\ k2.loads # <<>>
  <2>1. k2.loads = Append(k.loads, load)
    BY DEF BegunFrom, SessionStates, load
  <2>2. Len(k2.loads) = n + 1 /\ k2.loads[n + 1] = load
    BY <1>1, <1>2, <2>1, AppendProperties
  <2>3. k2.loads # <<>>
    BY <1>1, <1>2, <2>1, AppendProperties
  <2> QED BY <2>2, <2>3
<1>5. CASE content = Missing
  <2> DEFINE q == PoisonedTop(c.stack)
             top == Unkeyed(within)
  <2>1. e.stack = Append(q, top)
    BY <1>5 DEF Entered, Cachers
  <2>2. q \in Seq(Contexts) /\ Len(q) = n
    BY <1>1, PoisonedTopType
  <2>3. top \in Contexts /\ ~top.keyed
    BY <1>3 DEF Unkeyed, UnkeyedContexts, Contexts
  <2> HIDE DEF q, top
  <2>4. Len(e.stack) = n + 1 /\ e.stack[n + 1] = top
    BY <2>1, <2>2, <2>3, AppendProperties
  <2>5. ~Alive(k2, e)
    BY <1>1, <2>3, <2>4 DEF Alive
  <2> QED BY <2>3, <2>4, <2>5 DEF Counts, HeedsRecord
<1>6. CASE content # Missing
  <2>1. content \in Forms /\ key \in Keys
    BY <1>1, <1>6, KeyType
  <2>2. /\ key.content = content /\ key.tc = k.tc
        /\ key.chain = c.chain /\ key.within = within /\ key.gensym = c.gensym
    BY DEF Key
  <2> HIDE DEF key
  <2>3. PICK top \in KeyedContexts :
          /\ e.stack = Append(c.stack, top) /\ e.chain = c.chain /\ e.gensym = c.gensym
          /\ top.key = key /\ (top.replay <=> Hit(key))
          /\ top.replay => Served(top, Recording(key))
          /\ ~top.replay => top.entries = <<>>
    BY <1>1, <1>6, <2>1, EnteredNew DEF key
  <2>4. /\ Len(e.stack) = n + 1 /\ e.stack[n + 1] = top /\ e.stack # <<>>
        /\ \A i \in 1 .. n : e.stack[i] = c.stack[i]
    <3>1. top \in Contexts
      BY DEF Contexts
    <3> DEFINE q == c.stack
    <3>2. q \in Seq(Contexts) /\ Len(q) = n
      BY <1>1
    <3> HIDE DEF q
    <3>3. /\ Len(Append(q, top)) = n + 1 /\ Append(q, top)[n + 1] = top
          /\ \A i \in 1 .. n : Append(q, top)[i] = q[i]
      BY <3>1, <3>2, AppendProperties
    <3>4. e.stack = Append(q, top)
      BY <2>3 DEF q
    <3>5. e.stack # <<>>
      BY <3>1, <3>2, <3>4, AppendProperties
    <3> QED BY <3>3, <3>4, <3>5 DEF q
  <2>5. CountedAt(key, c.chain, 0, c.gensym) /\ CountsKey(key)
    <3> DEFINE frames == FramesOf(within)
    <3>1. frames \in Seq(Frames)
      BY <1>3, FramesOfType
    <3> HIDE DEF frames
    <3>2. <<Place(c.chain, Append(frames, Frame(content, k.tc, 0))), c.gensym>> \in Count
      BY <1>1, <2>1, <3>1, CountEnter DEF frames
    <3>3. CountedAt(key, c.chain, 0, c.gensym)
      BY <2>2, <3>2 DEF CountedAt, PlaceIn, frames
    <3> QED BY <2>2, <3>3 DEF CountsKey
  <2>6. CountsContext(top)
    <3>1. CASE top.replay
      <4>1. CountsRecording(key, Recording(key))
        BY <2>3, <3>1, HitCounted
      <4> QED BY <2>3, <3>1, <4>1 DEF CountsContext, CountsRecording, Served
    <3>2. CASE ~top.replay
      <4>1. CountsEntries(key, top.entries, top.ckpt)
        BY <2>3, <3>2, EmptySeq DEF CountsEntries
      <4> QED BY <2>3, <2>5, <3>2, <4>1 DEF CountsContext
    <3> QED BY <3>1, <3>2
  <2>7. CountsStack(e.stack)
    <3>1. ASSUME NEW i \in 1 .. n + 1 PROVE CountsContext(e.stack[i])
      <4>1. CASE i = n + 1
        BY <2>4, <2>6, <4>1
      <4>2. CASE i # n + 1
        <5>1. i \in 1 .. n
          BY <1>1, <4>2
        <5> QED BY <2>4, <5>1 DEF CountsStack
      <4> QED BY <4>1, <4>2
    <3> QED BY <2>4, <3>1 DEF CountsStack
  <2>8. Spent(k2, e)
    <3>1. FormAt(load) = 0 /\ Midway(load) = 0
      BY <1>2 DEF FormAt, Midway
    <3>2. PlaceOf(k2, e) = PlaceIn(key, c.chain, 0) /\ MidwayOf(k2) = 0
      BY <1>4, <2>3, <2>4, <3>1 DEF PlaceOf, MidwayOf
    <3>3. <<PlaceOf(k2, e), c.gensym>> \in Count /\ e.gensym = c.gensym + MidwayOf(k2)
      <4>1. c.gensym + 0 = c.gensym
        BY <1>1
      <4> QED BY <2>3, <2>5, <3>2, <4>1 DEF CountedAt
    <3> QED BY <1>1, <3>3 DEF Spent
  <2>9. ASSUME NEW was \in Recorded, Hit(was), SameHistory(was, key)
        PROVE  top.replay
    <3>1. was \in Keys /\ CountsKey(was)
      BY <2>9, HitCounted DEF CountsRecording
    <3>2. was = key
      BY <2>1, <2>5, <2>9, <3>1, SameKey
    <3> QED BY <2>3, <2>9, <3>2
  <2>10. HeedsRecord(n, e)
    BY <2>3, <2>4, <2>9 DEF HeedsRecord
  <2> QED BY <2>4, <2>7, <2>8, <2>10 DEF Counts
<1> QED BY <1>5, <1>6

LEMMA LoadTopCounts ==
  ASSUME TypeOK, FilesSound, FilesCounted, NEW s \in Sessions, NEW f \in Files,
         LoadTop(s, f), Counts(session[s], cacher[s])
  PROVE  Counts(session'[s], cacher'[s]) /\ HeedsRecord(Depth(s), cacher'[s])
<1> DEFINE k2 == session'[s]
           e == cacher'[s]
<1>1. PICK k, c, n : k = session[s] /\ c = cacher[s] /\ n = Len(c.stack)
  OBVIOUS
<1>2. /\ k.loads = <<>> /\ k \in SessionStates /\ c \in Cachers /\ c.stack = <<>> /\ k.up
      /\ k2 = [k EXCEPT !.loads = Append(@, Load(f, k.tc))]
      /\ e = Entered(c, disk[f], k.tc) /\ Depth(s) = n
  BY <1>1, SessionType DEF LoadTop, LoadFile, Begin, Begun, Caches, TypeOK, Depth, Stack
<1> HIDE DEF k2, e
<1>3. n = Len(c.stack) /\ n = Len(k.loads) /\ Alive(k, c)
  BY <1>1, <1>2 DEF Alive
<1>4. CountsStack(c.stack) /\ Spent(k, c)
  BY <1>1, <1>3 DEF Counts
<1>5. <<Place(c.chain, FramesOf(Enclosing(c.stack))), c.gensym>> \in Count
  <2>1. PICK m \in Nat : <<PlaceOf(k, c), m>> \in Count /\ c.gensym = m + MidwayOf(k)
    BY <1>4 DEF Spent
  <2>2. PlaceOf(k, c) = Place(c.chain, <<>>) /\ MidwayOf(k) = 0 /\ Enclosing(c.stack) = <<>>
    BY <1>2 DEF PlaceOf, MidwayOf, Enclosing
  <2>3. FramesOf(<<>>) = <<>>
    BY DEF FramesOf
  <2> QED BY <2>1, <2>2, <2>3
<1>6. Counts(k2, e) /\ HeedsRecord(n, e)
  <2>1. k2 = BegunFrom(k, f)
    BY <1>2 DEF BegunFrom
  <2>2. c \in Cachers /\ k \in SessionStates /\ e = Entered(c, disk[f], k.tc)
    BY <1>2
  <2> QED BY <1>3, <1>4, <1>5, <2>1, <2>2, EnteredCounts
<1> QED BY <1>2, <1>6 DEF k2, e

LEMMA NestedCounts ==
  ASSUME TypeOK, FilesSound, FilesCounted, NEW s \in Sessions,
         Evaluate(s), FormNow(s).op = "load", Stands(session[s], cacher[s], disk),
         Aligns(session[s], cacher[s], disk), Counts(session[s], cacher[s])
  PROVE  Counts(session'[s], cacher'[s]) /\ HeedsRecord(Depth(s), cacher'[s])
<1> DEFINE n == Len(cacher[s].stack)
           ctx == Context1(s)
           load == Now(s)
           form == FormNow(s)
           k0 == session[s]
           c0 == cacher[s]
           k2 == session'[s]
           e == cacher'[s]
<1>1. Loading(s) /\ load.stage = "eval" /\ More(s)
  BY NestMoves
<1>2. PICK m \in Nat : Here(k0, c0, ctx, load, m)
  BY <1>1, CountsNow
<1>3. load.at \in 1 .. Len(ctx.hash) /\ form = ctx.hash[load.at] /\ ctx.key.content = ctx.hash
  BY <1>1, FormFollows
<1>4. PICK next, k, c, f : NestedIn(s, next, k, c, f)
  BY NestMoves
<1>5. /\ next \in Loads /\ next.stage = "nested" /\ next.at = load.at /\ next.tc = load.tc
      /\ next.forms = load.forms
      /\ k \in SessionStates /\ Replaces(k0.loads, k.loads, next)
      /\ c \in Cachers /\ c.stack = c0.stack /\ c.chain = c0.chain /\ c.gensym = c0.gensym
      /\ f \in Files
      /\ k2 = [k EXCEPT !.loads = Append(@, Load(f, k.tc))]
      /\ e = Entered(c, disk[f], k.tc)
  BY <1>4 DEF NestedIn, Stack
<1>6. form.op = "load" /\ Depth(s) = n
  BY DEF Depth, Stack
<1>7. n = Len(c0.stack)
  OBVIOUS
<1> HIDE DEF n, ctx, load, form, k0, c0, k2, e
<1>8. /\ n \in Nat \ {0} /\ n = Len(k0.loads) /\ ctx = c0.stack[n] /\ ctx \in KeyedContexts
      /\ Level(ctx, load) /\ CountsStack(c0.stack) /\ load \in Loads
      /\ CountedAt(ctx.key, c0.chain, load.at, m) /\ c0.gensym = m + Midway(load)
  BY <1>1, <1>2, <1>7 DEF Here, FormAt
<1>9. load.at <= Len(ctx.hash)
  <2>1. Len(ctx.hash) \in Nat
    BY <1>8, LenProperties DEF KeyedContexts, Forms
  <2> QED BY <1>3, <2>1
<1>10. Level(ctx, next)
  BY <1>1, <1>5, <1>8, <1>9, NestedLevel
<1>11. Midway(load) = 0
  <2>1. load.forms[load.at] = form
    BY <1>1, <1>3, <1>8 DEF Level, Keyed
  <2>2. CostOfCheck(form) = 0
    BY <1>6 DEF CostOfCheck
  <2> QED BY <2>1, <2>2 DEF Midway
<1>12. <<Place(c.chain, FramesOf(Enclosing(c.stack))), c.gensym>> \in Count
  <2>1. PlaceIn(ctx.key, c.chain, next.at)
          = Place(c.chain, FramesOf(Append(ctx.key.within, <<ctx.hash, ctx.digest>>)))
    BY <1>3, <1>5, <1>6, <1>8, <1>9, <1>10, NestedFrame
  <2>2. Enclosing(c.stack) = Append(ctx.key.within, <<ctx.hash, ctx.digest>>)
    <3>1. c.stack = c0.stack /\ Len(c.stack) = n /\ n # 0
      BY <1>5, <1>7, <1>8
    <3>2. c.stack # <<>> /\ c.stack[Len(c.stack)] = ctx
      BY <1>8, <3>1
    <3>3. ctx.keyed
      BY <1>8 DEF KeyedContexts
    <3> QED BY <3>2, <3>3 DEF Enclosing
  <2>3. c.gensym = m
    BY <1>5, <1>8, <1>11
  <2> QED BY <1>5, <1>8, <2>1, <2>2, <2>3 DEF CountedAt
<1>13. n = Len(c.stack) /\ n = Len(k.loads) /\ CountsStack(c.stack)
  BY <1>5, <1>7, <1>8 DEF Replaces
<1>14. Counts(k2, e) /\ HeedsRecord(n, e)
  <2>1. k2 = BegunFrom(k, f)
    BY <1>5 DEF BegunFrom
  <2>2. /\ c \in Cachers /\ k \in SessionStates /\ f \in Files
        /\ e = Entered(c, disk[f], k.tc)
    BY <1>5
  <2> QED BY <1>12, <1>13, <2>1, <2>2, EnteredCounts
<1> QED BY <1>6, <1>14 DEF k2, e

(* ---- a load ends --------------------------------------------------------------------------- *)

LEMMA CheckpointedCounts ==
  ASSUME NEW ctx \in KeyedContexts, NEW chain \in Chains, CountsContext(ctx),
         SoundEntries(ctx.key, ctx.entries, ctx.ckpt)
  PROVE  CountsContext(Checkpointed(ctx, chain)) /\ Checkpointed(ctx, chain).key = ctx.key
<1> DEFINE p == [ctx EXCEPT !.digest = Append(@, chain)]
           top == Checkpointed(ctx, chain)
           key == ctx.key
           entries == ctx.entries
           ckpt == ctx.ckpt
<1>1. /\ p \in KeyedContexts /\ p.keyed /\ p.key = key /\ p.replay = ctx.replay
      /\ p.entries = entries /\ p.ckpt = ckpt /\ p.end = ctx.end
  <2>1. Append(ctx.digest, chain) \in Digests
    BY AppendProperties DEF Digests, KeyedContexts
  <2> QED BY <2>1 DEF KeyedContexts
<1>2. ckpt \in Seq(Chains) /\ CountsKey(key) /\ CountsEntries(key, entries, ckpt)
  BY DEF KeyedContexts, CountsContext
<1> HIDE DEF p
<1>3. CASE ~ctx.replay
  <2> DEFINE more == Append(ckpt, chain)
  <2>1. top = [p EXCEPT !.ckpt = Append(@, chain)]
    BY <1>1, <1>3 DEF Checkpointed, p
  <2>2. top.key = key /\ top.entries = entries /\ top.ckpt = more /\ ~top.replay
    BY <1>1, <1>3, <2>1 DEF KeyedContexts
  <2>3. /\ Len(more) = Len(ckpt) + 1 /\ Len(ckpt) \in Nat
        /\ \A i \in 1 .. Len(ckpt) : more[i] = ckpt[i]
    BY <1>2, AppendProperties, LenProperties
  <2> HIDE DEF more
  <2>4. ASSUME NEW i \in 1 .. Len(entries)
        PROVE  CountsEntry(key, more, i, entries[i])
    <3> DEFINE m == LoadsBefore(key.content, i)
    <3>1. SoundEntry(key, ckpt, i, entries[i]) /\ CountsEntry(key, ckpt, i, entries[i])
          /\ i \in Nat \ {0}
      BY <1>2 DEF SoundEntries, CountsEntries
    <3>2. m \in Nat /\ m <= Len(ckpt)
      BY <3>1, CountingLoads DEF SoundEntry
    <3>3. m # 0 => more[m] = ckpt[m]
      <4> HIDE DEF m
      <4> QED BY <2>3, <3>2
    <3>4. ChainAt(key, more, i) = ChainAt(key, ckpt, i)
      BY <3>3 DEF ChainAt
    <3> QED BY <3>1, <3>4 DEF CountsEntry
  <2>5. CountsEntries(key, entries, more)
    BY <2>4 DEF CountsEntries
  <2> QED BY <1>2, <2>2, <2>5 DEF CountsContext
<1>4. CASE ctx.replay
  <2>1. top \in {[p EXCEPT !.ckptCursor = @ + 1], [p EXCEPT !.poisoned = TRUE]}
    BY <1>1, <1>4 DEF Checkpointed, p
  <2>2. /\ top.key = key /\ top.entries = entries /\ top.ckpt = ckpt /\ top.replay
        /\ top.end = ctx.end
    BY <1>1, <1>4, <2>1 DEF KeyedContexts
  <2> HIDE DEF top
  <2> QED BY <1>4, <2>2 DEF CountsContext, top
<1> QED BY <1>3, <1>4

LEMMA CompletedGensym ==
  ASSUME NEW c \in Cachers, NEW n, n = Len(c.stack), NEW ctx, ctx = c.stack[n], ctx.keyed,
         NEW c2, c2 = Completed(c)
  PROVE  /\ c2.gensym = IF ctx.replay THEN Pinned(c.gensym, ctx.end) ELSE c.gensym
         /\ c2.job # NoJob => c2.job.rec.end = c.gensym
<1> DEFINE gensym == IF ctx.replay THEN Pinned(c.gensym, ctx.end) ELSE c.gensym
           chain == Append(c.chain, [file |-> ctx.hash, tc |-> ctx.tc])
           outer == SubSeq(c.stack, 1, n - 1)
           stack == IF outer = <<>> THEN <<>>
                    ELSE [outer EXCEPT ![n - 1] = Checkpointed(@, chain)]
           rec == [start |-> ctx.start, end |-> c.gensym,
                   entries |-> ctx.entries, ckpt |-> ctx.ckpt]
           open == [stage |-> "open", key |-> ctx.key, rec |-> rec, inode |-> 0]
           job == IF ctx.replay \/ ctx.poisoned THEN NoJob ELSE open
<1>1. c2 = [c EXCEPT !.chain = chain, !.gensym = gensym, !.stack = stack, !.job = job]
  BY DEF Completed
<1>2. job # NoJob => job.rec.end = c.gensym
  OBVIOUS
<1> HIDE DEF chain, gensym, stack, job
<1>3. c2.gensym = gensym /\ c2.job = job
  BY <1>1 DEF Cachers
<1> QED BY <1>2, <1>3 DEF gensym

LEMMA EndedCounts ==
  ASSUME NEW k \in SessionStates, NEW c \in Cachers, NEW d, NEW ctx, NEW load,
         AtEndOf(k, c, d, ctx, load), NEW m, Here(k, c, ctx, load, m),
         \A i \in 1 .. Len(c.stack) : ~c.stack[i].poisoned,
         NEW k2, k2 = Returned(k, FALSE), NEW c2, c2 = Completed(c)
  PROVE  /\ Counts(k2, c2) /\ Len(c2.stack) = Len(c.stack) - 1
         /\ c2.job # NoJob => CountsRecording(c2.job.key, c2.job.rec)
<1> DEFINE n == Len(c.stack)
           chain == Append(c.chain, [file |-> ctx.hash, tc |-> ctx.tc])
           outer == SubSeq(c.stack, 1, n - 1)
           loads == SubSeq(k.loads, 1, n - 1)
           content == ctx.key.content
           tc == ctx.key.tc
           last == Len(content) + 1
<1>1. /\ n \in Nat \ {0} /\ n = Len(k.loads) /\ ctx = c.stack[n] /\ load = k.loads[n]
      /\ ctx \in KeyedContexts /\ load \in Loads /\ Level(ctx, load)
      /\ load.at = Len(ctx.hash) + 1 /\ load.stage \in {"check", "eval"}
      /\ Stacked(c.stack, k.loads, n)
      /\ c.stack \in Seq(Contexts) /\ k.loads \in Seq(Loads) /\ c.chain \in Chains
      /\ m \in Nat /\ c.gensym = m + Midway(load) /\ CountsStack(c.stack) /\ CountsContext(ctx)
      /\ CountedAt(ctx.key, c.chain, FormAt(load), m)
      /\ c.chain = ChainAt(ctx.key, ctx.ckpt, load.at)
  BY DEF AtEndOf, Here, Cachers, SessionStates
<1>2. /\ content \in Forms /\ tc \in BOOLEAN /\ ctx.key \in Keys /\ ctx.keyed
      /\ content = ctx.hash /\ tc = ctx.tc /\ load.at = last
      /\ Len(content) \in Nat /\ ctx.key.within \in Withins
  BY <1>1, LenProperties DEF KeyedContexts, Level, Keyed, Keys, Forms
<1>3. chain \in Chains /\ chain = Append(c.chain, Ended(content, tc))
  <2>1. [file |-> ctx.hash, tc |-> ctx.tc] \in [file : Forms, tc : BOOLEAN]
    BY <1>2
  <2>2. chain \in Chains
    BY <1>1, <2>1, AppendProperties DEF Chains
  <2> QED BY <1>2, <2>2 DEF Ended
<1>4. FormAt(load) = last /\ Midway(load) = 0
  <2>1. load.stage = "eval" /\ ctx.tc => load.at <= Len(ctx.hash)
    BY <1>1 DEF Level, Staged
  <2>2. ~(load.at <= Len(ctx.hash))
    <3>1. load.at = Len(ctx.hash) + 1 /\ Len(ctx.hash) \in Nat
      BY <1>1, <1>2
    <3> QED BY <3>1
  <2>3. ctx.tc = load.tc
    BY <1>1 DEF Level, Keyed
  <2> QED BY <1>1, <1>2, <2>1, <2>2, <2>3 DEF FormAt, Midway
<1>5. CountedAt(ctx.key, c.chain, last, m) /\ c.gensym = m
  BY <1>1, <1>4
<1>6. /\ n = Len(c.stack) /\ outer = SubSeq(c.stack, 1, n - 1)
      /\ loads = SubSeq(k.loads, 1, n - 1)
      /\ chain = Append(c.chain, [file |-> ctx.hash, tc |-> ctx.tc])
  OBVIOUS
<1> HIDE DEF n, chain, outer, loads, content, tc
<1>7. EndedFrom(k, k2, c, c2, n, ctx, chain, outer, loads)
  BY <1>1, <1>2, <1>3, <1>6, EndedMoves
<1>8. c2.gensym = m
  <2>1. c2.gensym = IF ctx.replay THEN Pinned(c.gensym, ctx.end) ELSE c.gensym
    BY <1>1, <1>2, <1>6, CompletedGensym
  <2>2. ctx.replay => ctx.end = m
    <3> SUFFICES ASSUME ctx.replay PROVE ctx.end = m
      OBVIOUS
    <3>1. CountedAt(ctx.key, c.chain, last, ctx.end)
      BY <1>1, <1>2 DEF CountsContext, CountsEnd, content
    <3> QED BY <1>5, <3>1, CountUnique DEF CountedAt
  <2>3. Pinned(m, m) = m
    BY <1>1 DEF Pinned
  <2> QED BY <1>5, <2>1, <2>2, <2>3
<1>9. c2.job # NoJob => CountsRecording(c2.job.key, c2.job.rec)
  <2> SUFFICES ASSUME c2.job # NoJob PROVE CountsRecording(c2.job.key, c2.job.rec)
    OBVIOUS
  <2> DEFINE rec == c2.job.rec
  <2>1. c2.job.key = ctx.key /\ rec.ckpt = ctx.ckpt /\ rec.entries = ctx.entries
    BY <1>7 DEF EndedFrom, CompletedFrom
  <2>2. rec.end = m
    BY <1>1, <1>2, <1>5, <1>6, CompletedGensym
  <2> HIDE DEF rec
  <2>3. CountsEnd(ctx.key, rec.ckpt, rec.end)
    BY <1>1, <1>2, <1>5, <2>1, <2>2 DEF CountsEnd, content
  <2> QED BY <1>1, <2>1, <2>3 DEF CountsContext, CountsRecording, rec
<1> DEFINE frames == FramesOf(ctx.key.within)
<1>10. <<Place(c.chain, Append(frames, Frame(content, tc, last))), m>> \in Count
  BY <1>5 DEF CountedAt, PlaceIn, content, tc
<1>11. CASE n = 1
  <2>1. c2.stack = <<>> /\ k2.loads = <<>>
    BY <1>7, <1>11 DEF EndedFrom
  <2>2. c2.chain = chain
    BY <1>7 DEF EndedFrom, CompletedFrom
  <2>3. frames = <<>>
    <3>1. ctx.key.within = <<>>
      BY <1>1, <1>11 DEF Stacked
    <3>2. FramesOf(<<>>) = <<>>
      BY DEF FramesOf
    <3> QED BY <3>1, <3>2
  <2>4. <<Place(chain, <<>>), m>> \in Count
    <3> HIDE DEF frames
    <3> QED BY <1>1, <1>2, <1>3, <1>10, <2>3, CountLeave
  <2>5. PlaceOf(k2, c2) = Place(chain, <<>>) /\ MidwayOf(k2) = 0
    BY <2>1, <2>2 DEF PlaceOf, MidwayOf
  <2>6. m + 0 = m
    BY <1>1
  <2>7. Spent(k2, c2)
    BY <1>1, <1>8, <2>4, <2>5, <2>6 DEF Spent
  <2>8. CountsStack(c2.stack) /\ Len(c2.stack) = n - 1
    BY <1>11, <2>1 DEF CountsStack
  <2> QED BY <1>6, <1>9, <2>7, <2>8 DEF Counts
<1>12. CASE n # 1
  <2> DEFINE p == n - 1
             around == c.stack[p]
             parent == k.loads[p]
             top == Checkpointed(around, chain)
             next == Onward(parent)
  <2>1. p \in Nat \ {0} /\ p \in 1 .. n /\ p \in 1 .. n - 1 /\ p + 1 = n /\ n - 1 = p
    <3>1. n \in Nat \ {0} /\ n # 1
      BY <1>1, <1>12
    <3> QED BY <3>1
  <2> HIDE DEF p
  <2>2. Level(around, parent) /\ Link(around, parent, ctx) /\ CountsContext(around)
        /\ ~around.poisoned
    BY <1>1, <1>6, <2>1 DEF Stacked, CountsStack
  <2>3. around \in Contexts /\ parent \in Loads
    <3>1. p \in 1 .. Len(c.stack) /\ p \in 1 .. Len(k.loads)
      BY <1>1, <1>6, <2>1
    <3> QED BY <1>1, <3>1, ElementOfSeq
  <2>4. /\ around \in KeyedContexts /\ around.key.content = around.hash
        /\ around.key.tc = around.tc /\ around.tc = parent.tc
    BY <2>2, <2>3 DEF Contexts, UnkeyedContexts, Level, Keyed
  <2>5. /\ outer[p] = around /\ loads[p] = parent /\ Len(outer) = p /\ Len(loads) = p
        /\ \A i \in 1 .. p : outer[i] = c.stack[i]
        /\ Replaces(outer, c2.stack, top) /\ Replaces(loads, k2.loads, next)
        /\ c2.chain = chain
    <3>1. /\ Len(outer) = p /\ Len(loads) = p
          /\ \A i \in 1 .. p : outer[i] = c.stack[i] /\ loads[i] = k.loads[i]
      BY <1>7, <2>1 DEF EndedFrom
    <3>2. p \in 1 .. p
      BY <2>1
    <3>3. outer[p] = around /\ loads[p] = parent
      BY <3>1, <3>2
    <3> QED BY <1>7, <1>12, <2>1, <3>1, <3>3 DEF EndedFrom, CompletedFrom
  <2> HIDE DEF around, parent, top, next
  <2>6. CountsContext(top) /\ top.key = around.key
    <3>1. Steady(around, parent)
      BY <2>2 DEF Level
    <3>2. SoundEntries(around.key, around.entries, around.ckpt)
      BY <3>1 DEF Steady
    <3>3. around \in KeyedContexts /\ chain \in Chains /\ CountsContext(around)
      BY <1>3, <2>2, <2>4
    <3> QED BY ONLY <3>2, <3>3, CheckpointedCounts DEF top
  <2>7. CountsStack(outer)
    <3>1. \A i \in 1 .. p : i \in 1 .. n
      BY <1>1, <2>1
    <3> QED BY <1>1, <1>6, <2>5, <3>1 DEF CountsStack
  <2> DEFINE frames0 == FramesOf(around.key.within)
             hash == around.hash
             at == parent.at
  <2>8. /\ hash \in Forms /\ around.hash \in Forms /\ around.tc \in BOOLEAN /\ around.key.within \in Withins
        /\ around.digest \in Digests
    BY <2>4 DEF KeyedContexts, Keys
  <2>9. /\ at \in 1 .. Len(hash) /\ hash[at].op = "load"
        /\ frames = Append(frames0, Frame(hash, around.tc, at)) /\ frames0 \in Seq(Frames)
    <3>1. /\ parent.stage = "nested" /\ parent.at <= Len(around.hash)
          /\ around.hash[parent.at].op = "load"
          /\ ctx.key.within = Append(around.key.within, <<around.hash, around.digest>>)
      BY <2>2 DEF Link
    <3>2. /\ FrameOf(<<around.hash, around.digest>>) = Frame(around.hash, around.tc, parent.at)
          /\ parent.at \in 1 .. Len(around.hash)
      BY <2>2, <2>3, <2>4, <3>1, NestedFrame
    <3>3. /\ FramesOf(ctx.key.within)
               = Append(frames0, FrameOf(<<around.hash, around.digest>>))
          /\ frames0 \in Seq(Frames)
      <4>1. <<around.hash, around.digest>> \in Forms \X Digests
        BY <2>8
      <4> QED BY <2>8, <3>1, <4>1, FramesOfType
    <3> QED BY <3>1, <3>2, <3>3
  <2>10. CountedAt(around.key, chain, at + 1, m)
    <3>1. <<Place(chain, Append(frames0, Frame(hash, around.tc, at + 1))), m>> \in Count
      <4> HIDE DEF frames, frames0, hash, at
      <4>1. <<Place(c.chain, Append(Append(frames0, Frame(hash, around.tc, at)),
                                    Frame(content, tc, Len(content) + 1))), m>> \in Count
        BY <1>10, <2>9
      <4>2. <<Place(Append(c.chain, Ended(content, tc)),
                    Append(frames0, Frame(hash, around.tc, at + 1))), m>> \in Count
        BY <1>1, <1>2, <2>8, <2>9, <4>1, CountReturn
      <4> QED BY <1>3, <4>2
    <3> QED BY <2>4, <3>1 DEF CountedAt, PlaceIn
  <2>11. FormAt(next) = at + 1 /\ Midway(next) = 0
    <3>1. /\ next.at = at + 1 /\ next.tc = parent.tc
          /\ next.stage = IF parent.tc THEN "check" ELSE "eval"
      BY <2>3 DEF next, Onward, FirstStage, Loads
    <3> QED BY <3>1 DEF FormAt, Midway
  <2> HIDE DEF frames, frames0, hash, at
  <2>12. CountedAt(top.key, c2.chain, FormAt(next), m) /\ c2.gensym = m + Midway(next)
    <3>1. m + 0 = m
      BY <1>1
    <3> QED BY <1>8, <2>5, <2>6, <2>10, <2>11, <3>1
  <2>13. Counts(k2, c2)
    BY <1>1, <2>1, <2>5, <2>6, <2>7, <2>12, TopCounts
  <2>14. Len(c2.stack) = n - 1
    BY <2>1, <2>5 DEF Replaces
  <2> QED BY <1>6, <1>9, <2>13, <2>14
<1> QED BY <1>11, <1>12

LEMMA FinishCounts ==
  ASSUME TypeOK, NEW s \in Sessions, Finish(s), Stands(session[s], cacher[s], disk),
         Aligns(session[s], cacher[s], disk), Counts(session[s], cacher[s])
  PROVE  /\ Counts(session'[s], cacher'[s]) /\ Len(cacher'[s].stack) < Depth(s)
         /\ cacher'[s].job # NoJob => CountsRecording(cacher'[s].job.key, cacher'[s].job.rec)
<1> DEFINE ctx == Context1(s)
           load == Now(s)
           c == cacher[s]
           k == session[s]
           c2 == cacher'[s]
           k2 == session'[s]
<1>1. /\ Loading(s) /\ load.stage \in {"check", "eval"} /\ ~More(s) /\ k.up
  BY DEF Finish, EndLoad, Loading
<1>2. /\ Len(c.stack) \in Nat \ {0} /\ load \in Loads /\ k \in SessionStates /\ c \in Cachers
      /\ Len(c.stack) = Len(k.loads)
      /\ ctx = c.stack[Len(c.stack)] /\ load = k.loads[Len(c.stack)]
  BY <1>1, FollowsNow
<1>3. \A i \in 1 .. Len(c.stack) : ~c.stack[i].poisoned
  <2>1. Following(k, c, disk)
    BY <1>1, FollowsNow
  <2> QED BY <2>1 DEF Following, Followed
<1>4. /\ ctx \in KeyedContexts /\ Level(ctx, load) /\ AtTop(ctx, load, c, disk)
      /\ Stacked(c.stack, k.loads, Len(c.stack))
      /\ <<PlaceIn(ctx.key, c.chain, FormAt(load)), k.types>> \in Reach
  BY <1>1, InnermostLoad DEF Stack, Depth
<1>5. /\ Len(ctx.hash) \in Nat /\ load.forms = ctx.hash /\ FormAt(load) = load.at
      /\ load.at \in Nat \ {0} /\ load.at <= Len(ctx.hash) + 1
      /\ ChainHere(ctx, load, c.chain)
  BY <1>1, <1>2, <1>4, LenProperties
  DEF KeyedContexts, Level, Keyed, Staged, Loads, Forms, FormAt, AtTop
<1>6. load.at = Len(ctx.hash) + 1
  BY <1>1, <1>5 DEF More
<1>7. c2 = Completed(c) /\ k2 = Returned(k, FALSE) /\ Depth(s) = Len(c.stack)
  BY DEF Finish, EndLoad, Begin, Caches, TypeOK, Depth, Stack
<1>8. PICK m \in Nat : Here(k, c, ctx, load, m)
  BY <1>1, CountsNow
<1> HIDE DEF ctx, load, c, k, c2, k2
<1>9. AtEndOf(k, c, disk, ctx, load)
  BY <1>1, <1>2, <1>4, <1>5, <1>6 DEF AtEndOf
<1>10. /\ Counts(k2, c2) /\ Len(c2.stack) = Len(c.stack) - 1
       /\ c2.job # NoJob => CountsRecording(c2.job.key, c2.job.rec)
  BY <1>2, <1>3, <1>7, <1>8, <1>9, EndedCounts
<1>11. Len(c2.stack) < Depth(s)
  BY <1>2, <1>7, <1>10
<1> QED BY <1>10, <1>11 DEF c2, k2

(* ---- every step of a session ---------------------------------------------------------------- *)

\* Everyone has spent what its place tells, and what is being written and what
\* the directory holds has it on record.
Counted ==
  /\ \A s \in Sessions : Counts(session[s], cacher[s])
  /\ \A s \in Sessions : Job(s) # NoJob => CountsRecording(Job(s).key, Job(s).rec)
  /\ FilesCounted

LEMMA SessionCounted ==
  ASSUME TypeOK, Counted, NEW s \in Sessions, NEW k, NEW c,
         Begin(s, k), Caches(s, c), Counts(session'[s], cacher'[s]),
         cacher'[s].job # NoJob => CountsRecording(cacher'[s].job.key, cacher'[s].job.rec)
  PROVE  Counted'
<1>1. /\ \A t \in Sessions \ {s} : session'[t] = session[t] /\ cacher'[t] = cacher[t]
      /\ dir' = dir /\ inodes' = inodes
  BY DEF Begin, Caches, TypeOK
<1>2. ASSUME NEW t \in Sessions
      PROVE  Counts(session'[t], cacher'[t])
  BY <1>1 DEF Counted
<1>3. ASSUME NEW t \in Sessions, Job(t)' # NoJob
      PROVE  CountsRecording(Job(t)'.key, Job(t)'.rec)
  <2>1. CASE t = s
    BY <1>3, <2>1 DEF Job
  <2>2. CASE t # s
    <3>1. Job(t)' = Job(t)
      BY <1>1, <2>2 DEF Job
    <3>2. Job(t) # NoJob => CountsRecording(Job(t).key, Job(t).rec)
      BY DEF Counted
    <3> QED BY <1>3, <3>1, <3>2
  <2> QED BY <2>1, <2>2
<1>4. FilesCounted'
  BY <1>1 DEF Counted, FilesCounted
<1> QED BY <1>2, <1>3, <1>4 DEF Counted

\* A recording that a session was writing, or none, is no new one.
LEMMA KeptCounted ==
  ASSUME Counted, NEW s \in Sessions, NEW c, c.job \in {cacher[s].job, NoJob}
  PROVE  c.job # NoJob => CountsRecording(c.job.key, c.job.rec)
BY DEF Counted, Job

\* A session that begins has spent nothing.
LEMMA FreshCounts ==
  ASSUME NEW k, k.loads = <<>>
  PROVE  Counts(k, Idle)
<1>1. PlaceOf(k, Idle) = Nowhere /\ MidwayOf(k) = 0
  BY DEF PlaceOf, Idle, Nowhere, MidwayOf
<1>2. <<Nowhere, 0>> \in Count
  BY CountStep DEF ClosedCount
<1>3. Spent(k, Idle) /\ CountsStack(Idle.stack)
  BY <1>1, <1>2 DEF Spent, Idle, CountsStack
<1> QED BY <1>3 DEF Counts

LEMMA StartCounted ==
  ASSUME TypeOK, Counted, NEW s \in Sessions, Start(s) \/ Stop(s)
  PROVE  Counted' /\ cacher'[s].stack = <<>>
<1>1. PICK k : Begin(s, k) /\ Caches(s, Idle) /\ k.loads = <<>>
  <2>1. Down.loads = <<>> /\ \A tc : Fresh(tc).loads = <<>>
    BY DEF Down, Fresh
  <2> QED BY <2>1 DEF Start, Stop, StartSession, Crash
<1>2. cacher'[s] = Idle /\ session'[s] = k
  BY <1>1 DEF Begin, Caches, TypeOK
<1>3. Counts(session'[s], cacher'[s])
  BY <1>1, <1>2, FreshCounts
<1>4. cacher'[s].job = NoJob /\ cacher'[s].stack = <<>>
  BY <1>2 DEF Idle
<1> DEFINE c == Idle
<1>5. Caches(s, c)
  BY <1>1
<1> HIDE DEF c
<1> QED BY <1>1, <1>3, <1>4, <1>5, SessionCounted

LEMMA LoadTopCounted ==
  ASSUME TypeOK, Sound, Counted, NEW s \in Sessions, NEW f \in Files, LoadTop(s, f)
  PROVE  Counted' /\ HeedsRecord(Depth(s), cacher'[s])
<1> DEFINE k == Begun(s, f)
           c == Entered(cacher[s], disk[f], session[s].tc)
<1>1. Begin(s, k) /\ Caches(s, c)
  BY DEF LoadTop, LoadFile
<1>2. Counts(session'[s], cacher'[s]) /\ HeedsRecord(Depth(s), cacher'[s])
  BY LoadTopCounts DEF Sound, Counted
<1>3. c.job = cacher[s].job
  BY ContentType, SessionType, EnteredType DEF SessionStates
<1> HIDE DEF k, c
<1>4. cacher'[s] = c
  BY <1>1 DEF Caches, TypeOK
<1>5. cacher'[s].job # NoJob => CountsRecording(cacher'[s].job.key, cacher'[s].job.rec)
  BY <1>3, <1>4, KeptCounted
<1> QED BY <1>1, <1>2, <1>5, SessionCounted

\* The kernel's read, a check and an evaluation, which finish no recording.
LEMMA ReadCounted ==
  ASSUME TypeOK, Sound, Aligned, Counted, NEW s \in Sessions, Read(s)
  PROVE  Counted' /\ Len(cacher'[s].stack) = Depth(s)
<1>1. PICK k, c : Begin(s, k) /\ Caches(s, c)
  BY DEF Read, ReadForms
<1>2. Counts(session'[s], cacher'[s]) /\ Len(cacher'[s].stack) = Depth(s)
  BY ReadCounts DEF Sound, Aligned, Counted
<1>3. cacher'[s].job = cacher[s].job
  BY ReadAligns DEF Sound, Aligned
<1>4. cacher'[s].job # NoJob => CountsRecording(cacher'[s].job.key, cacher'[s].job.rec)
  BY <1>3, KeptCounted
<1> QED BY <1>1, <1>2, <1>4, SessionCounted

LEMMA TypecheckCounted ==
  ASSUME TypeOK, Sound, Aligned, Counted, NEW s \in Sessions, TypecheckForm(s)
  PROVE  Counted' /\ Len(cacher'[s].stack) = Depth(s)
<1>1. PICK k, c : Begin(s, k) /\ Caches(s, c)
  BY DEF TypecheckForm
<1>2. Counts(session'[s], cacher'[s]) /\ Len(cacher'[s].stack) = Depth(s)
  BY TypecheckCounts DEF Sound, Aligned, Counted
<1>3. cacher'[s].job = NoJob
  BY TypecheckKeepsJob
<1> QED BY <1>1, <1>2, <1>3, SessionCounted

LEMMA EvaluateCounted ==
  ASSUME TypeOK, Sound, Aligned, Counted, NEW s \in Sessions, Evaluate(s)
  PROVE  Counted' /\ HeedsRecord(Depth(s), cacher'[s])
<1>1. PICK k, c : Begin(s, k) /\ Caches(s, c)
  BY DEF Evaluate, EvalForm
<1>2. Counts(session'[s], cacher'[s]) /\ HeedsRecord(Depth(s), cacher'[s])
  <2>1. CASE FormNow(s).op = "load"
    BY <2>1, NestedCounts DEF Sound, Aligned, Counted
  <2>2. CASE FormNow(s).op # "load"
    <3>1. Counts(session'[s], cacher'[s]) /\ Len(cacher'[s].stack) = Depth(s)
      BY <2>2, EvaluateCounts DEF Sound, Aligned, Counted
    <3>2. Depth(s) \in Nat
      BY SessionType, LenProperties DEF Depth, Stack, Cachers
    <3> QED BY <3>1, <3>2 DEF HeedsRecord
  <2> QED BY <2>1, <2>2
<1>3. cacher'[s].job = NoJob
  BY EvaluateKeepsJob
<1> QED BY <1>1, <1>2, <1>3, SessionCounted

LEMMA FinishCounted ==
  ASSUME TypeOK, Sound, Aligned, Counted, NEW s \in Sessions, Finish(s)
  PROVE  Counted' /\ Len(cacher'[s].stack) < Depth(s)
<1>1. PICK k, c : Begin(s, k) /\ Caches(s, c)
  BY DEF Finish, EndLoad
<1>2. /\ Counts(session'[s], cacher'[s]) /\ Len(cacher'[s].stack) < Depth(s)
      /\ cacher'[s].job # NoJob => CountsRecording(cacher'[s].job.key, cacher'[s].job.rec)
  BY FinishCounts DEF Sound, Aligned, Counted
<1> QED BY <1>1, <1>2, SessionCounted

LEMMA WriteCounted ==
  ASSUME TypeOK, TypeOK', FilesOwned, Counted, NEW s \in Sessions, WriteStep(s)
  PROVE  Counted' /\ \A t \in Sessions : cacher'[t].stack = cacher[t].stack
<1>1. session' = session
  BY DEF WriteStep, OpenTmp, WriteTmp, Rename, RemoveTmp, Elsewhere
<1>2. \A t \in Sessions : cacher'[t].stack = cacher[t].stack
  BY WritingKeeps
<1>3. ASSUME NEW t \in Sessions
      PROVE  Counts(session'[t], cacher'[t])
  <2> DEFINE k == session[t]
             c == cacher[t]
             c2 == cacher'[t]
  <2>1. Counts(k, c) /\ c2.stack = c.stack /\ c2.chain = c.chain /\ c2.gensym = c.gensym
    BY WritingKeeps DEF Counted
  <2> HIDE DEF k, c, c2
  <2>2. (Alive(k, c2) => Alive(k, c)) /\ PlaceOf(k, c2) = PlaceOf(k, c)
    BY <2>1 DEF Alive, PlaceOf
  <2>3. Counts(k, c2)
    BY <2>1, <2>2 DEF Counts, Spent
  <2> QED BY <1>1, <2>3 DEF k, c2
<1>4. ASSUME NEW t \in Sessions, Job(t)' # NoJob
      PROVE  CountsRecording(Job(t)'.key, Job(t)'.rec)
  <2>1. Job(t) # NoJob /\ Job(t)'.key = Job(t).key /\ Job(t)'.rec = Job(t).rec
    BY <1>4, WritingMoves
  <2>2. CountsRecording(Job(t).key, Job(t).rec)
    BY <2>1 DEF Counted
  <2> QED BY <2>1, <2>2
<1>5. ASSUME NEW p \in DOMAIN dir', inodes'[dir'[p]] # Torn
      PROVE  CountsRecording(p[2], inodes'[dir'[p]])
  <2>1. \/ \E q \in DOMAIN dir : q[2] = p[2] /\ inodes'[dir'[p]] = inodes[dir[q]]
        \/ ~Free(s) /\ p[2] = Job(s).key /\ inodes'[dir'[p]] = Job(s).rec
    BY <1>5, WrittenFiles
  <2>2. ~Free(s) => CountsRecording(Job(s).key, Job(s).rec)
    BY DEF Counted, Free, Job
  <2>3. \A q \in DOMAIN dir : inodes[dir[q]] # Torn => CountsRecording(q[2], inodes[dir[q]])
    BY DEF Counted, FilesCounted
  <2> QED BY <1>5, <2>1, <2>2, <2>3
<1>6. FilesCounted'
  BY <1>5 DEF FilesCounted
<1> QED BY <1>2, <1>3, <1>4, <1>6 DEF Counted

LEMMA CountedInit ==
  ASSUME Init
  PROVE  Counted
<1>1. \A s \in Sessions : session[s] = Down /\ cacher[s] = Idle
  BY DEF Init, LoadInit
<1>2. \A s \in Sessions : Counts(session[s], cacher[s])
  <2>1. Down.loads = <<>>
    BY DEF Down, Fresh
  <2> QED BY <1>1, <2>1, FreshCounts
<1>3. \A s \in Sessions : Job(s) = NoJob
  BY <1>1 DEF Idle, Job
<1>4. FilesCounted
  BY DEF Init, FilesCounted
<1> QED BY <1>2, <1>3, <1>4 DEF Counted

\* A session that pushes no context has nothing to heed, and a step of one
\* session pushes none for another.
LEMMA NothingToHeed ==
  ASSUME TypeOK, NEW s \in Sessions, NEW e, Len(e.stack) <= Depth(s), Len(e.stack) \in Nat
  PROVE  HeedsRecord(Depth(s), e)
<1>1. Depth(s) \in Nat
  BY SessionType, LenProperties DEF Depth, Stack, Cachers
<1> QED BY <1>1 DEF HeedsRecord

LEMMA OthersHeed ==
  ASSUME TypeOK, NEW s \in Sessions, NEW k, NEW c, Begin(s, k), Caches(s, c),
         NEW t \in Sessions, t # s
  PROVE  HeedsRecord(Depth(t), cacher'[t])
<1>1. cacher'[t] = cacher[t]
  BY DEF Begin, Caches, TypeOK
<1>2. Len(cacher'[t].stack) = Depth(t) /\ Depth(t) \in Nat
  BY <1>1, SessionType, LenProperties DEF Depth, Stack, Cachers
<1> QED BY <1>2, NothingToHeed

LEMMA CountedStep ==
  ASSUME TypeOK, TypeOK', FilesOwned, Sound, Aligned, Counted,
         [Next]_vars, [Undisturbed]_vars
  PROVE  Counted' /\ \A s \in Sessions : HeedsRecord(Depth(s), cacher'[s])
<1>1. \A s \in Sessions :
        /\ Depth(s) \in Nat /\ Depth(s) = Len(cacher[s].stack)
        /\ Len(cacher'[s].stack) \in Nat
  <2>1. \A s \in Sessions : cacher[s].stack \in Seq(Contexts) /\ cacher'[s].stack \in Seq(Contexts)
    BY DEF TypeOK, Cachers
  <2> QED BY <2>1, LenProperties DEF Depth, Stack
<1>2. CASE UNCHANGED vars
  <2>1. UNCHANGED <<disk, session, moves, cacher, dir, inodes>>
    BY <1>2 DEF vars
  <2>2. \A s \in Sessions : Counts(session'[s], cacher'[s]) /\ Job(s)' = Job(s)
    BY <2>1 DEF Counted, Job
  <2>3. FilesCounted'
    BY <2>1 DEF Counted, FilesCounted
  <2>4. \A s \in Sessions : HeedsRecord(Depth(s), cacher'[s])
    BY <1>1, <2>1, NothingToHeed
  <2> QED BY <2>1, <2>2, <2>3, <2>4 DEF Counted
<1>3. CASE ~UNCHANGED vars
  <2>1. disk' = disk /\ \A s \in Sessions : ~GiveUp(s)
    BY <1>3 DEF Undisturbed, NoneGivesUp
  <2>2. ~\E f \in Files : EditFile(f)
    BY <2>1 DEF EditFile, Edit, TypeOK
  <2>3. PICK s \in Sessions :
          \/ Start(s) \/ Stop(s) \/ \E f \in Files : LoadTop(s, f)
          \/ Read(s) \/ TypecheckForm(s) \/ Evaluate(s) \/ Finish(s) \/ WriteStep(s)
    BY <1>3, <2>1, <2>2 DEF Next, WriteStep
  <2>4. CASE WriteStep(s)
    <3>1. Counted' /\ \A t \in Sessions : cacher'[t].stack = cacher[t].stack
      BY <2>4, WriteCounted
    <3>2. \A t \in Sessions : HeedsRecord(Depth(t), cacher'[t])
      BY <1>1, <3>1, NothingToHeed
    <3> QED BY <3>1, <3>2
  <2>5. CASE ~WriteStep(s)
    <3>1. Counted' /\ HeedsRecord(Depth(s), cacher'[s])
      <4>1. CASE Start(s) \/ Stop(s)
        <5>1. Counted' /\ cacher'[s].stack = <<>>
          BY <4>1, StartCounted
        <5>2. Len(cacher'[s].stack) <= Depth(s)
          BY <1>1, <5>1
        <5> QED BY <1>1, <5>1, <5>2, NothingToHeed
      <4>2. CASE \E f \in Files : LoadTop(s, f)
        BY <4>2, LoadTopCounted
      <4>3. CASE Read(s) \/ TypecheckForm(s)
        <5>1. Counted' /\ Len(cacher'[s].stack) = Depth(s)
          BY <4>3, ReadCounted, TypecheckCounted
        <5> QED BY <1>1, <5>1, NothingToHeed
      <4>4. CASE Evaluate(s)
        BY <4>4, EvaluateCounted
      <4>5. CASE Finish(s)
        <5>1. Counted' /\ Len(cacher'[s].stack) < Depth(s)
          BY <4>5, FinishCounted
        <5>2. Len(cacher'[s].stack) <= Depth(s)
          BY <1>1, <5>1
        <5> QED BY <1>1, <5>1, <5>2, NothingToHeed
      <4> QED BY <2>3, <2>5, <4>1, <4>2, <4>3, <4>4, <4>5
    <3>2. PICK k, c : Begin(s, k) /\ Caches(s, c)
      BY <2>3, <2>5 DEF Start, Stop, StartSession, Crash, LoadTop, LoadFile, Read, ReadForms,
                        TypecheckForm, Evaluate, EvalForm, Finish, EndLoad
    <3>3. \A t \in Sessions \ {s} : HeedsRecord(Depth(t), cacher'[t])
      BY <3>2, OthersHeed
    <3> QED BY <3>1, <3>3
  <2> QED BY <2>4, <2>5
<1> QED BY <1>2, <1>3

\* A load that repeats a history some session has recorded is replayed: what a
\* session has loaded, form by form, decides how far the gensym counter has come,
\* so that the same history comes to the same key (the counter in the key and the
\* pins that a replay moves it by, load_wrapper and stream_wrapper of tc_cache.rs).  Files stay as they are and no load is given up:
\* otherwise a load may leave gensyms spent that no history tells of.
THEOREM RepeatsAreReplayed ==
  Spec /\ [][Undisturbed]_vars => RepeatsReplay
<1>1. Init => TypeOK /\ FilesOwned /\ Sound /\ Aligned /\ Counted
  BY InitType, FilesOwnedInit, SoundInit, AlignedInit, CountedInit
<1>2. [Undisturbed]_vars /\ [Next]_vars /\ TypeOK
        => [EditsApart /\ FailuresLeaveNoTrace]_vars
  BY DEF Undisturbed, NoneGivesUp, EditsApart, FailuresLeaveNoTrace, EditFile, Edit, TypeOK
<1>3. TypeOK /\ FilesOwned /\ Sound /\ Aligned /\ Counted /\ [Next]_vars /\ [Undisturbed]_vars
        => /\ TypeOK' /\ FilesOwned' /\ Sound' /\ Aligned' /\ Counted'
           /\ \A s \in Sessions : HeedsRecord(Depth(s), cacher'[s])
  BY <1>2, NextType, FilesOwnedStep, SoundStep, AlignedStep, CountedStep
<1>4. (\A s \in Sessions : HeedsRecord(Depth(s), cacher'[s]))
        => \A s \in Sessions :
             Len(cacher'[s].stack) > Depth(s) =>
               LET ctx == cacher'[s].stack[Depth(s) + 1] IN
               ctx.keyed /\ (\E key \in Recorded : Hit(key) /\ SameHistory(key, ctx.key))
                 => ctx.replay
  BY DEF HeedsRecord
<1> QED BY <1>1, <1>3, <1>4, PTL DEF Spec, RepeatsReplay

\* Where every file has one content, a repeated history is replayed in every
\* behaviour without a load given up.
THEOREM RepeatsAreReplayedUnedited ==
  ASSUME \A f \in Files : \A x, y \in Versions[f] : x = y
  PROVE  Spec /\ [][NoneGivesUp]_vars => RepeatsReplay
<1>1. Init => Versioned /\ TypeOK
  BY InitType DEF Init, LoadInit, Versioned
<1>2. TypeOK /\ Versioned /\ [Next]_vars => TypeOK' /\ Versioned' /\ UNCHANGED disk
  BY NobodyEdits
<1>3. UNCHANGED disk /\ [NoneGivesUp]_vars => [Undisturbed]_vars
  BY DEF Undisturbed
<1> QED BY <1>1, <1>2, <1>3, RepeatsAreReplayed, PTL DEF Spec
=============================================================================
