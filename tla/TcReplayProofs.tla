---------------------------- MODULE TcReplayProofs ----------------------------
(***************************************************************************)
(* Proofs about TcCache, second part: a replay is sound.  The types in     *)
(* force at a place of a session are a function of what the keys of its    *)
(* contexts hold, so that the verdicts of a recording are those that the   *)
(* typechecker would give (tc_cache.rs:50, "Same key => same environment   *)
(* => replay is sound").                                                   *)
(***************************************************************************)
EXTENDS TcCacheProofs

(* ---- counting loads ------------------------------------------------------------ *)

LoadsBefore(content, at) == Cardinality({i \in 1 .. at - 1 : content[i].op = "load"})
IsChain(x) == x # <<>> /\ x \in Chains
ChainsIn(digest) == Cardinality({i \in DOMAIN digest : IsChain(digest[i])})

LEMMA CountingLoads ==
  ASSUME NEW content, NEW at \in Nat \ {0}
  PROVE  /\ LoadsBefore(content, at) \in Nat
         /\ LoadsBefore(content, 1) = 0
         /\ LoadsBefore(content, at + 1)
              = LoadsBefore(content, at) + (IF content[at].op = "load" THEN 1 ELSE 0)
         /\ \A to \in Nat \ {0} : at <= to => LoadsBefore(content, at) <= LoadsBefore(content, to)
<1> DEFINE L(n) == {i \in 1 .. n - 1 : content[i].op = "load"}
<1>1. \A n \in Nat \ {0} : IsFiniteSet(L(n))
  <2> SUFFICES ASSUME NEW n \in Nat \ {0} PROVE IsFiniteSet(L(n))
    OBVIOUS
  <2>1. IsFiniteSet(1 .. n - 1)
    BY FS_Interval
  <2> QED BY <2>1, FS_Subset
<1>2. \A n \in Nat \ {0} : Cardinality(L(n)) \in Nat
  BY <1>1, FS_CardinalityType
<1>3. Cardinality(L(1)) = 0
  <2>1. L(1) = {}
    OBVIOUS
  <2> QED BY <2>1, FS_EmptySet
<1>4. Cardinality(L(at + 1)) = Cardinality(L(at)) + (IF content[at].op = "load" THEN 1 ELSE 0)
  <2>1. 1 .. (at + 1) - 1 = (1 .. at - 1) \cup {at} /\ at \notin 1 .. at - 1
    OBVIOUS
  <2>2. CASE content[at].op = "load"
    <3>1. L(at + 1) = L(at) \cup {at} /\ at \notin L(at)
      BY <2>1, <2>2
    <3> HIDE DEF L
    <3> QED BY <1>1, <2>2, <3>1, FS_AddElement
  <2>3. CASE content[at].op # "load"
    <3>1. L(at + 1) = L(at)
      BY <2>1, <2>3
    <3> HIDE DEF L
    <3> QED BY <1>2, <2>3, <3>1
  <2> QED BY <2>2, <2>3
<1>5. \A to \in Nat \ {0} : at <= to => Cardinality(L(at)) <= Cardinality(L(to))
  <2> SUFFICES ASSUME NEW to \in Nat \ {0}, at <= to
               PROVE  Cardinality(L(at)) <= Cardinality(L(to))
    OBVIOUS
  <2>1. L(at) \subseteq L(to)
    OBVIOUS
  <2> HIDE DEF L
  <2> QED BY <1>1, <2>1, FS_Subset
<1> QED BY <1>2, <1>3, <1>4, <1>5 DEF LoadsBefore

\* A load form is known by the number of load forms before it.
LEMMA LoadsTellApart ==
  ASSUME NEW content, NEW i \in Nat \ {0}, NEW j \in Nat \ {0},
         content[i].op = "load", content[j].op = "load",
         LoadsBefore(content, i) = LoadsBefore(content, j)
  PROVE  i = j
<1>1. ASSUME NEW m \in Nat \ {0}, NEW n \in Nat \ {0}, content[m].op = "load", m < n
      PROVE  LoadsBefore(content, m) # LoadsBefore(content, n)
  <2>1. m + 1 \in Nat \ {0} /\ m + 1 <= n
    BY <1>1
  <2>2. LoadsBefore(content, m + 1) = LoadsBefore(content, m) + 1
    BY <1>1, CountingLoads
  <2>3. LoadsBefore(content, m + 1) <= LoadsBefore(content, n)
    BY <2>1, CountingLoads
  <2>4. LoadsBefore(content, m) \in Nat /\ LoadsBefore(content, n) \in Nat
    BY CountingLoads
  <2> QED BY <2>2, <2>3, <2>4
<1>2. ~(i < j) /\ ~(j < i)
  BY <1>1
<1> QED BY <1>2

LEMMA CountingChains ==
  ASSUME NEW digest \in Digests, NEW x \in Hashes \cup Chains
  PROVE  /\ ChainsIn(digest) \in Nat /\ ChainsIn(<<>>) = 0
         /\ Append(digest, x) \in Digests
         /\ ChainsIn(Append(digest, x)) = ChainsIn(digest) + (IF IsChain(x) THEN 1 ELSE 0)
         /\ digest # <<>> => Append(digest, x)[1] = digest[1]
         /\ digest = <<>> => Append(digest, x)[1] = x
         /\ (\A i \in DOMAIN digest : IsChain(digest[i])) /\ IsChain(x) =>
              \A i \in DOMAIN Append(digest, x) : IsChain(Append(digest, x)[i])
<1> DEFINE d == Append(digest, x)
           n == Len(digest)
           C(q) == {i \in DOMAIN q : IsChain(q[i])}
<1>1. n \in Nat /\ DOMAIN digest = 1 .. n
  BY LenProperties DEF Digests
<1>2. d \in Digests /\ DOMAIN d = 1 .. n + 1 /\ d[n + 1] = x
      /\ \A i \in 1 .. n : d[i] = digest[i]
  BY AppendProperties, LenProperties DEF Digests
<1> HIDE DEF d, n
<1>3. IsFiniteSet(C(digest))
  <2>1. IsFiniteSet(1 .. n)
    BY <1>1, FS_Interval
  <2> QED BY <1>1, <2>1, FS_Subset
<1>4. Cardinality(C(digest)) \in Nat
  BY <1>3, FS_CardinalityType
<1>5. C(<<>>) = {}
  OBVIOUS
<1>6. Cardinality(C(d)) = Cardinality(C(digest)) + (IF IsChain(x) THEN 1 ELSE 0)
  <2>1. n + 1 \notin C(digest) /\ 1 .. n + 1 = (1 .. n) \cup {n + 1}
    BY <1>1
  <2>2. CASE IsChain(x)
    <3>1. C(d) = C(digest) \cup {n + 1}
      BY <1>1, <1>2, <2>1, <2>2
    <3> HIDE DEF C
    <3> QED BY <1>3, <2>1, <2>2, <3>1, FS_AddElement
  <2>3. CASE ~IsChain(x)
    <3>1. C(d) = C(digest)
      BY <1>1, <1>2, <2>1, <2>3
    <3> HIDE DEF C
    <3> QED BY <1>4, <2>3, <3>1
  <2> QED BY <2>2, <2>3
<1>7. digest # <<>> => d[1] = digest[1]
  <2>1. digest # <<>> => n # 0
    BY EmptySeq DEF n, Digests
  <2> QED BY <1>1, <1>2, <2>1
<1>8. digest = <<>> => d[1] = x
  BY <1>1, <1>2 DEF n
<1>9. ASSUME \A i \in DOMAIN digest : IsChain(digest[i]), IsChain(x)
      PROVE  \A i \in DOMAIN d : IsChain(d[i])
  BY <1>1, <1>2, <1>9
<1> QED BY <1>2, <1>4, <1>5, <1>6, <1>7, <1>8, <1>9, FS_EmptySet DEF ChainsIn, d

\* The hash of a form is no chain, and the chain of a load that ended is one.
LEMMA HashOrChain ==
  /\ \A form \in Form : \A ctx : ~IsChain(ArgHash(form, ctx))
  /\ \A chain \in Chains, link \in [file : Forms, tc : BOOLEAN] : IsChain(Append(chain, link))
<1>1. ASSUME NEW form \in Form, NEW ctx
      PROVE  ~IsChain(ArgHash(form, ctx))
  <2>1. form \notin [file : Forms, tc : BOOLEAN]
    BY DEF Form
  <2>2. CASE form.op = "opaque"
    BY <2>2 DEF ArgHash, NoHash, IsChain
  <2>3. CASE form.op # "opaque"
    <3>1. ArgHash(form, ctx)[1] = form /\ Len(ArgHash(form, ctx)) \in {1, 2}
      BY <2>3 DEF ArgHash
    <3>2. ArgHash(form, ctx) \in Chains => form \in [file : Forms, tc : BOOLEAN]
      <4> DEFINE h == ArgHash(form, ctx)
      <4> SUFFICES ASSUME h \in Chains PROVE h[1] \in [file : Forms, tc : BOOLEAN]
        BY <3>1
      <4>1. 1 \in 1 .. Len(h)
        BY <3>1
      <4> HIDE DEF h
      <4> QED BY <4>1, ElementOfSeq DEF Chains
    <3> QED BY <2>1, <3>2 DEF IsChain
  <2> QED BY <2>2, <2>3
<1>2. ASSUME NEW chain \in Chains, NEW link \in [file : Forms, tc : BOOLEAN]
      PROVE  IsChain(Append(chain, link))
  BY AppendProperties DEF Chains, IsChain
<1> QED BY <1>1, <1>2

(* ---- places ------------------------------------------------------------------------- *)

\* Where a session is: the chain of its completed loads, and for each load in
\* progress the content, whether it typechecks, and the form it is at (0 before
\* the kernel has read the file).
Frame(content, tc, at) == [content |-> content, tc |-> tc, at |-> at]
Frames == [content : Forms, tc : BOOLEAN, at : Nat]
Places == [chain : Chains, frames : Seq(Frames)]
Place(chain, frames) == [chain |-> chain, frames |-> frames]
Ended(content, tc) == [file |-> content, tc |-> tc]

Inner(q) == q.frames[Len(q.frames)]
Outer(q) == SubSeq(q.frames, 1, Len(q.frames) - 1)
FormBefore(q) == Inner(q).content[Inner(q).at - 1]

\* How a session has come to be there: by entering a file, by reading it, by
\* passing a form, or by returning from a load.
Within(q) == q.frames # <<>>
JustEntered(q) == Within(q) /\ Inner(q).at = 0
JustRead(q) == Within(q) /\ Inner(q).at = 1
JustPassed(q) == Within(q) /\ Inner(q).at > 1 /\ FormBefore(q).op # "load"

Retreated(q) ==
  Append(Outer(q), Frame(Inner(q).content, Inner(q).tc, Inner(q).at - 1))
LastLoad(q) == q.chain[Len(q.chain)]
AtEnd(load) == Frame(load.file, load.tc, Len(load.file) + 1)
Before(q) ==
  IF JustEntered(q) THEN Place(q.chain, Outer(q))
  ELSE IF JustRead(q) \/ JustPassed(q) THEN Place(q.chain, Retreated(q))
  ELSE Place(SubSeq(q.chain, 1, Len(q.chain) - 1),
             Append(IF Within(q) THEN Retreated(q) ELSE <<>>, AtEnd(LastLoad(q))))

\* What that has done to the types in force.
Declared(types, form) ==
  IF form.op = "declare" THEN [types EXCEPT ![form.g] = form.type] ELSE types
TypesAt(q, types) ==
  IF JustRead(q) /\ Inner(q).tc THEN Assuming(types, Inner(q).content)
  ELSE IF JustPassed(q) THEN Declared(types, FormBefore(q))
  ELSE types

\* The places a session may come to without a failure, with the types in force.
Nowhere == Place(<<>>, <<>>)
NoTypes == [g \in Names |-> None]
Closed(R) ==
  /\ <<Nowhere, NoTypes>> \in R
  /\ \A q \in Places, types, now \in Types :
       q # Nowhere /\ <<Before(q), types>> \in R /\ now = TypesAt(q, types) => <<q, now>> \in R
Reach ==
  {x \in Places \X Types : \A R \in SUBSET (Places \X Types) : Closed(R) => x \in R}

LEMMA NowhereType == Nowhere \in Places /\ NoTypes \in Types
BY EmptySeq DEF Nowhere, Place, Places, NoTypes, Types, Chains

\* Reach is closed itself.
LEMMA ReachStep == Reach \subseteq Places \X Types /\ Closed(Reach)
<1>1. <<Nowhere, NoTypes>> \in Reach
  BY NowhereType DEF Reach, Closed
<1>2. ASSUME NEW q \in Places, NEW types \in Types, NEW now \in Types, q # Nowhere,
             <<Before(q), types>> \in Reach, now = TypesAt(q, types)
      PROVE  <<q, now>> \in Reach
  <2>1. ASSUME NEW R \in SUBSET (Places \X Types), Closed(R)
        PROVE  <<q, now>> \in R
    <3>1. <<Before(q), types>> \in R
      BY <1>2, <2>1 DEF Reach
    <3> QED BY <1>2, <2>1, <3>1 DEF Closed
  <2> QED BY <1>2, <2>1 DEF Reach
<1>3. Reach \subseteq Places \X Types
  BY DEF Reach
<1> QED BY <1>1, <1>2, <1>3 DEF Closed

\* A session comes to a place from the place before it only.
LEMMA ReachBack ==
  ASSUME NEW q, NEW types, <<q, types>> \in Reach
  PROVE  \/ q = Nowhere /\ types = NoTypes
         \/ /\ q # Nowhere
            /\ \E earlier \in Types : /\ <<Before(q), earlier>> \in Reach
                                     /\ types = TypesAt(q, earlier)
<1> DEFINE Back(p, t) == \/ p = Nowhere /\ t = NoTypes
                         \/ /\ p # Nowhere
                            /\ \E earlier \in Types : /\ <<Before(p), earlier>> \in Reach
                                                     /\ t = TypesAt(p, earlier)
           R == {x \in Reach : Back(x[1], x[2])}
<1>1. Closed(R)
  <2>1. <<Nowhere, NoTypes>> \in R
    BY ReachStep DEF Closed
  <2>2. ASSUME NEW p \in Places, NEW t \in Types, NEW now \in Types, p # Nowhere,
               <<Before(p), t>> \in R, now = TypesAt(p, t)
        PROVE  <<p, now>> \in R
    <3>1. <<Before(p), t>> \in Reach
      BY <2>2
    <3>2. <<p, now>> \in Reach
      BY <2>2, <3>1, ReachStep DEF Closed
    <3>3. Back(p, now)
      BY <2>2, <3>1
    <3> QED BY <3>2, <3>3
  <2> HIDE DEF R
  <2> QED BY <2>1, <2>2 DEF Closed
<1>2. R \in SUBSET (Places \X Types)
  BY ReachStep
<1>3. <<q, types>> \in R
  <2> HIDE DEF R
  <2> QED BY <1>1, <1>2 DEF Reach
<1>4. Back(q, types)
  BY <1>3
<1> QED BY <1>4

\* The types in force are a function of the place.
LEMMA ReachUnique ==
  ASSUME NEW q, NEW types, NEW others, <<q, types>> \in Reach, <<q, others>> \in Reach
  PROVE  types = others
<1> DEFINE R == {x \in Reach : \A t \in Types : <<x[1], t>> \in Reach => t = x[2]}
<1>1. Closed(R)
  <2>1. <<Nowhere, NoTypes>> \in R
    <3>1. \A t \in Types : <<Nowhere, t>> \in Reach => t = NoTypes
      BY ReachBack
    <3> QED BY <3>1, ReachStep DEF Closed
  <2>2. ASSUME NEW p \in Places, NEW t \in Types, NEW now \in Types, p # Nowhere,
               <<Before(p), t>> \in R, now = TypesAt(p, t)
        PROVE  <<p, now>> \in R
    <3>1. <<Before(p), t>> \in Reach /\ \A u \in Types : <<Before(p), u>> \in Reach => u = t
      BY <2>2
    <3>2. <<p, now>> \in Reach
      BY <2>2, <3>1, ReachStep DEF Closed
    <3>3. ASSUME NEW u \in Types, <<p, u>> \in Reach PROVE u = now
      <4>1. PICK earlier \in Types : /\ <<Before(p), earlier>> \in Reach
                                    /\ u = TypesAt(p, earlier)
        BY <2>2, <3>3, ReachBack
      <4> QED BY <2>2, <3>1, <4>1
    <3> QED BY <3>2, <3>3
  <2> HIDE DEF R
  <2> QED BY <2>1, <2>2 DEF Closed
<1>2. R \in SUBSET (Places \X Types)
  BY ReachStep
<1>3. <<q, types>> \in R
  <2> HIDE DEF R
  <2> QED BY <1>1, <1>2 DEF Reach
<1>4. others \in Types
  BY ReachStep
<1> QED BY <1>3, <1>4

(* ---- steps from place to place -------------------------------------------------------- *)

LEMMA FrontAppend ==
  ASSUME NEW S, NEW q \in Seq(S), NEW e \in S
  PROVE  /\ SubSeq(Append(q, e), 1, Len(Append(q, e)) - 1) = q
         /\ Append(q, e)[Len(Append(q, e))] = e
         /\ Append(q, e) # <<>> /\ Append(q, e) \in Seq(S)
<1> DEFINE a == Append(q, e)
           b == SubSeq(a, 1, Len(a) - 1)
<1>1. /\ a \in Seq(S) /\ a # <<>> /\ Len(a) = Len(q) + 1 /\ a[Len(q) + 1] = e
      /\ \A i \in 1 .. Len(q) : a[i] = q[i]
  BY AppendProperties
<1>2. Len(q) \in Nat
  BY LenProperties
<1> HIDE DEF a
<1>3. /\ b \in Seq(S) /\ Len(b) = Len(a) - 1
      /\ \A i \in 1 .. Len(a) - 1 : b[i] = a[i]
  BY <1>1, Last
<1> HIDE DEF b
<1>4. Len(b) = Len(q) /\ \A i \in 1 .. Len(b) : b[i] = q[i]
  BY <1>1, <1>2, <1>3
<1>5. b = q
  BY <1>3, <1>4, SeqEqual
<1> QED BY <1>1, <1>5 DEF a, b

LEMMA PlaceParts ==
  ASSUME NEW chain \in Chains, NEW frames \in Seq(Frames), NEW content \in Forms,
         NEW tc \in BOOLEAN, NEW at \in Nat
  PROVE  LET q == Place(chain, Append(frames, Frame(content, tc, at))) IN
         /\ q \in Places /\ Within(q) /\ q # Nowhere /\ q.chain = chain
         /\ Inner(q) = Frame(content, tc, at) /\ Outer(q) = frames
         /\ Inner(q).content = content /\ Inner(q).tc = tc /\ Inner(q).at = at
         /\ Frame(content, tc, at) \in Frames
<1> DEFINE frame == Frame(content, tc, at)
           all == Append(frames, frame)
           q == Place(chain, all)
<1>1. frame \in Frames /\ frame.content = content /\ frame.tc = tc /\ frame.at = at
  BY DEF Frame, Frames
<1> HIDE DEF frame
<1>2. /\ SubSeq(all, 1, Len(all) - 1) = frames /\ all[Len(all)] = frame
      /\ all # <<>> /\ all \in Seq(Frames)
  BY <1>1, FrontAppend
<1> HIDE DEF all
<1>3. q \in Places /\ q.chain = chain /\ q.frames = all
  BY <1>2 DEF Place, Places
<1>4. q # Nowhere
  BY <1>2, <1>3 DEF Nowhere, Place
<1> HIDE DEF q
<1>5. Within(q) /\ Inner(q) = frame /\ Outer(q) = frames
  BY <1>2, <1>3 DEF Within, Inner, Outer
<1> QED BY <1>1, <1>3, <1>4, <1>5 DEF q, all, frame

\* A load begins.
LEMMA EnterPlace ==
  ASSUME NEW chain \in Chains, NEW frames \in Seq(Frames), NEW content \in Forms,
         NEW tc \in BOOLEAN
  PROVE  LET q == Place(chain, Append(frames, Frame(content, tc, 0))) IN
         /\ q \in Places /\ q # Nowhere /\ Before(q) = Place(chain, frames)
         /\ ~JustRead(q) /\ ~JustPassed(q)
<1> DEFINE q == Place(chain, Append(frames, Frame(content, tc, 0)))
<1>1. /\ q \in Places /\ Within(q) /\ q # Nowhere /\ q.chain = chain
      /\ Outer(q) = frames /\ Inner(q).at = 0
  BY PlaceParts
<1> HIDE DEF q
<1>2. JustEntered(q) /\ ~JustRead(q) /\ ~JustPassed(q)
  BY <1>1 DEF JustEntered, JustRead, JustPassed
<1>3. Before(q) = Place(chain, frames)
  BY <1>1, <1>2 DEF Before
<1> QED BY <1>1, <1>2, <1>3 DEF q

LEMMA ReachEnter ==
  ASSUME NEW chain \in Chains, NEW frames \in Seq(Frames), NEW content \in Forms,
         NEW tc \in BOOLEAN, NEW types \in Types, <<Place(chain, frames), types>> \in Reach
  PROVE  <<Place(chain, Append(frames, Frame(content, tc, 0))), types>> \in Reach
<1> DEFINE q == Place(chain, Append(frames, Frame(content, tc, 0)))
<1>1. /\ q \in Places /\ q # Nowhere /\ Before(q) = Place(chain, frames)
      /\ TypesAt(q, types) = types
  BY EnterPlace DEF TypesAt
<1> HIDE DEF q
<1> QED BY <1>1, ReachStep DEF Closed, q

\* Its file is read.
LEMMA ReadPlace ==
  ASSUME NEW chain \in Chains, NEW frames \in Seq(Frames), NEW content \in Forms,
         NEW tc \in BOOLEAN
  PROVE  LET q == Place(chain, Append(frames, Frame(content, tc, 1))) IN
         /\ q \in Places /\ q # Nowhere
         /\ Before(q) = Place(chain, Append(frames, Frame(content, tc, 0)))
         /\ JustRead(q) /\ ~JustPassed(q) /\ Inner(q).content = content /\ Inner(q).tc = tc
<1> DEFINE q == Place(chain, Append(frames, Frame(content, tc, 1)))
<1>1. /\ q \in Places /\ Within(q) /\ q # Nowhere /\ q.chain = chain
      /\ Outer(q) = frames /\ Inner(q).at = 1
      /\ Inner(q).tc = tc /\ Inner(q).content = content
  BY PlaceParts
<1> HIDE DEF q
<1>2. ~JustEntered(q) /\ JustRead(q) /\ ~JustPassed(q)
  BY <1>1 DEF JustEntered, JustRead, JustPassed
<1>3. Before(q) = Place(chain, Append(frames, Frame(content, tc, 0)))
  BY <1>1, <1>2 DEF Before, Retreated
<1> QED BY <1>1, <1>2, <1>3 DEF q

LEMMA ReachRead ==
  ASSUME NEW chain \in Chains, NEW frames \in Seq(Frames), NEW content \in Forms,
         NEW tc \in BOOLEAN, NEW types \in Types,
         <<Place(chain, Append(frames, Frame(content, tc, 0))), types>> \in Reach
  PROVE  <<Place(chain, Append(frames, Frame(content, tc, 1))),
           IF tc THEN Assuming(types, content) ELSE types>> \in Reach
<1> DEFINE q == Place(chain, Append(frames, Frame(content, tc, 1)))
           now == IF tc THEN Assuming(types, content) ELSE types
<1>1. /\ q \in Places /\ q # Nowhere
      /\ Before(q) = Place(chain, Append(frames, Frame(content, tc, 0)))
      /\ now = TypesAt(q, types)
  BY ReadPlace DEF TypesAt
<1>2. now \in Types
  BY AssumingType
<1> HIDE DEF q
<1> QED BY <1>1, <1>2, ReachStep DEF Closed, q

LEMMA DeclaredType ==
  ASSUME NEW types \in Types, NEW form \in Form
  PROVE  Declared(types, form) \in Types
<1>1. form.op = "declare" => form.g \in Names /\ form.type \in TypeNames
  BY DEF Form
<1> QED BY <1>1 DEF Declared, Types

\* A form is checked and evaluated that loads no file.
LEMMA PassPlace ==
  ASSUME NEW chain \in Chains, NEW frames \in Seq(Frames), NEW content \in Forms,
         NEW tc \in BOOLEAN, NEW at \in 1 .. Len(content), content[at].op # "load"
  PROVE  LET q == Place(chain, Append(frames, Frame(content, tc, at + 1))) IN
         /\ q \in Places /\ q # Nowhere
         /\ Before(q) = Place(chain, Append(frames, Frame(content, tc, at)))
         /\ ~JustRead(q) /\ JustPassed(q) /\ Inner(q).tc = tc /\ FormBefore(q) = content[at]
<1> DEFINE q == Place(chain, Append(frames, Frame(content, tc, at + 1)))
<1>0. at \in Nat /\ at + 1 \in Nat /\ at + 1 > 1 /\ (at + 1) - 1 = at
  BY LenProperties DEF Forms
<1>1. /\ q \in Places /\ Within(q) /\ q # Nowhere /\ q.chain = chain
      /\ Outer(q) = frames /\ Inner(q).at = at + 1
      /\ Inner(q).tc = tc /\ Inner(q).content = content
  BY <1>0, PlaceParts
<1> HIDE DEF q
<1>2. FormBefore(q) = content[at]
  BY <1>0, <1>1 DEF FormBefore
<1>3. ~JustEntered(q) /\ ~JustRead(q) /\ JustPassed(q)
  BY <1>0, <1>1, <1>2 DEF JustEntered, JustRead, JustPassed
<1>4. Before(q) = Place(chain, Append(frames, Frame(content, tc, at)))
  BY <1>0, <1>1, <1>3 DEF Before, Retreated
<1> QED BY <1>1, <1>2, <1>3, <1>4 DEF q

LEMMA ReachPass ==
  ASSUME NEW chain \in Chains, NEW frames \in Seq(Frames), NEW content \in Forms,
         NEW tc \in BOOLEAN, NEW types \in Types,
         NEW at \in 1 .. Len(content), content[at].op # "load",
         <<Place(chain, Append(frames, Frame(content, tc, at))), types>> \in Reach
  PROVE  <<Place(chain, Append(frames, Frame(content, tc, at + 1))),
           Declared(types, content[at])>> \in Reach
<1> DEFINE q == Place(chain, Append(frames, Frame(content, tc, at + 1)))
           now == Declared(types, content[at])
<1>1. /\ q \in Places /\ q # Nowhere
      /\ Before(q) = Place(chain, Append(frames, Frame(content, tc, at)))
      /\ now = TypesAt(q, types)
  BY PassPlace DEF TypesAt
<1>2. now \in Types
  BY DeclaredType, ElementOfSeq, LenProperties DEF Forms
<1> HIDE DEF q
<1> QED BY <1>1, <1>2, ReachStep DEF Closed, q

LEMMA EndedType ==
  ASSUME NEW chain \in Chains, NEW content \in Forms, NEW tc \in BOOLEAN
  PROVE  LET longer == Append(chain, Ended(content, tc)) IN
         /\ longer \in Chains /\ longer # <<>>
         /\ SubSeq(longer, 1, Len(longer) - 1) = chain
         /\ AtEnd(longer[Len(longer)]) = Frame(content, tc, Len(content) + 1)
<1> DEFINE ended == Ended(content, tc)
           longer == Append(chain, ended)
<1>1. ended \in [file : Forms, tc : BOOLEAN]
  BY DEF Ended
<1>2. AtEnd(ended) = Frame(content, tc, Len(content) + 1)
  BY DEF AtEnd, Ended
<1> HIDE DEF ended
<1>3. /\ SubSeq(longer, 1, Len(longer) - 1) = chain /\ longer[Len(longer)] = ended
      /\ longer # <<>> /\ longer \in Chains
  BY <1>1, FrontAppend DEF Chains
<1> QED BY <1>2, <1>3 DEF ended

\* A load ends, within another one or on its own.
LEMMA ReturnPlace ==
  ASSUME NEW chain \in Chains, NEW frames \in Seq(Frames), NEW content \in Forms,
         NEW tc \in BOOLEAN,
         NEW at \in 1 .. Len(content), content[at].op = "load",
         NEW inner \in Forms, NEW itc \in BOOLEAN
  PROVE  LET q == Place(Append(chain, Ended(inner, itc)),
                        Append(frames, Frame(content, tc, at + 1)))
         IN /\ q \in Places /\ q # Nowhere
            /\ Before(q) = Place(chain, Append(Append(frames, Frame(content, tc, at)),
                                               Frame(inner, itc, Len(inner) + 1)))
            /\ ~JustRead(q) /\ ~JustPassed(q)
<1> DEFINE longer == Append(chain, Ended(inner, itc))
           q == Place(longer, Append(frames, Frame(content, tc, at + 1)))
<1>0. at \in Nat /\ at + 1 \in Nat /\ at + 1 > 1 /\ (at + 1) - 1 = at
  BY LenProperties DEF Forms
<1>1. /\ longer \in Chains /\ SubSeq(longer, 1, Len(longer) - 1) = chain
      /\ AtEnd(longer[Len(longer)]) = Frame(inner, itc, Len(inner) + 1)
  BY EndedType
<1> HIDE DEF longer
<1>2. /\ q \in Places /\ Within(q) /\ q # Nowhere /\ q.chain = longer
      /\ Outer(q) = frames /\ Inner(q).at = at + 1
      /\ Inner(q).tc = tc /\ Inner(q).content = content
  BY <1>0, <1>1, PlaceParts
<1> HIDE DEF q
<1>3. FormBefore(q) = content[at]
  BY <1>0, <1>2 DEF FormBefore
<1>4. ~JustEntered(q) /\ ~JustRead(q) /\ ~JustPassed(q)
  BY <1>0, <1>2, <1>3 DEF JustEntered, JustRead, JustPassed
<1>5. Retreated(q) = Append(frames, Frame(content, tc, at))
  BY <1>0, <1>2 DEF Retreated
<1>6. Before(q) = Place(chain, Append(Append(frames, Frame(content, tc, at)),
                                      Frame(inner, itc, Len(inner) + 1)))
  BY <1>1, <1>2, <1>4, <1>5 DEF Before, LastLoad
<1> QED BY <1>2, <1>4, <1>6 DEF q, longer

LEMMA ReachReturn ==
  ASSUME NEW chain \in Chains, NEW frames \in Seq(Frames), NEW content \in Forms,
         NEW tc \in BOOLEAN, NEW types \in Types,
         NEW at \in 1 .. Len(content), content[at].op = "load",
         NEW inner \in Forms, NEW itc \in BOOLEAN,
         <<Place(chain, Append(Append(frames, Frame(content, tc, at)),
                               Frame(inner, itc, Len(inner) + 1))), types>> \in Reach
  PROVE  <<Place(Append(chain, Ended(inner, itc)),
                 Append(frames, Frame(content, tc, at + 1))), types>> \in Reach
<1> DEFINE q == Place(Append(chain, Ended(inner, itc)),
                      Append(frames, Frame(content, tc, at + 1)))
<1>1. /\ q \in Places /\ q # Nowhere /\ TypesAt(q, types) = types
      /\ Before(q) = Place(chain, Append(Append(frames, Frame(content, tc, at)),
                                         Frame(inner, itc, Len(inner) + 1)))
  BY ReturnPlace DEF TypesAt
<1> HIDE DEF q
<1> QED BY <1>1, ReachStep DEF Closed, q

LEMMA LeavePlace ==
  ASSUME NEW chain \in Chains, NEW inner \in Forms, NEW itc \in BOOLEAN
  PROVE  LET q == Place(Append(chain, Ended(inner, itc)), <<>>) IN
         /\ q \in Places /\ q # Nowhere
         /\ Before(q) = Place(chain, Append(<<>>, Frame(inner, itc, Len(inner) + 1)))
         /\ ~JustRead(q) /\ ~JustPassed(q)
<1> DEFINE longer == Append(chain, Ended(inner, itc))
           q == Place(longer, <<>>)
<1>1. /\ longer \in Chains /\ SubSeq(longer, 1, Len(longer) - 1) = chain /\ longer # <<>>
      /\ AtEnd(longer[Len(longer)]) = Frame(inner, itc, Len(inner) + 1)
  BY EndedType
<1> HIDE DEF longer
<1>2. /\ q \in Places /\ ~Within(q) /\ q # Nowhere /\ q.chain = longer
  BY <1>1, EmptySeq DEF Place, Places, Nowhere, Within
<1> HIDE DEF q
<1>3. ~JustEntered(q) /\ ~JustRead(q) /\ ~JustPassed(q)
  BY <1>2 DEF JustEntered, JustRead, JustPassed
<1>4. Before(q) = Place(chain, Append(<<>>, Frame(inner, itc, Len(inner) + 1)))
  BY <1>1, <1>2, <1>3 DEF Before, LastLoad
<1> QED BY <1>2, <1>3, <1>4 DEF q, longer

LEMMA ReachLeave ==
  ASSUME NEW chain \in Chains, NEW types \in Types, NEW inner \in Forms, NEW itc \in BOOLEAN,
         <<Place(chain, Append(<<>>, Frame(inner, itc, Len(inner) + 1))), types>> \in Reach
  PROVE  <<Place(Append(chain, Ended(inner, itc)), <<>>), types>> \in Reach
<1> DEFINE q == Place(Append(chain, Ended(inner, itc)), <<>>)
<1>1. /\ q \in Places /\ q # Nowhere /\ TypesAt(q, types) = types
      /\ Before(q) = Place(chain, Append(<<>>, Frame(inner, itc, Len(inner) + 1)))
  BY LeavePlace DEF TypesAt
<1> HIDE DEF q
<1> QED BY <1>1, ReachStep DEF Closed, q

(* ---- where the keys say a session is ------------------------------------------------------ *)

\* The load form at which an enclosing load stands is told by the chains in its
\* digest; that it typechecks, by the hash its digest begins with.
LoadFormAt(content, n) ==
  {at \in 1 .. Len(content) : content[at].op = "load" /\ LoadsBefore(content, at) = n}
FrameOf(w) ==
  LET ats == LoadFormAt(w[1], ChainsIn(w[2])) IN
  Frame(w[1], w[2] # <<>> /\ ~IsChain(w[2][1]), IF ats = {} THEN 0 ELSE CHOOSE at \in ats : TRUE)
FramesOf(within) == [i \in 1 .. Len(within) |-> FrameOf(within[i])]
PlaceIn(key, chain, at) ==
  Place(chain, Append(FramesOf(key.within), Frame(key.content, key.tc, at)))

LEMMA FrameOfType ==
  ASSUME NEW hash \in Forms, NEW digest \in Digests
  PROVE  /\ FrameOf(<<hash, digest>>) \in Frames
         /\ \A at \in 1 .. Len(hash) :
              hash[at].op = "load" /\ LoadsBefore(hash, at) = ChainsIn(digest) =>
                FrameOf(<<hash, digest>>)
                  = Frame(hash, digest # <<>> /\ ~IsChain(digest[1]), at)
<1> DEFINE ats == LoadFormAt(hash, ChainsIn(digest))
           at0 == IF ats = {} THEN 0 ELSE CHOOSE at \in ats : TRUE
           tc == digest # <<>> /\ ~IsChain(digest[1])
<1>1. Len(hash) \in Nat
  BY LenProperties DEF Forms
<1>2. ats \subseteq 1 .. Len(hash)
  BY DEF LoadFormAt
<1>3. at0 \in Nat
  BY <1>1, <1>2
<1>4. FrameOf(<<hash, digest>>) = Frame(hash, tc, at0)
  BY DEF FrameOf
<1>5. tc \in BOOLEAN
  OBVIOUS
<1>6. FrameOf(<<hash, digest>>) \in Frames
  <2> HIDE DEF at0, tc
  <2> QED BY <1>3, <1>4, <1>5 DEF Frame, Frames
<1>7. ASSUME NEW at \in 1 .. Len(hash), hash[at].op = "load",
             LoadsBefore(hash, at) = ChainsIn(digest)
      PROVE  at0 = at
  <2>1. at \in ats
    BY <1>7 DEF LoadFormAt
  <2>2. at0 \in ats
    BY <2>1
  <2>3. /\ at0 \in 1 .. Len(hash) /\ hash[at0].op = "load"
        /\ LoadsBefore(hash, at0) = ChainsIn(digest)
    <3> HIDE DEF at0
    <3> QED BY <2>2 DEF LoadFormAt
  <2> HIDE DEF at0
  <2> QED BY <1>1, <1>7, <2>3, LoadsTellApart
<1> HIDE DEF at0, tc
<1> QED BY <1>4, <1>6, <1>7 DEF tc

LEMMA FramesOfType ==
  ASSUME NEW within \in Withins
  PROVE  /\ FramesOf(within) \in Seq(Frames)
         /\ FramesOf(<<>>) = <<>>
         /\ \A w \in Forms \X Digests :
              FramesOf(Append(within, w)) = Append(FramesOf(within), FrameOf(w))
<1>1. \A w \in Forms \X Digests : FrameOf(w) \in Frames
  BY FrameOfType
<1>2. ASSUME NEW v \in Withins
      PROVE  /\ FramesOf(v) \in Seq(Frames) /\ Len(FramesOf(v)) = Len(v)
             /\ \A i \in 1 .. Len(v) : FramesOf(v)[i] = FrameOf(v[i])
  <2>1. Len(v) \in Nat /\ \A i \in 1 .. Len(v) : v[i] \in Forms \X Digests
    BY LenProperties, ElementOfSeq DEF Withins
  <2>2. \A i \in 1 .. Len(v) : FrameOf(v[i]) \in Frames
    BY <1>1, <2>1
  <2>3. FramesOf(v) \in [1 .. Len(v) -> Frames]
    BY <2>2 DEF FramesOf
  <2>4. FramesOf(v) \in Seq(Frames)
    BY <2>1, <2>3
  <2>5. Len(FramesOf(v)) = Len(v)
    BY <2>1, <2>3, <2>4, LenProperties
  <2> QED BY <2>4, <2>5 DEF FramesOf
<1>3. FramesOf(<<>>) = <<>>
  BY DEF FramesOf
<1>4. ASSUME NEW w \in Forms \X Digests
      PROVE  FramesOf(Append(within, w)) = Append(FramesOf(within), FrameOf(w))
  <2> DEFINE a == Append(within, w)
             b == Append(FramesOf(within), FrameOf(w))
  <2>1. /\ a \in Withins /\ Len(a) = Len(within) + 1 /\ a[Len(within) + 1] = w
        /\ \A i \in 1 .. Len(within) : a[i] = within[i]
    BY AppendProperties DEF Withins
  <2>2. /\ b \in Seq(Frames) /\ Len(b) = Len(within) + 1 /\ b[Len(within) + 1] = FrameOf(w)
        /\ \A i \in 1 .. Len(within) : b[i] = FrameOf(within[i])
    BY <1>1, <1>2, AppendProperties
  <2> HIDE DEF a, b
  <2>3. Len(within) \in Nat
    BY LenProperties DEF Withins
  <2>4. /\ FramesOf(a) \in Seq(Frames) /\ Len(FramesOf(a)) = Len(b)
        /\ \A i \in 1 .. Len(FramesOf(a)) : FramesOf(a)[i] = b[i]
    BY <1>2, <2>1, <2>2, <2>3
  <2>5. FramesOf(a) = b
    BY <2>2, <2>4, SeqEqual
  <2> QED BY <2>5 DEF a, b
<1> QED BY <1>2, <1>3, <1>4

(* ---- what holds of recordings --------------------------------------------------------------- *)

ChainAt(key, ckpt, at) ==
  LET n == LoadsBefore(key.content, at) IN IF n = 0 THEN key.chain ELSE ckpt[n]

\* Each verdict was given at a place the key and the checkpoints tell.
SoundEntry(key, ckpt, i, entry) ==
  /\ key.tc /\ i <= Len(key.content) /\ LoadsBefore(key.content, i) <= Len(ckpt)
  /\ entry.hash = ArgHash(key.content[i], [readAt |-> key.gensym])
  /\ entry.val # None =>
       \E types \in Types : /\ <<PlaceIn(key, ChainAt(key, ckpt, i), i), types>> \in Reach
                           /\ entry.val = Verdict(key.content[i], types)
SoundEntries(key, entries, ckpt) ==
  \A i \in 1 .. Len(entries) : SoundEntry(key, ckpt, i, entries[i])
SoundRecording(key, rec) ==
  /\ rec.start = key.gensym
  /\ Len(rec.entries) = IF key.tc THEN Len(key.content) ELSE 0
  /\ SoundEntries(key, rec.entries, rec.ckpt)

(* ---- what holds of a load in progress ---------------------------------------------------------- *)

\* The forms of a load that have been checked.
Checked(load) ==
  IF load.tc THEN load.at - 1 + (IF load.stage \in {"eval", "nested"} THEN 1 ELSE 0) ELSE 0

\* A context that is not poisoned keeps in step with its load.
Steady(ctx, load) ==
  LET done == LoadsBefore(ctx.hash, load.at) IN
  /\ IF ctx.replay
     THEN /\ ctx.cursor = Checked(load) + 1 /\ ctx.ckptCursor = done + 1
          /\ Len(ctx.entries) = (IF ctx.tc THEN Len(ctx.hash) ELSE 0) /\ done <= Len(ctx.ckpt)
     ELSE Len(ctx.entries) = Checked(load) /\ Len(ctx.ckpt) = done
  /\ SoundEntries(ctx.key, ctx.entries, ctx.ckpt)

\* A context and its load.
Keyed(ctx, load) ==
  /\ ctx.keyed /\ ctx.key.content = ctx.hash /\ ctx.key.tc = ctx.tc /\ ctx.tc = load.tc
  /\ ctx.start = ctx.key.gensym
  /\ load.stage # "read" => load.forms = ctx.hash /\ ctx.readAt = ctx.key.gensym
Staged(ctx, load) ==
  /\ load.at <= Len(ctx.hash) + 1
  /\ load.stage = "read" => load.at = 1
  /\ load.stage = "check" => ctx.tc
  /\ load.stage \in {"eval", "nested"} /\ ctx.tc => load.at <= Len(ctx.hash)
Digesting(ctx, load) ==
  /\ ChainsIn(ctx.digest) = LoadsBefore(ctx.hash, load.at)
  /\ ctx.tc /\ Checked(load) = 0 => ctx.digest = <<>> /\ ~ctx.poisoned
  /\ ctx.tc /\ Checked(load) # 0 => ctx.digest # <<>> /\ ~IsChain(ctx.digest[1])
  /\ ~ctx.tc => \A i \in DOMAIN ctx.digest : IsChain(ctx.digest[i])
Level(ctx, load) ==
  /\ Keyed(ctx, load) /\ Staged(ctx, load) /\ Digesting(ctx, load)
  /\ ctx.poisoned \/ Steady(ctx, load)

ChainHere(ctx, load, chain) == ctx.poisoned \/ chain = ChainAt(ctx.key, ctx.ckpt, load.at)

\* A context and the one of the load nested in it.
Link(ctx, load, inner) ==
  /\ load.stage = "nested" /\ load.at <= Len(ctx.hash) /\ ctx.hash[load.at].op = "load"
  /\ inner.key.within = Append(ctx.key.within, <<ctx.hash, ctx.digest>>)
Stacked(stack, loads, n) ==
  /\ \A i \in 1 .. n : Level(stack[i], loads[i])
  /\ \A i \in 1 .. n - 1 : Link(stack[i], loads[i], stack[i + 1])
  /\ n # 0 => stack[1].key.within = <<>>

\* The innermost load.
AtTop(ctx, load, c, d) ==
  /\ load.stage \in {"read", "check", "eval"} /\ ChainHere(ctx, load, c.chain)
  /\ load.stage = "read" => d[load.file] = ctx.hash /\ c.gensym = ctx.key.gensym
FormAt(load) == IF load.stage = "read" THEN 0 ELSE load.at

\* A session k with its part c of the cache, on a disk d.
PlaceOf(k, c) ==
  IF c.stack = <<>> THEN Place(c.chain, <<>>)
  ELSE PlaceIn(c.stack[Len(c.stack)].key, c.chain, FormAt(k.loads[Len(k.loads)]))
Standing(k, c, d) ==
  LET n == Len(c.stack) IN
  /\ <<PlaceOf(k, c), k.types>> \in Reach
  /\ Stacked(c.stack, k.loads, n)
  /\ n # 0 => AtTop(c.stack[n], k.loads[n], c, d)
Alive(k, c) ==
  LET n == Len(c.stack) IN
  k.up /\ (n # 0 => c.stack[n].keyed /\ k.loads[n].stage # "failed")

\* A load without a key is of a file that is missing.
Blocked(k, c, d) ==
  LET n == Len(c.stack) IN
  k.up /\ n # 0 /\ ~c.stack[n].keyed =>
    /\ k.loads[n].stage \in {"read", "failed"}
    /\ k.loads[n].stage = "read" => d[k.loads[n].file] = Missing

Stands(k, c, d) == Blocked(k, c, d) /\ (Alive(k, c) => Standing(k, c, d))

LEMMA Retopped ==
  ASSUME NEW st, NEW lo, NEW st2, NEW lo2, NEW n \in Nat, NEW m \in 1 .. n,
         Stacked(st, lo, n), \A i \in 1 .. m - 1 : st2[i] = st[i] /\ lo2[i] = lo[i],
         st2[m].key = st[m].key, Level(st2[m], lo2[m])
  PROVE  Stacked(st2, lo2, m)
<1>1. ASSUME NEW i \in 1 .. m PROVE Level(st2[i], lo2[i])
  BY DEF Stacked
<1>2. ASSUME NEW i \in 1 .. m - 1 PROVE Link(st2[i], lo2[i], st2[i + 1])
  <2>1. Link(st[i], lo[i], st[i + 1]) /\ st2[i] = st[i] /\ lo2[i] = lo[i]
    BY DEF Stacked
  <2>2. st2[i + 1].key = st[i + 1].key
    BY <1>2
  <2> QED BY <2>1, <2>2 DEF Link
<1>3. st2[1].key = st[1].key
  BY DEF Stacked
<1> QED BY <1>1, <1>2, <1>3 DEF Stacked

LEMMA Pushed ==
  ASSUME NEW st, NEW lo, NEW st2, NEW lo2, NEW n \in Nat,
         Stacked(st, lo, n), \A i \in 1 .. n : st2[i] = st[i] /\ lo2[i] = lo[i],
         Level(st2[n + 1], lo2[n + 1]),
         n # 0 => Link(st[n], lo[n], st2[n + 1]),
         n = 0 => st2[1].key.within = <<>>
  PROVE  Stacked(st2, lo2, n + 1)
<1>1. ASSUME NEW i \in 1 .. n + 1 PROVE Level(st2[i], lo2[i])
  BY DEF Stacked
<1>2. ASSUME NEW i \in 1 .. (n + 1) - 1 PROVE Link(st2[i], lo2[i], st2[i + 1])
  <2>1. i \in 1 .. n /\ st2[i] = st[i] /\ lo2[i] = lo[i]
    BY <1>2
  <2>2. CASE i = n
    BY <2>1, <2>2
  <2>3. CASE i # n
    <3>1. i \in 1 .. n - 1 /\ i + 1 \in 1 .. n
      BY <2>1, <2>3
    <3>2. Link(st[i], lo[i], st[i + 1]) /\ st2[i + 1] = st[i + 1]
      BY <3>1 DEF Stacked
    <3> QED BY <2>1, <3>2
  <2> QED BY <2>2, <2>3
<1>3. st2[1].key.within = <<>>
  BY DEF Stacked
<1> QED BY <1>1, <1>2, <1>3 DEF Stacked

(* ---- a load begins ------------------------------------------------------------------------- *)

\* What the cache directory holds.
FilesSound ==
  \A p \in DOMAIN dir : inodes[dir[p]] # Torn => SoundRecording(p[2], inodes[dir[p]])

\* The frame of a load that waits for a nested one.
LEMMA NestedFrame ==
  ASSUME NEW ctx \in KeyedContexts, NEW load \in Loads, Level(ctx, load),
         load.stage = "nested", load.at <= Len(ctx.hash), ctx.hash[load.at].op = "load"
  PROVE  /\ FrameOf(<<ctx.hash, ctx.digest>>) = Frame(ctx.hash, ctx.tc, load.at)
         /\ load.at \in 1 .. Len(ctx.hash)
         /\ \A chain : PlaceIn(ctx.key, chain, load.at)
                        = Place(chain, FramesOf(Append(ctx.key.within, <<ctx.hash, ctx.digest>>)))
<1>1. /\ ctx.hash \in Forms /\ ctx.digest \in Digests /\ ctx.tc \in BOOLEAN
      /\ ctx.key.within \in Withins /\ load.at \in Nat \ {0} /\ load.tc = ctx.tc
      /\ ctx.key.content = ctx.hash /\ ctx.key.tc = ctx.tc
  BY DEF KeyedContexts, Keys, Loads, Level, Keyed
<1>2. load.at \in 1 .. Len(ctx.hash) /\ LoadsBefore(ctx.hash, load.at) = ChainsIn(ctx.digest)
  BY <1>1, LenProperties DEF Level, Digesting, Forms
<1>3. FrameOf(<<ctx.hash, ctx.digest>>)
        = Frame(ctx.hash, ctx.digest # <<>> /\ ~IsChain(ctx.digest[1]), load.at)
  BY <1>1, <1>2, FrameOfType
<1>4. ctx.tc <=> ctx.digest # <<>> /\ ~IsChain(ctx.digest[1])
  <2>1. CASE ctx.tc
    <3>1. Checked(load) # 0
      BY <1>1, <2>1 DEF Checked
    <3> QED BY <2>1, <3>1 DEF Level, Digesting
  <2>2. CASE ~ctx.tc
    <3>1. \A i \in DOMAIN ctx.digest : IsChain(ctx.digest[i])
      BY <2>2 DEF Level, Digesting
    <3>2. ctx.digest # <<>> => 1 \in DOMAIN ctx.digest
      BY <1>1, LenProperties, EmptySeq DEF Digests
    <3> QED BY <2>2, <3>1, <3>2
  <2> QED BY <2>1, <2>2
<1>5. FrameOf(<<ctx.hash, ctx.digest>>) = Frame(ctx.hash, ctx.tc, load.at)
  <2>1. (ctx.digest # <<>> /\ ~IsChain(ctx.digest[1])) = ctx.tc
    BY <1>1, <1>4
  <2> QED BY <1>3, <2>1
<1>6. FramesOf(Append(ctx.key.within, <<ctx.hash, ctx.digest>>))
        = Append(FramesOf(ctx.key.within), Frame(ctx.hash, ctx.tc, load.at))
  BY <1>1, <1>5, FramesOfType
<1> QED BY <1>1, <1>2, <1>5, <1>6 DEF PlaceIn

\* A new context is in step, one that replays too.
LEMMA NewLevel ==
  ASSUME NEW key \in Keys, NEW f \in Files
  PROVE  LET ctx == Context(key, key.content, key.tc, key.gensym)
             load == Load(f, key.tc)
         IN /\ Level(ctx, load) /\ ~ctx.poisoned /\ ctx.key = key /\ ctx.hash = key.content
            /\ \A rec \in Recordings : SoundRecording(key, rec) =>
                 LET r == Replaying(ctx, rec) IN
                 Level(r, load) /\ ~r.poisoned /\ r.key = key /\ r.hash = key.content
<1> DEFINE ctx == Context(key, key.content, key.tc, key.gensym)
           load == Load(f, key.tc)
<1>0. key.content \in Forms /\ key.tc \in BOOLEAN /\ key.gensym \in Nat
      /\ Len(key.content) \in Nat
  BY LenProperties DEF Keys, Forms
<1>1. /\ load.stage = "read" /\ load.at = 1 /\ load.tc = key.tc
  BY DEF Load
<1>2. /\ ctx.keyed /\ ctx.key = key /\ ctx.hash = key.content /\ ctx.tc = key.tc
      /\ ctx.start = key.gensym /\ ~ctx.replay /\ ~ctx.poisoned /\ ctx.digest = <<>>
      /\ ctx.entries = <<>> /\ ctx.ckpt = <<>> /\ ctx.cursor = 1 /\ ctx.ckptCursor = 1
      /\ ctx \in KeyedContexts
  BY <1>0, ContextType DEF Context
<1>3. Checked(load) = 0 /\ LoadsBefore(key.content, 1) = 0
  BY <1>1, CountingLoads DEF Checked
<1>4. ChainsIn(<<>>) = 0
  <2>1. {i \in DOMAIN <<>> : IsChain((<<>>)[i])} = {}
    OBVIOUS
  <2> QED BY <2>1, FS_EmptySet DEF ChainsIn
<1>5. ASSUME NEW r, r.keyed, r.key = key, r.hash = key.content, r.tc = key.tc,
             r.start = key.gensym, ~r.poisoned, r.digest = <<>>, Steady(r, load)
      PROVE  Level(r, load)
  <2>1. Keyed(r, load) /\ Staged(r, load)
    BY <1>0, <1>1, <1>5 DEF Keyed, Staged
  <2>2. Digesting(r, load)
    BY <1>1, <1>3, <1>4, <1>5 DEF Digesting
  <2> QED BY <1>5, <2>1, <2>2 DEF Level
<1>6. Level(ctx, load)
  <2>1. Steady(ctx, load)
    BY <1>1, <1>2, <1>3, EmptySeq DEF Steady, SoundEntries
  <2> HIDE DEF ctx
  <2> QED BY <1>2, <1>5, <2>1
<1>7. ASSUME NEW rec \in Recordings, SoundRecording(key, rec)
      PROVE  LET r == Replaying(ctx, rec) IN
             Level(r, load) /\ ~r.poisoned /\ r.key = key /\ r.hash = key.content
  <2> DEFINE r == Replaying(ctx, rec)
  <2>1. Pinned(key.gensym, rec.start) = key.gensym /\ rec.start = key.gensym
    BY <1>7 DEF Pinned, SoundRecording
  <2>2. Len(rec.ckpt) \in Nat
    BY LenProperties DEF Recordings
  <2> HIDE DEF ctx
  <2>3. /\ r.keyed /\ r.key = key /\ r.hash = key.content /\ r.tc = key.tc
        /\ r.start = key.gensym /\ r.replay /\ ~r.poisoned /\ r.digest = <<>>
        /\ r.entries = rec.entries /\ r.ckpt = rec.ckpt /\ r.cursor = 1 /\ r.ckptCursor = 1
    BY <1>2, <2>1 DEF Replaying, KeyedContexts
  <2> HIDE DEF r, load
  <2>4. Steady(r, load)
    BY <1>1, <1>3, <1>7, <2>2, <2>3 DEF Steady, SoundRecording
  <2> QED BY <1>5, <2>3, <2>4 DEF r
<1> HIDE DEF ctx, load
<1> QED BY <1>2, <1>6, <1>7 DEF ctx, load

\* The context of a load that begins: its key tells what it replays.
Served(ctx, rec) == ctx.entries = rec.entries /\ ctx.ckpt = rec.ckpt /\ ctx.end = rec.end

LEMMA EnteredNew ==
  ASSUME TypeOK, FilesSound, NEW c \in Cachers, NEW content \in Forms, content # Missing,
         NEW tc \in BOOLEAN, NEW f \in Files, NEW e, e = Entered(c, content, tc)
  PROVE  LET key == Key(c, content, tc)
             load == Load(f, tc)
         IN \E top \in KeyedContexts :
              /\ e.stack = Append(c.stack, top) /\ e.chain = c.chain /\ e.gensym = c.gensym
              /\ Level(top, load) /\ ~top.poisoned /\ top.key = key /\ top.hash = content
              /\ top.replay <=> Hit(key)
              /\ top.replay => Served(top, Recording(key))
              /\ ~top.replay => top.entries = <<>>
<1> DEFINE key == Key(c, content, tc)
           load == Load(f, tc)
           ctx == Context(key, content, tc, c.gensym)
<1>1. /\ content \in Forms /\ key \in Keys /\ key.content = content /\ key.tc = tc
      /\ key.gensym = c.gensym /\ c.gensym \in Nat
  BY KeyType DEF Key, Cachers
<1> HIDE DEF key, load
<1>2. CASE Hit(key)
  <2> DEFINE rec == Recording(key)
             top == Replaying(ctx, rec)
  <2>1. rec \in Recordings /\ SoundRecording(key, rec)
    <3>1. TcFile(key) \in DOMAIN dir /\ rec # Torn /\ TcFile(key)[2] = key
      BY <1>2 DEF Hit, Recording, TcFile
    <3> QED BY <1>2, <3>1, HitType DEF FilesSound, Recording
  <2>2. top \in KeyedContexts
    BY <1>1, <2>1, ContextType
  <2>3. Level(top, load) /\ ~top.poisoned /\ top.key = key /\ top.hash = content
    BY <1>1, <2>1, NewLevel DEF load
  <2>4. Pinned(c.gensym, rec.start) = c.gensym
    BY <1>1, <2>1 DEF SoundRecording, Pinned
  <2>5. e = [c EXCEPT !.gensym = Pinned(@, rec.start), !.stack = Append(@, top)]
    BY <1>2 DEF Entered, key
  <2>6. top.replay /\ Served(top, rec)
    BY DEF Replaying, Context, Served
  <2> HIDE DEF top
  <2>7. e.stack = Append(c.stack, top) /\ e.chain = c.chain /\ e.gensym = c.gensym
    BY <2>4, <2>5 DEF Cachers
  <2> QED BY <1>2, <2>2, <2>3, <2>6, <2>7 DEF key, load
<1>3. CASE ~Hit(key)
  <2>1. ctx \in KeyedContexts
    BY <1>1, ContextType
  <2>2. Level(ctx, load) /\ ~ctx.poisoned /\ ctx.key = key /\ ctx.hash = content
    BY <1>1, NewLevel DEF load
  <2>3. e = [c EXCEPT !.stack = Append(@, ctx)]
    BY <1>3 DEF Entered, key
  <2>4. ~ctx.replay /\ ctx.entries = <<>>
    BY DEF Context
  <2> HIDE DEF ctx
  <2>5. e.stack = Append(c.stack, ctx) /\ e.chain = c.chain /\ e.gensym = c.gensym
    BY <2>3 DEF Cachers
  <2> QED BY <1>3, <2>1, <2>2, <2>4, <2>5 DEF key, load
<1> QED BY <1>2, <1>3

\* load_wrapper on its way in, for a session that stands soundly.
MayEnter(k, c) ==
  LET n == Len(c.stack)
      ctx == c.stack[n]
      load == k.loads[n]
  IN /\ n = Len(k.loads) /\ Stacked(c.stack, k.loads, n)
     /\ n = 0 => <<Place(c.chain, <<>>), k.types>> \in Reach
     /\ n # 0 => /\ load.stage = "nested" /\ load.at <= Len(ctx.hash)
                 /\ ctx.hash[load.at].op = "load" /\ ChainHere(ctx, load, c.chain)
                 /\ <<PlaceIn(ctx.key, c.chain, load.at), k.types>> \in Reach

LEMMA EnteredStands ==
  ASSUME TypeOK, FilesSound, NEW c \in Cachers, NEW k \in SessionStates, MayEnter(k, c),
         NEW f \in Files, NEW n, n = Len(c.stack),
         NEW k2, k2 = [k EXCEPT !.loads = Append(@, Load(f, k.tc))],
         NEW e, e = Entered(c, disk[f], k.tc)
  PROVE  Stands(k2, e, disk)
<1>0. /\ n = Len(k.loads) /\ Stacked(c.stack, k.loads, n)
      /\ n = 0 => <<Place(c.chain, <<>>), k.types>> \in Reach
      /\ n # 0 => LET ctx == c.stack[n]
                      load == k.loads[n]
                  IN /\ load.stage = "nested" /\ load.at <= Len(ctx.hash)
                     /\ ctx.hash[load.at].op = "load" /\ ChainHere(ctx, load, c.chain)
                     /\ <<PlaceIn(ctx.key, c.chain, load.at), k.types>> \in Reach
  BY DEF MayEnter
<1> DEFINE content == disk[f]
           key == Key(c, content, k.tc)
           load == Load(f, k.tc)
<1>1. /\ c.stack \in Seq(Contexts) /\ k.loads \in Seq(Loads) /\ k.types \in Types
      /\ k.tc \in BOOLEAN /\ n \in Nat /\ c.gensym \in Nat /\ c.chain \in Chains
      /\ content \in Forms \cup {Missing} /\ n = Len(k.loads)
  BY <1>0, LenProperties, ContentType DEF Cachers, SessionStates
<1>2. /\ load \in Loads /\ load.stage = "read" /\ load.file = f /\ load.at = 1
  BY <1>1, LoadType DEF Load
<1> HIDE DEF load
<1>3. /\ k2.loads \in Seq(Loads) /\ Len(k2.loads) = n + 1 /\ k2.loads[n + 1] = load
      /\ \A i \in 1 .. n : k2.loads[i] = k.loads[i]
      /\ k2.types = k.types
  <2>1. k2.loads = Append(k.loads, load) /\ k2.types = k.types
    BY DEF SessionStates, load
  <2> QED BY <1>1, <1>2, <2>1, AppendProperties
<1>4. CASE content = Missing
  <2> DEFINE top == Unkeyed(Enclosing(c.stack))
  <2>1. e = [c EXCEPT !.stack = Append(PoisonedTop(@), top)]
    BY <1>4 DEF Entered
  <2>2. e.stack = Append(PoisonedTop(c.stack), top)
    BY <2>1 DEF Cachers
  <2>3. top \in Contexts /\ ~top.keyed
    BY <1>1, EnclosingType DEF Unkeyed, UnkeyedContexts, Contexts
  <2> HIDE DEF top
  <2>4. Len(e.stack) = n + 1 /\ e.stack[n + 1] = top
    <3> DEFINE q == PoisonedTop(c.stack)
    <3>1. q \in Seq(Contexts) /\ Len(q) = n
      BY <1>1, PoisonedTopType
    <3> HIDE DEF q
    <3>2. Len(Append(q, top)) = n + 1 /\ Append(q, top)[n + 1] = top
      BY <2>3, <3>1, AppendProperties
    <3> QED BY <2>2, <3>2 DEF q
  <2> QED BY <1>1, <1>2, <1>3, <1>4, <2>3, <2>4 DEF Stands, Blocked, Alive
<1>5. CASE content # Missing
  <2>1. content \in Forms /\ key \in Keys /\ key.content = content /\ key.tc = k.tc
        /\ key.gensym = c.gensym /\ key.chain = c.chain
    BY <1>1, <1>5, KeyType DEF Key
  <2>2. key.within = IF n = 0 THEN <<>>
                     ELSE Append(c.stack[n].key.within, <<c.stack[n].hash, c.stack[n].digest>>)
    <3>1. CASE n = 0
      <4>1. c.stack = <<>>
        BY <1>1, <3>1, EmptySeq
      <4> QED BY <3>1, <4>1 DEF Key, Enclosing
    <3>2. CASE n # 0
      <4>1. c.stack # <<>>
        BY <3>2
      <4>2. c.stack[n].keyed
        <5>1. n \in 1 .. n
          BY <1>1, <3>2
        <5>2. Level(c.stack[n], k.loads[n])
          BY <1>0, <5>1 DEF Stacked
        <5> QED BY <5>2 DEF Level, Keyed
      <4> QED BY <3>2, <4>1, <4>2 DEF Key, Enclosing
    <3> QED BY <3>1, <3>2
  <2> HIDE DEF key
  <2>3. \E top \in KeyedContexts :
          /\ e.stack = Append(c.stack, top) /\ e.chain = c.chain /\ e.gensym = c.gensym
          /\ Level(top, load) /\ ~top.poisoned /\ top.key = key /\ top.hash = content
    BY <1>1, <1>5, <2>1, EnteredNew DEF key, load
  <2>4. PICK top \in KeyedContexts :
          /\ e.stack = Append(c.stack, top) /\ e.chain = c.chain /\ e.gensym = c.gensym
          /\ Level(top, load) /\ ~top.poisoned /\ top.key = key /\ top.hash = content
    BY <2>3
  <2>5. /\ Len(e.stack) = n + 1 /\ e.stack[n + 1] = top /\ e.stack # <<>>
        /\ \A i \in 1 .. n : e.stack[i] = c.stack[i]
    <3>1. top \in Contexts
      BY DEF Contexts
    <3> DEFINE q == c.stack
    <3>2. q \in Seq(Contexts) /\ Len(q) = n
      BY <1>1
    <3> HIDE DEF q
    <3>3. /\ Len(Append(q, top)) = n + 1 /\ Append(q, top)[n + 1] = top /\ Append(q, top) # <<>>
          /\ \A i \in 1 .. n : Append(q, top)[i] = q[i]
      BY <3>1, <3>2, AppendProperties
    <3> QED BY <2>4, <3>3 DEF q
  <2>6. Stacked(e.stack, k2.loads, n + 1)
    <3>1. n # 0 => Link(c.stack[n], k.loads[n], e.stack[n + 1])
      BY <1>0, <2>1, <2>2, <2>4, <2>5 DEF Link
    <3>2. n = 0 => e.stack[1].key.within = <<>>
      BY <2>2, <2>4, <2>5
    <3>3. Level(e.stack[n + 1], k2.loads[n + 1])
      BY <1>3, <2>4, <2>5
    <3>4. \A i \in 1 .. n : e.stack[i] = c.stack[i] /\ k2.loads[i] = k.loads[i]
      BY <1>3, <2>5
    <3>5. Stacked(c.stack, k.loads, n) /\ n \in Nat
      BY <1>0, <1>1
    <3> DEFINE st == c.stack
               lo == k.loads
               st2 == e.stack
               lo2 == k2.loads
    <3>6. /\ Stacked(st, lo, n) /\ n \in Nat
          /\ \A i \in 1 .. n : st2[i] = st[i] /\ lo2[i] = lo[i]
          /\ Level(st2[n + 1], lo2[n + 1])
      BY <3>3, <3>4, <3>5
    <3>7. /\ n # 0 => Link(st[n], lo[n], st2[n + 1])
          /\ n = 0 => st2[1].key.within = <<>>
      BY <3>1, <3>2
    <3> HIDE DEF st, lo, st2, lo2
    <3>8. Stacked(st2, lo2, n + 1)
      BY <3>6, <3>7, Pushed
    <3> QED BY <3>8 DEF st2, lo2
  <2>7. <<Place(c.chain, FramesOf(key.within)), k.types>> \in Reach
    <3>1. CASE n = 0
      BY <1>0, <2>1, <2>2, <3>1, FramesOfType DEF Keys
    <3>2. CASE n # 0
      <4>1. c.stack[n] \in Contexts /\ k.loads[n] \in Loads /\ Level(c.stack[n], k.loads[n])
        <5>1. n \in 1 .. n
          BY <1>1, <3>2
        <5>2. c.stack[n] \in Contexts /\ k.loads[n] \in Loads
          BY <1>1, <5>1, ElementOfSeq
        <5> QED BY <1>0, <5>1, <5>2 DEF Stacked
      <4>2. c.stack[n] \in KeyedContexts
        BY <4>1 DEF Contexts, UnkeyedContexts, Level, Keyed
      <4>3. PlaceIn(c.stack[n].key, c.chain, k.loads[n].at) = Place(c.chain, FramesOf(key.within))
        BY <1>0, <2>2, <3>2, <4>1, <4>2, NestedFrame
      <4> QED BY <1>0, <3>2, <4>3
    <3> QED BY <3>1, <3>2
  <2>8. <<PlaceIn(key, c.chain, 0), k.types>> \in Reach
    <3>1. FramesOf(key.within) \in Seq(Frames)
      BY <2>1, FramesOfType DEF Keys
    <3>2. key.content \in Forms /\ key.tc \in BOOLEAN
      BY <2>1 DEF Keys
    <3> QED BY <1>1, <2>7, <3>1, <3>2, ReachEnter DEF PlaceIn
  <2>9. PlaceOf(k2, e) = PlaceIn(key, c.chain, 0)
    BY <1>2, <1>3, <2>4, <2>5 DEF PlaceOf, FormAt
  <2>10. AtTop(e.stack[n + 1], k2.loads[n + 1], e, disk)
    <3>1. ChainHere(top, load, e.chain)
      BY <1>2, <2>1, <2>4, CountingLoads DEF ChainHere, ChainAt
    <3> QED BY <1>2, <1>3, <2>1, <2>4, <2>5, <3>1 DEF AtTop
  <2>11. Standing(k2, e, disk)
    BY <1>3, <2>5, <2>6, <2>8, <2>9, <2>10 DEF Standing
  <2>12. Blocked(k2, e, disk)
    BY <2>4, <2>5 DEF Blocked, Level, Keyed
  <2> QED BY <2>11, <2>12 DEF Stands
<1> QED BY <1>4, <1>5

(* ---- the innermost load --------------------------------------------------------------------- *)

\* A session that loads, and stands soundly.
LEMMA InnermostLoad ==
  ASSUME TypeOK, NEW s \in Sessions, Loading(s), Stands(session[s], cacher[s], disk)
  PROVE  LET n == Depth(s)
             ctx == Context1(s)
             load == Now(s)
         IN /\ n \in Nat \ {0} /\ n = Len(session[s].loads) /\ load \in Loads
            /\ Stack(s) \in Seq(Contexts) /\ session[s].loads \in Seq(Loads)
            /\ Now(s) = session[s].loads[n] /\ Context1(s) = Stack(s)[n]
            /\ load.stage # "failed" /\ (load.stage = "read" => ctx.keyed) =>
                 /\ ctx \in KeyedContexts /\ Level(ctx, load) /\ AtTop(ctx, load, cacher[s], disk)
                 /\ Stacked(Stack(s), session[s].loads, n)
                 /\ <<PlaceIn(ctx.key, cacher[s].chain, FormAt(load)), session[s].types>> \in Reach
            /\ load.stage = "read" /\ ~ctx.keyed => disk[load.file] = Missing
<1> DEFINE n == Depth(s)
           ctx == Context1(s)
           load == Now(s)
<1>1. /\ load \in Loads /\ session[s].up /\ n = Len(session[s].loads) /\ n \in Nat \ {0}
      /\ Stack(s) \in Seq(Contexts) /\ session[s].loads \in Seq(Loads) /\ Stack(s) # <<>>
  BY NowType, SessionType DEF Depth, Stack, Cachers, SessionStates, Loading
<1>2. ctx \in Contexts /\ load = session[s].loads[n] /\ ctx = Stack(s)[n]
  BY <1>1, Last DEF Context1, Depth, Now
<1>3. ~ctx.keyed => /\ load.stage \in {"read", "failed"}
                    /\ load.stage = "read" => disk[load.file] = Missing
  BY <1>1, <1>2 DEF Stands, Blocked, Depth, Stack
<1>4. ASSUME load.stage # "failed", ctx.keyed
      PROVE  /\ ctx \in KeyedContexts /\ Level(ctx, load) /\ AtTop(ctx, load, cacher[s], disk)
             /\ Stacked(Stack(s), session[s].loads, n)
             /\ <<PlaceIn(ctx.key, cacher[s].chain, FormAt(load)), session[s].types>> \in Reach
  <2>1. Standing(session[s], cacher[s], disk)
    BY <1>1, <1>2, <1>4 DEF Stands, Alive, Depth, Stack
  <2>2. Stacked(Stack(s), session[s].loads, n) /\ AtTop(ctx, load, cacher[s], disk)
    BY <1>1, <1>2, <2>1 DEF Standing, Depth, Stack
  <2>3. Level(ctx, load)
    <3>1. n \in 1 .. n
      BY <1>1
    <3> QED BY <1>2, <2>2, <3>1 DEF Stacked
  <2>4. PlaceOf(session[s], cacher[s]) = PlaceIn(ctx.key, cacher[s].chain, FormAt(load))
    BY <1>1, <1>2 DEF PlaceOf, Depth, Stack
  <2>5. ctx \in KeyedContexts
    BY <1>2, <1>4 DEF Contexts, UnkeyedContexts
  <2> QED BY <2>1, <2>2, <2>3, <2>4, <2>5 DEF Standing
<1> HIDE DEF n, ctx, load
<1>5. load.stage # "failed" /\ (load.stage = "read" => ctx.keyed) => ctx.keyed
  BY <1>3
<1> QED BY <1>1, <1>2, <1>3, <1>4, <1>5 DEF n, ctx, load

\* The innermost load and its context go on, in step; the others stand.
Replaces(q, q2, e) ==
  /\ q2 # <<>> /\ Len(q2) = Len(q)
  /\ \A i \in 1 .. Len(q) : q2[i] = IF i = Len(q) THEN e ELSE q[i]
TopMoves(k, c, k2, c2, ctx, load) ==
  /\ Replaces(c.stack, c2.stack, ctx) /\ Replaces(k.loads, k2.loads, load)
  /\ Len(c.stack) \in Nat \ {0} /\ Len(c.stack) = Len(k.loads)
  /\ Stacked(c.stack, k.loads, Len(c.stack)) /\ ctx.key = c.stack[Len(c.stack)].key
Fits(k, c, d, ctx, load) ==
  /\ Level(ctx, load) /\ AtTop(ctx, load, c, d)
  /\ <<PlaceIn(ctx.key, c.chain, FormAt(load)), k.types>> \in Reach

LEMMA ReplacesTop ==
  ASSUME NEW S, NEW q \in Seq(S), q # <<>>, NEW e \in S
  PROVE  Replaces(q, [q EXCEPT ![Len(q)] = e], e)
<1> DEFINE q2 == [q EXCEPT ![Len(q)] = e]
<1>1. /\ Len(q) \in Nat \ {0} /\ q2 \in Seq(S) /\ Len(q2) = Len(q)
      /\ \A i \in 1 .. Len(q) : q2[i] = IF i = Len(q) THEN e ELSE q[i]
  BY Last
<1> HIDE DEF q2
<1>2. q2 # <<>>
  BY <1>1
<1> QED BY <1>1, <1>2 DEF Replaces, q2

LEMMA TopStands ==
  ASSUME NEW k, NEW c, NEW k2, NEW c2, NEW d, NEW ctx, NEW load,
         TopMoves(k, c, k2, c2, ctx, load), Fits(k2, c2, d, ctx, load)
  PROVE  Stands(k2, c2, d)
<1> DEFINE n == Len(c.stack)
           st == c.stack
           lo == k.loads
           st2 == c2.stack
           lo2 == k2.loads
<1>1. /\ st2[n] = ctx /\ lo2[n] = load /\ n \in Nat \ {0} /\ st2 # <<>>
      /\ Len(st2) = n /\ Len(lo2) = n
      /\ \A i \in 1 .. n - 1 : st2[i] = st[i] /\ lo2[i] = lo[i]
  BY DEF TopMoves, Replaces
<1>2. st2[n].key = st[n].key /\ Level(st2[n], lo2[n]) /\ n \in 1 .. n /\ Stacked(st, lo, n)
  BY <1>1 DEF TopMoves, Fits
<1>3. Stacked(st2, lo2, n)
  <2> HIDE DEF st, lo, st2, lo2, n
  <2> QED BY <1>1, <1>2, Retopped
<1>4. PlaceOf(k2, c2) = PlaceIn(ctx.key, c2.chain, FormAt(load))
  BY <1>1 DEF PlaceOf
<1>5. ctx.keyed
  BY DEF Fits, Level, Keyed
<1> QED BY <1>1, <1>3, <1>4, <1>5 DEF Stands, Blocked, Standing, Fits

LEMMA FailedStands ==
  ASSUME NEW k, NEW c, NEW d, NEW n, n = Len(c.stack), n # 0, k.loads[n].stage = "failed"
  PROVE  Stands(k, c, d)
BY DEF Stands, Blocked, Alive

\* A session that fails in its innermost load.
LEMMA ReplacedStands ==
  ASSUME NEW k \in SessionStates, k.loads # <<>>, NEW load \in Loads, NEW c, NEW d,
         NEW n, n = Len(k.loads), n = Len(c.stack)
  PROVE  /\ Replaced(k, Failed(load)).loads[n].stage = "failed"
         /\ Stands(Replaced(k, Failed(load)), c, d)
<1> DEFINE k2 == Replaced(k, Failed(load))
<1>1. Failed(load) \in Loads /\ Failed(load).stage = "failed"
  BY OnwardType DEF Failed, Loads
<1>2. k2.loads = [k.loads EXCEPT ![n] = Failed(load)]
  BY <1>1, ReplacedType
<1>3. n \in Nat \ {0} /\ k2.loads[n] = Failed(load)
  <2>1. k.loads \in Seq(Loads)
    BY DEF SessionStates
  <2> DEFINE q == k.loads
             e == Failed(load)
  <2>2. q \in Seq(Loads) /\ q # <<>> /\ e \in Loads /\ n = Len(q)
    BY <1>1, <2>1
  <2> HIDE DEF q, e, k2
  <2>3. n \in Nat \ {0} /\ \A i \in 1 .. n : [q EXCEPT ![n] = e][i] = IF i = n THEN e ELSE q[i]
    BY <2>2, Last
  <2>4. [q EXCEPT ![n] = e][n] = e
    BY <2>3
  <2> QED BY <1>2, <2>3, <2>4 DEF q, e
<1> HIDE DEF k2
<1>5. k2.loads[n].stage = "failed"
  BY <1>1, <1>3
<1>6. Stands(k2, c, d)
  BY <1>3, <1>5, FailedStands
<1> QED BY <1>5, <1>6 DEF k2

\* The kernel's read of a file, as the session and its cache see it.
LEMMA ReadMoves ==
  ASSUME TypeOK, NEW s \in Sessions, Read(s), Stands(session[s], cacher[s], disk)
  PROVE  LET load == Now(s)
             forms == disk[load.file]
             top == [Context1(s) EXCEPT !.readAt = cacher[s].gensym]
             next == [load EXCEPT !.forms = forms, !.stage = FirstStage(load)]
         IN /\ Loading(s) /\ session[s].loads # <<>> /\ load.stage = "read"
            /\ cacher'[s].chain = cacher[s].chain /\ cacher'[s].job = cacher[s].job
            /\ Replaces(Stack(s), cacher'[s].stack, top)
            /\ Len(cacher'[s].stack) = Len(session[s].loads)
            /\ forms = Missing => session'[s] = Replaced(session[s], Failed(load))
            /\ forms # Missing =>
                 /\ forms \in Forms /\ next \in Loads /\ next.forms = forms /\ next.at = load.at
                 /\ next.file = load.file /\ next.tc = load.tc
                 /\ next.stage = IF load.tc THEN "check" ELSE "eval"
                 /\ Replaces(session[s].loads, session'[s].loads, next)
                 /\ session'[s].tc = session[s].tc
                 /\ session'[s].types = IF load.tc THEN Assuming(session[s].types, forms)
                                        ELSE session[s].types
<1> DEFINE n == Depth(s)
           ctx == Context1(s)
           load == Now(s)
           forms == disk[load.file]
           gensym == cacher[s].gensym
           top == [ctx EXCEPT !.readAt = gensym]
           next == [load EXCEPT !.forms = forms, !.stage = FirstStage(load)]
<1>1. Loading(s) /\ session[s].loads # <<>> /\ load.stage = "read" /\ n = Len(session[s].loads)
  BY SessionType DEF Read, ReadForms, AtStage, Loading, Depth, Stack
<1>2. /\ n \in Nat \ {0} /\ load \in Loads /\ session[s] \in SessionStates
      /\ Stack(s) \in Seq(Contexts) /\ session[s].loads \in Seq(Loads)
      /\ load = session[s].loads[n] /\ ctx = Stack(s)[n] /\ cacher[s] \in Cachers
  BY <1>1, InnermostLoad, SessionType
<1>3. /\ session' = [session EXCEPT ![s] = AfterRead(s)]
      /\ session'[s] = AfterRead(s)
      /\ \E spent : cacher'[s] = [cacher[s] EXCEPT !.stack[n].readAt = gensym,
                                                   !.gensym = @ + spent]
  BY DEF Read, ReadForms, Begin, Caches, TypeOK
<1>4. PICK spent : cacher'[s] = [cacher[s] EXCEPT !.stack = [@ EXCEPT ![n] = top],
                                                  !.gensym = @ + spent]
  <2>1. ctx = cacher[s].stack[n]
    BY <1>2 DEF Stack
  <2> QED BY <1>3, <2>1
<1>5. /\ cacher'[s].stack = [Stack(s) EXCEPT ![n] = top]
      /\ cacher'[s].chain = cacher[s].chain /\ cacher'[s].job = cacher[s].job
  BY <1>2, <1>4 DEF Cachers, Stack
<1>6. Replaces(Stack(s), cacher'[s].stack, top) /\ Len(cacher'[s].stack) = n
  <2>1. gensym \in Nat /\ ctx \in Contexts
    BY <1>2, ElementOfSeq DEF Cachers, Depth
  <2> HIDE DEF gensym, ctx
  <2>2. top \in Contexts
    BY <2>1 DEF Contexts, KeyedContexts, UnkeyedContexts
  <2> HIDE DEF top
  <2>3. Stack(s) # <<>> /\ n = Len(Stack(s))
    BY <1>2 DEF Depth
  <2>4. Replaces(Stack(s), [Stack(s) EXCEPT ![n] = top], top)
    BY <1>2, <2>2, <2>3, ReplacesTop
  <2> QED BY <1>5, <2>3, <2>4 DEF Replaces
<1>7. forms = Missing => session'[s] = Replaced(session[s], Failed(load))
  BY <1>3 DEF AfterRead
<1>8. ASSUME forms # Missing
      PROVE  /\ forms \in Forms /\ next \in Loads /\ next.forms = forms /\ next.at = load.at
             /\ next.file = load.file /\ next.tc = load.tc
             /\ next.stage = IF load.tc THEN "check" ELSE "eval"
             /\ Replaces(session[s].loads, session'[s].loads, next)
             /\ session'[s].tc = session[s].tc
             /\ session'[s].types = IF load.tc THEN Assuming(session[s].types, forms)
                                    ELSE session[s].types
  <2>1. forms \in Forms
    <3>1. load.file \in Files
      BY <1>2 DEF Loads
    <3> HIDE DEF load
    <3> QED BY <1>8, <3>1, ContentType
  <2>2. /\ next \in Loads /\ next.forms = forms /\ next.at = load.at /\ next.tc = load.tc
        /\ next.file = load.file /\ next.stage = FirstStage(load)
    <3>1. FirstStage(load) \in Stages
      BY DEF FirstStage, Stages
    <3> HIDE DEF load, forms
    <3> QED BY <1>2, <2>1, <3>1 DEF Loads
  <2> DEFINE r == Replaced(session[s], next)
  <2>3. session'[s] = [r EXCEPT !.types = IF next.tc THEN Assuming(@, forms) ELSE @]
    BY <1>3, <1>8 DEF AfterRead
  <2> HIDE DEF next
  <2>4. /\ r \in SessionStates /\ r.types = session[s].types /\ r.tc = session[s].tc
        /\ r.loads = [session[s].loads EXCEPT ![n] = next]
    BY <1>1, <1>2, <2>2, ReplacedType
  <2> HIDE DEF r
  <2>5. /\ session'[s].loads = [session[s].loads EXCEPT ![n] = next]
        /\ session'[s].tc = session[s].tc
        /\ session'[s].types = IF load.tc THEN Assuming(session[s].types, forms)
                               ELSE session[s].types
    BY <2>2, <2>3, <2>4 DEF SessionStates
  <2>6. Replaces(session[s].loads, session'[s].loads, next)
    <3> DEFINE lo == session[s].loads
    <3>1. lo \in Seq(Loads) /\ lo # <<>> /\ n = Len(lo)
      BY <1>1, <1>2
    <3> HIDE DEF n, lo
    <3>2. Replaces(lo, [lo EXCEPT ![Len(lo)] = next], next)
      BY <2>2, <3>1, ReplacesTop
    <3> QED BY <2>5, <3>1, <3>2 DEF lo
  <2>7. next.stage = IF load.tc THEN "check" ELSE "eval"
    BY <2>2 DEF FirstStage
  <2> QED BY <2>1, <2>2, <2>5, <2>6, <2>7
<1> HIDE DEF n, ctx, load, forms, gensym, top, next
<1> QED BY <1>1, <1>5, <1>6, <1>7, <1>8 DEF n, ctx, load, forms, gensym, top, next

\* What the session reads is what its wrapper hashed.
LEMMA ReadStands ==
  ASSUME TypeOK, NEW s \in Sessions, Read(s), Stands(session[s], cacher[s], disk)
  PROVE  Stands(session'[s], cacher'[s], disk)
<1> DEFINE n == Depth(s)
           ctx == Context1(s)
           load == Now(s)
           forms == disk[load.file]
           gensym == cacher[s].gensym
           top == [ctx EXCEPT !.readAt = gensym]
           next == [load EXCEPT !.forms = forms, !.stage = FirstStage(load)]
<1>1. Loading(s) /\ session[s].loads # <<>> /\ load.stage = "read" /\ n = Len(session[s].loads)
  BY ReadMoves, SessionType DEF Depth, Stack
<1>2. /\ n \in Nat \ {0} /\ load \in Loads /\ session[s] \in SessionStates
      /\ Stack(s) \in Seq(Contexts) /\ session[s].loads \in Seq(Loads)
      /\ load = session[s].loads[n] /\ ctx = Stack(s)[n] /\ cacher[s] \in Cachers
  BY <1>1, InnermostLoad, SessionType
<1>3. /\ cacher'[s].chain = cacher[s].chain
      /\ Replaces(Stack(s), cacher'[s].stack, top) /\ Len(cacher'[s].stack) = n
  BY <1>1, ReadMoves
<1>4. CASE forms = Missing
  <2>1. session'[s] = Replaced(session[s], Failed(load))
    BY <1>4, ReadMoves
  <2> DEFINE c2 == cacher'[s]
  <2>2. n = Len(c2.stack)
    BY <1>3
  <2> HIDE DEF load, n, c2
  <2>3. Stands(Replaced(session[s], Failed(load)), c2, disk)
    BY <1>1, <1>2, <2>2, ReplacedStands
  <2> QED BY <2>1, <2>3 DEF c2
<1>5. CASE forms # Missing
  <2>0. ctx.keyed
    BY <1>1, <1>5, InnermostLoad
  <2>1. /\ ctx \in KeyedContexts /\ Level(ctx, load) /\ AtTop(ctx, load, cacher[s], disk)
        /\ Stacked(Stack(s), session[s].loads, n)
        /\ <<PlaceIn(ctx.key, cacher[s].chain, FormAt(load)), session[s].types>> \in Reach
    BY <1>1, <2>0, InnermostLoad
  <2>2. /\ forms = ctx.hash /\ gensym = ctx.key.gensym /\ load.tc = ctx.tc /\ load.at = 1
        /\ ctx.key.content = ctx.hash /\ ctx.key.tc = ctx.tc /\ ctx.key \in Keys
        /\ forms \in Forms /\ ctx.tc \in BOOLEAN /\ FormAt(load) = 0
    BY <1>1, <2>1 DEF AtTop, Level, Keyed, Staged, KeyedContexts, FormAt
  <2>3. /\ next \in Loads /\ next.forms = forms /\ next.at = 1 /\ next.tc = load.tc
        /\ next.stage = IF load.tc THEN "check" ELSE "eval"
        /\ Replaces(session[s].loads, session'[s].loads, next)
        /\ session'[s].types = IF load.tc THEN Assuming(session[s].types, forms)
                               ELSE session[s].types
    BY <1>5, <2>2, ReadMoves
  <2>4. /\ top.key = ctx.key /\ top.readAt = gensym /\ top.hash = ctx.hash /\ top.tc = ctx.tc
        /\ top.digest = ctx.digest /\ top.poisoned = ctx.poisoned /\ top.keyed = ctx.keyed
        /\ top.start = ctx.start /\ top.replay = ctx.replay /\ top.entries = ctx.entries
        /\ top.ckpt = ctx.ckpt /\ top.cursor = ctx.cursor /\ top.ckptCursor = ctx.ckptCursor
    BY <2>1 DEF KeyedContexts
  <2> HIDE DEF top, next
  <2>7. Level(top, next)
    <3>1. Checked(next) = 0 /\ Checked(load) = 0
      BY <1>1, <2>2, <2>3 DEF Checked
    <3>2. Keyed(top, next)
      BY <2>1, <2>2, <2>3, <2>4 DEF Level, Keyed
    <3>3. Staged(top, next)
      <4>1. Len(ctx.hash) \in Nat
        BY <2>2, LenProperties DEF Forms
      <4> QED BY <2>2, <2>3, <2>4, <4>1 DEF Staged
    <3>4. Digesting(top, next)
      BY <2>1, <2>2, <2>3, <2>4, <3>1 DEF Level, Digesting
    <3>5. top.poisoned \/ Steady(top, next)
      BY <2>1, <2>2, <2>3, <2>4, <3>1 DEF Level, Steady
    <3> QED BY <3>2, <3>3, <3>4, <3>5 DEF Level
  <2>8. AtTop(top, next, cacher'[s], disk)
    <3>1. ChainHere(ctx, load, cacher[s].chain)
      BY <2>1 DEF AtTop
    <3>2. ChainHere(top, next, cacher'[s].chain)
      BY <1>3, <2>2, <2>3, <2>4, <3>1 DEF ChainHere
    <3> QED BY <2>3, <3>2 DEF AtTop
  <2>9. <<PlaceIn(top.key, cacher'[s].chain, FormAt(next)), session'[s].types>> \in Reach
    <3>1. FramesOf(ctx.key.within) \in Seq(Frames) /\ cacher[s].chain \in Chains
          /\ session[s].types \in Types
      BY <1>2, <2>2, FramesOfType DEF Keys, Cachers, SessionStates
    <3>2. FormAt(next) = 1
      BY <2>3 DEF FormAt
    <3> QED BY <1>3, <2>1, <2>2, <2>3, <2>4, <3>1, <3>2, ReachRead DEF PlaceIn
  <2>10. top.key = Stack(s)[n].key
    BY <1>2, <2>4
  <2>11. TopMoves(session[s], cacher[s], session'[s], cacher'[s], top, next)
    BY <1>1, <1>2, <1>3, <2>1, <2>3, <2>10 DEF TopMoves, Stack, Depth
  <2>12. Fits(session'[s], cacher'[s], disk, top, next)
    BY <2>7, <2>8, <2>9 DEF Fits
  <2> QED BY <2>11, <2>12, TopStands
<1> QED BY <1>4, <1>5

(* ---- a form is checked ------------------------------------------------------------------------ *)

\* Entries and checkpoints that are added leave those before them sound.
LEMMA SoundEntriesGrow ==
  ASSUME NEW key, NEW entries \in Seq(Entries), NEW ckpt \in Seq(Chains),
         SoundEntries(key, entries, ckpt)
  PROVE  /\ \A e \in Entries : SoundEntry(key, ckpt, Len(entries) + 1, e) =>
              SoundEntries(key, Append(entries, e), ckpt)
         /\ \A chain \in Chains : SoundEntries(key, entries, Append(ckpt, chain))
<1>0. Len(entries) \in Nat /\ Len(ckpt) \in Nat
  BY LenProperties
<1>1. ASSUME NEW e \in Entries, SoundEntry(key, ckpt, Len(entries) + 1, e)
      PROVE  SoundEntries(key, Append(entries, e), ckpt)
  <2> DEFINE more == Append(entries, e)
  <2>1. /\ Len(more) = Len(entries) + 1 /\ more[Len(entries) + 1] = e
        /\ \A i \in 1 .. Len(entries) : more[i] = entries[i]
    BY AppendProperties
  <2> HIDE DEF more
  <2>2. ASSUME NEW i \in 1 .. Len(more) PROVE SoundEntry(key, ckpt, i, more[i])
    <3>1. CASE i = Len(entries) + 1
      BY <1>1, <2>1, <3>1
    <3>2. CASE i # Len(entries) + 1
      <4>1. i \in 1 .. Len(entries)
        BY <1>0, <2>1, <3>2
      <4>2. SoundEntry(key, ckpt, i, entries[i])
        BY <4>1 DEF SoundEntries
      <4> QED BY <2>1, <4>1, <4>2
    <3> QED BY <3>1, <3>2
  <2>3. SoundEntries(key, more, ckpt)
    BY <2>2 DEF SoundEntries
  <2> QED BY <2>3 DEF more
<1>2. ASSUME NEW chain \in Chains PROVE SoundEntries(key, entries, Append(ckpt, chain))
  <2> DEFINE more == Append(ckpt, chain)
  <2>1. Len(more) = Len(ckpt) + 1 /\ \A i \in 1 .. Len(ckpt) : more[i] = ckpt[i]
    BY AppendProperties
  <2> HIDE DEF more
  <2>2. ASSUME NEW i \in 1 .. Len(entries)
        PROVE  SoundEntry(key, more, i, entries[i])
    <3> DEFINE m == LoadsBefore(key.content, i)
    <3>1. SoundEntry(key, ckpt, i, entries[i]) /\ i \in Nat \ {0}
      BY DEF SoundEntries
    <3>2. m \in Nat /\ m <= Len(ckpt) /\ m <= Len(more)
      <4>1. m \in Nat
        BY <3>1, CountingLoads
      <4>2. m <= Len(ckpt)
        BY <3>1 DEF SoundEntry
      <4> HIDE DEF m
      <4> QED BY <1>0, <2>1, <4>1, <4>2
    <3>3. m # 0 => more[m] = ckpt[m]
      <4> HIDE DEF m
      <4> QED BY <1>0, <2>1, <3>2
    <3>4. ChainAt(key, more, i) = ChainAt(key, ckpt, i)
      BY <3>3 DEF ChainAt
    <3> QED BY <3>1, <3>2, <3>4 DEF SoundEntry
  <2> QED BY <2>2 DEF SoundEntries, more
<1> QED BY <1>1, <1>2

\* typecheck_wrapper in a context that is in step: it answers what the
\* typechecker would, and the context stays in step.
CheckedOn(load, next) ==
  /\ next.stage = "eval" /\ next.at = load.at /\ next.tc = load.tc /\ next.forms = load.forms
InCheck(c, ctx, load, types) ==
  /\ c.stack # <<>> /\ ctx = c.stack[Len(c.stack)] /\ ctx \in KeyedContexts /\ load \in Loads
  /\ Level(ctx, load) /\ load.stage = "check" /\ load.at <= Len(ctx.hash)
  /\ ChainHere(ctx, load, c.chain) /\ types \in Types
  /\ <<PlaceIn(ctx.key, c.chain, load.at), types>> \in Reach
\* A context that goes on as it was but for its verdicts, or has one hash more.
SameBut(ctx, top) ==
  /\ top.keyed = ctx.keyed /\ top.key = ctx.key /\ top.hash = ctx.hash /\ top.tc = ctx.tc
  /\ top.start = ctx.start /\ top.replay = ctx.replay /\ top.poisoned = ctx.poisoned
  /\ top.ckpt = ctx.ckpt /\ top.ckptCursor = ctx.ckptCursor /\ top.readAt = ctx.readAt
Answered(c, c2, ctx, top, load) ==
  /\ top \in Contexts /\ c2.stack = [c.stack EXCEPT ![Len(c.stack)] = top] /\ c2.chain = c.chain
  /\ SameBut(ctx, top)
  /\ \A next : CheckedOn(load, next) => Level(top, next) /\ ChainHere(top, next, c.chain)

\* The facts that these have in common.
LEMMA InCheckShows ==
  ASSUME NEW c, NEW ctx, NEW load, NEW types, InCheck(c, ctx, load, types)
  PROVE  /\ load.at \in Nat \ {0} /\ load.at \in 1 .. Len(ctx.hash) /\ Len(ctx.hash) \in Nat
         /\ ctx.hash[load.at] \in Form /\ ctx.hash \in Forms
         /\ ctx.tc /\ load.tc /\ ctx.key.tc /\ ctx.key.content = ctx.hash
         /\ load.forms = ctx.hash /\ ctx.readAt = ctx.key.gensym
         /\ Checked(load) = load.at - 1
         /\ \A next : CheckedOn(load, next) => Checked(next) = load.at
         /\ ~ctx.poisoned => Steady(ctx, load)
         /\ ArgHash(ctx.hash[load.at], ctx)
              = ArgHash(ctx.hash[load.at], [readAt |-> ctx.key.gensym])
<1>1. /\ load.at \in Nat \ {0} /\ ctx.hash \in Forms
      /\ load.tc \in BOOLEAN /\ ctx.tc \in BOOLEAN
  BY DEF InCheck, KeyedContexts, Loads
<1>2. /\ ctx.tc /\ load.tc /\ ctx.key.tc /\ ctx.key.content = ctx.hash
      /\ load.forms = ctx.hash /\ ctx.readAt = ctx.key.gensym
      /\ ~ctx.poisoned => Steady(ctx, load)
  BY DEF InCheck, Level, Keyed, Staged
<1>3. Len(ctx.hash) \in Nat /\ load.at \in 1 .. Len(ctx.hash)
  BY <1>1, LenProperties DEF InCheck, Forms
<1>4. ctx.hash[load.at] \in Form
  BY <1>1, <1>3, ElementOfSeq DEF Forms
<1>5. Checked(load) = load.at - 1
  BY <1>1, <1>2 DEF Checked, InCheck
<1>6. ASSUME NEW next, CheckedOn(load, next) PROVE Checked(next) = load.at
  BY <1>1, <1>2, <1>6 DEF Checked, CheckedOn
<1>7. ArgHash(ctx.hash[load.at], ctx) = ArgHash(ctx.hash[load.at], [readAt |-> ctx.key.gensym])
  BY <1>2 DEF ArgHash
<1> QED BY <1>1, <1>2, <1>3, <1>4, <1>5, <1>6, <1>7

LEMMA CheckedLevel ==
  ASSUME NEW c, NEW ctx, NEW load, NEW types, InCheck(c, ctx, load, types),
         NEW top, SameBut(ctx, top),
         \/ top.digest = ctx.digest /\ ctx.poisoned
         \/ top.digest = Append(ctx.digest, ArgHash(ctx.hash[load.at], ctx)),
         NEW next, CheckedOn(load, next), top.poisoned \/ Steady(top, next)
  PROVE  Level(top, next) /\ ChainHere(top, next, c.chain)
<1>1. /\ load.at \in Nat \ {0} /\ load.at <= Len(ctx.hash) /\ ctx.tc /\ Checked(next) = load.at
      /\ Len(ctx.hash) \in Nat /\ Checked(load) = load.at - 1
      /\ ctx.digest \in Digests /\ ctx.hash[load.at] \in Form /\ ctx \in Contexts
  <2>1. ctx \in KeyedContexts
    BY DEF InCheck
  <2>2. ctx.digest \in Digests /\ ctx \in Contexts
    BY <2>1 DEF KeyedContexts, Contexts
  <2> QED BY <2>2, InCheckShows DEF InCheck
<1>2. Keyed(ctx, load) /\ Staged(ctx, load) /\ Digesting(ctx, load)
  BY DEF InCheck, Level
<1>3. Keyed(top, next) /\ Staged(top, next)
  BY <1>1, <1>2, InCheckShows DEF Keyed, Staged, SameBut, CheckedOn, InCheck
<1>4. Digesting(top, next)
  <2>1. CASE top.digest = ctx.digest /\ ctx.poisoned
    BY <1>1, <1>2, <2>1 DEF Digesting, SameBut, CheckedOn
  <2>2. CASE top.digest = Append(ctx.digest, ArgHash(ctx.hash[load.at], ctx))
    <3> DEFINE hash == ArgHash(ctx.hash[load.at], ctx)
    <3>1. hash \in Hashes \cup Chains /\ ~IsChain(hash)
      BY <1>1, ArgHashType, HashOrChain
    <3> HIDE DEF hash
    <3>2. /\ ChainsIn(ctx.digest) \in Nat
          /\ ChainsIn(Append(ctx.digest, hash)) = ChainsIn(ctx.digest) + 0
          /\ Append(ctx.digest, hash) \in Digests
          /\ ctx.digest # <<>> => Append(ctx.digest, hash)[1] = ctx.digest[1]
          /\ ctx.digest = <<>> => Append(ctx.digest, hash)[1] = hash
      BY <1>1, <3>1, CountingChains
    <3>3. Append(ctx.digest, hash) # <<>>
      BY <1>1, <3>1, AppendProperties DEF Digests
    <3>4. ctx.digest # <<>> => ~IsChain(ctx.digest[1])
      BY <1>1, <1>2 DEF Digesting
    <3>5. top.digest = Append(ctx.digest, hash)
      BY <2>2 DEF hash
    <3> QED BY <1>1, <1>2, <3>1, <3>2, <3>3, <3>4, <3>5 DEF Digesting, SameBut, CheckedOn
  <2> QED BY <2>1, <2>2
<1>5. ChainHere(top, next, c.chain)
  BY DEF ChainHere, InCheck, SameBut, CheckedOn
<1> QED BY <1>3, <1>4, <1>5 DEF Level

LEMMA CheckingInStep ==
  ASSUME NEW c \in Cachers, NEW ctx, NEW load, NEW types, InCheck(c, ctx, load, types)
  PROVE  LET form == ctx.hash[load.at]
             answer == Checking(c, form, types)
         IN /\ answer.verdict = Verdict(form, types)
            /\ \E top : Answered(c, answer.cacher, ctx, top, load)
<1> DEFINE n == Len(c.stack)
           form == ctx.hash[load.at]
           hash == ArgHash(form, ctx)
           entry == ctx.entries[ctx.cursor]
           real == Verdict(form, types)
           spent == c.gensym + CostOfCheck(form)
           verdict == IF hash = NoHash \/ real = None THEN None ELSE real
           recorded == [hash |-> hash, val |-> verdict, gensymAfter |-> spent]
           digested == Digested(ctx, hash)
           consumed == [digested EXCEPT !.cursor = @ + 1]
           Answer(v, gensym, top) ==
             [verdict |-> v, cacher |-> [c EXCEPT !.gensym = gensym, !.stack[n] = top]]
           answer == Checking(c, form, types)
<1>1. /\ c.stack # <<>> /\ ctx = c.stack[n] /\ ctx \in KeyedContexts /\ load \in Loads
      /\ types \in Types /\ c.gensym \in Nat /\ c.stack \in Seq(Contexts)
  BY DEF InCheck, Cachers
<1>2. /\ load.at \in Nat \ {0} /\ load.at \in 1 .. Len(ctx.hash) /\ Len(ctx.hash) \in Nat
      /\ form \in Form /\ ctx.key.tc /\ ctx.tc /\ ctx.key.content = ctx.hash
      /\ Checked(load) = load.at - 1
      /\ \A next : CheckedOn(load, next) => Checked(next) = load.at
      /\ ~ctx.poisoned => Steady(ctx, load)
      /\ hash = ArgHash(form, [readAt |-> ctx.key.gensym])
  BY InCheckShows
<1>3. ctx \in Contexts /\ hash \in Hashes /\ real \in TypeNames \cup {None} /\ spent \in Nat
  BY <1>1, <1>2, ArgHashType, VerdictType, CostType DEF Contexts
<1>4. ASSUME NEW v, NEW gensym, NEW top, answer = Answer(v, gensym, top), top \in Contexts,
             SameBut(ctx, top),
             \/ top.digest = ctx.digest /\ ctx.poisoned
             \/ top.digest = Append(ctx.digest, hash),
             \A next : CheckedOn(load, next) => top.poisoned \/ Steady(top, next)
      PROVE  answer.verdict = v /\ Answered(c, answer.cacher, ctx, top, load)
  <2>1. answer.verdict = v
    BY <1>4
  <2>2. /\ answer.cacher.stack = [c.stack EXCEPT ![n] = top]
        /\ answer.cacher.chain = c.chain
    <3>1. answer.cacher = [c EXCEPT !.gensym = gensym, !.stack = [@ EXCEPT ![n] = top]]
      BY <1>4
    <3> HIDE DEF answer
    <3> QED BY <3>1 DEF Cachers
  <2>3. \A next : CheckedOn(load, next) => Level(top, next) /\ ChainHere(top, next, c.chain)
    BY <1>4, CheckedLevel
  <2> HIDE DEF answer, n
  <2> QED BY <1>4, <2>1, <2>2, <2>3 DEF Answered, n
<1> SUFFICES \E top : answer.verdict = real /\ Answered(c, answer.cacher, ctx, top, load)
  OBVIOUS
<1>5. CASE ctx.poisoned
  <2>1. answer = Answer(real, spent, ctx)
    BY <1>1, <1>5 DEF Checking
  <2>2. SameBut(ctx, ctx)
    BY DEF SameBut
  <2> HIDE DEF answer, Answer, real, spent
  <2> QED BY <1>3, <1>4, <1>5, <2>1, <2>2
<1>6. CASE ~ctx.poisoned
  <2>0. /\ SoundEntries(ctx.key, ctx.entries, ctx.ckpt) /\ Steady(ctx, load)
        /\ ctx.entries \in Seq(Entries) /\ ctx.ckpt \in Seq(Chains)
        /\ c.chain = ChainAt(ctx.key, ctx.ckpt, load.at)
        /\ LoadsBefore(ctx.hash, load.at) \in Nat
    BY <1>1, <1>2, <1>6, CountingLoads DEF Steady, KeyedContexts, InCheck, ChainHere
  <2>1. /\ digested \in KeyedContexts /\ digested.digest = Append(ctx.digest, hash)
        /\ SameBut(ctx, digested) /\ digested.entries = ctx.entries
        /\ digested.cursor = ctx.cursor
    <3>1. Append(ctx.digest, hash) \in Digests
      BY <1>1, <1>3, AppendProperties DEF KeyedContexts, Digests
    <3> HIDE DEF hash
    <3> QED BY <1>1, <3>1 DEF KeyedContexts, Digested, SameBut
  <2>2. CASE ~ctx.replay
    <3> DEFINE top == [digested EXCEPT !.entries = Append(@, recorded)]
               more == Append(ctx.entries, recorded)
    <3>1. /\ recorded \in Entries /\ recorded.hash = hash /\ recorded.val = verdict
      <4> HIDE DEF hash, real, spent
      <4> QED BY <1>3 DEF Entries
    <3>2. more \in Seq(Entries) /\ Len(more) = Len(ctx.entries) + 1
      BY <2>0, <3>1, AppendProperties
    <3>3. /\ top \in Contexts /\ top.digest = Append(ctx.digest, hash) /\ SameBut(ctx, top)
          /\ top.entries = more
      <4> HIDE DEF digested, recorded, hash
      <4> QED BY <2>1, <3>2 DEF KeyedContexts, Contexts, SameBut
    <3>4. SoundEntries(ctx.key, more, ctx.ckpt)
      <4>1. Len(ctx.entries) = load.at - 1 /\ Len(ctx.ckpt) = LoadsBefore(ctx.hash, load.at)
        BY <1>2, <2>0, <2>2 DEF Steady
      <4>2. recorded.val # None => recorded.val = real
        BY <3>1
      <4>3. <<PlaceIn(ctx.key, ChainAt(ctx.key, ctx.ckpt, load.at), load.at), types>> \in Reach
        BY <2>0 DEF InCheck
      <4>4. SoundEntry(ctx.key, ctx.ckpt, load.at, recorded)
        <5> DEFINE place == PlaceIn(ctx.key, ChainAt(ctx.key, ctx.ckpt, load.at), load.at)
        <5>1. /\ ctx.key.tc /\ load.at <= Len(ctx.key.content)
              /\ LoadsBefore(ctx.key.content, load.at) <= Len(ctx.ckpt)
          BY <1>2, <2>0, <4>1
        <5>2. recorded.hash = ArgHash(ctx.key.content[load.at], [readAt |-> ctx.key.gensym])
          BY <1>2, <3>1
        <5>3. /\ types \in Types /\ <<place, types>> \in Reach
              /\ recorded.val # None => recorded.val = Verdict(ctx.key.content[load.at], types)
          BY <1>1, <1>2, <4>2, <4>3
        <5> HIDE DEF recorded, place
        <5>4. recorded.val # None =>
                \E t \in Types : <<place, t>> \in Reach
                                 /\ recorded.val = Verdict(ctx.key.content[load.at], t)
          BY <5>3
        <5> QED BY <5>1, <5>2, <5>4 DEF SoundEntry, place
      <4>5. Len(ctx.entries) + 1 = load.at
        BY <1>2, <4>1
      <4> HIDE DEF recorded
      <4> QED BY <2>0, <3>1, <4>4, <4>5, SoundEntriesGrow
    <3>5. ASSUME NEW next, CheckedOn(load, next)
          PROVE  Steady(top, next)
      <4>1. Checked(next) = load.at /\ next.at = load.at
        BY <1>2, <3>5 DEF CheckedOn
      <4>2. Len(more) = load.at
        BY <1>2, <2>0, <2>2, <3>2 DEF Steady
      <4> HIDE DEF top, more
      <4> QED BY <2>0, <2>2, <3>3, <3>4, <4>1, <4>2 DEF Steady, SameBut
    <3>6. answer = Answer(real, spent, top)
      BY <1>1, <1>6, <2>2 DEF Checking
    <3> HIDE DEF answer, Answer, real, spent, top
    <3> QED BY <1>4, <3>3, <3>5, <3>6
  <2>3. CASE ctx.replay
    <3>1. /\ ctx.cursor = load.at /\ Len(ctx.entries) = Len(ctx.hash)
          /\ ctx.ckptCursor = LoadsBefore(ctx.hash, load.at) + 1
          /\ LoadsBefore(ctx.hash, load.at) <= Len(ctx.ckpt)
      BY <1>2, <2>0, <2>3 DEF Steady
    <3>2. SoundEntry(ctx.key, ctx.ckpt, load.at, entry)
      BY <1>2, <2>0, <3>1 DEF SoundEntries
    <3>3. Matches(ctx, hash)
      <4>1. ctx.cursor \in DOMAIN ctx.entries
        BY <1>2, <2>0, <3>1, LenProperties
      <4>2. entry.hash = hash
        BY <1>2, <3>2 DEF SoundEntry
      <4> QED BY <4>1, <4>2 DEF Matches
    <3>4. entry.val # None => entry.val = real
      <4> SUFFICES ASSUME entry.val # None PROVE entry.val = real
        OBVIOUS
      <4>1. PICK others \in Types :
              /\ <<PlaceIn(ctx.key, ChainAt(ctx.key, ctx.ckpt, load.at), load.at), others>> \in Reach
              /\ entry.val = Verdict(ctx.key.content[load.at], others)
        BY <3>2 DEF SoundEntry
      <4>2. others = types
        BY <2>0, <4>1, ReachUnique DEF InCheck
      <4> QED BY <1>2, <4>1, <4>2
    <3>5. /\ consumed \in Contexts /\ consumed.digest = Append(ctx.digest, hash)
          /\ SameBut(ctx, consumed) /\ consumed.entries = ctx.entries
          /\ consumed.cursor = load.at + 1
      <4>1. digested.cursor + 1 \in Nat \ {0} /\ digested.cursor = load.at
        BY <1>2, <2>1, <3>1
      <4> HIDE DEF digested, hash
      <4> QED BY <2>1, <4>1 DEF KeyedContexts, Contexts, SameBut
    <3>6. ASSUME NEW next, CheckedOn(load, next)
          PROVE  Steady(consumed, next)
      <4>1. Checked(next) = load.at /\ next.at = load.at
        BY <1>2, <3>6 DEF CheckedOn
      <4> HIDE DEF consumed
      <4> QED BY <1>2, <2>0, <2>3, <3>1, <3>5, <4>1 DEF Steady, SameBut
    <3>7. \E gensym : answer = Answer(real, gensym, consumed)
      <4>1. CASE entry.val = None
        BY <1>1, <1>6, <2>3, <3>3, <4>1 DEF Checking
      <4>2. CASE entry.val # None
        <5>1. answer = Answer(entry.val, PinAfter(c.gensym, entry), consumed)
          BY <1>1, <1>6, <2>3, <3>3, <4>2 DEF Checking
        <5>2. entry.val = real
          BY <3>4, <4>2
        <5> QED BY <5>1, <5>2
      <4> QED BY <4>1, <4>2
    <3> HIDE DEF answer, Answer, real, consumed
    <3> QED BY <1>4, <3>5, <3>6, <3>7
  <2> QED BY <2>2, <2>3
<1> QED BY <1>5, <1>6

\* The verdict that a session is served is the typechecker's.
LEMMA CheckMoves ==
  ASSUME TypeOK, NEW s \in Sessions, TypecheckForm(s), Stands(session[s], cacher[s], disk)
  PROVE  LET ctx == Context1(s)
             load == Now(s)
         IN /\ Loading(s) /\ session[s].loads # <<>> /\ load.stage = "check"
            /\ CheckForm(s) /\ cacher'[s].chain = cacher[s].chain
            /\ \E top \in Contexts :
                 /\ SameBut(ctx, top) /\ Replaces(Stack(s), cacher'[s].stack, top)
                 /\ \/ session'[s] = Replaced(session[s], Failed(load))
                    \/ \E next \in Loads :
                         /\ CheckedOn(load, next) /\ next.file = load.file
                         /\ Level(top, next) /\ ChainHere(top, next, cacher[s].chain)
                         /\ Replaces(session[s].loads, session'[s].loads, next)
                         /\ session'[s].types = session[s].types /\ session'[s].tc = session[s].tc
<1> DEFINE n == Depth(s)
           ctx == Context1(s)
           load == Now(s)
           types == session[s].types
           form == FormNow(s)
           answer == Checking(cacher[s], form, types)
           next == [load EXCEPT !.stage = "eval", !.said = answer.verdict]
<1>1. /\ Loading(s) /\ session[s].loads # <<>> /\ load.stage = "check" /\ More(s)
      /\ AtStage(s, "check") /\ Working
  BY DEF TypecheckForm, AtStage, Loading
<1>2. /\ n \in Nat \ {0} /\ load \in Loads /\ session[s] \in SessionStates
      /\ Stack(s) \in Seq(Contexts) /\ session[s].loads \in Seq(Loads)
      /\ load = session[s].loads[n] /\ ctx = Stack(s)[n] /\ cacher[s] \in Cachers
      /\ n = Len(session[s].loads) /\ Stack(s) # <<>>
  BY <1>1, InnermostLoad, SessionType DEF Stack
<1>3. /\ ctx \in KeyedContexts /\ Level(ctx, load) /\ AtTop(ctx, load, cacher[s], disk)
      /\ Stacked(Stack(s), session[s].loads, n)
      /\ <<PlaceIn(ctx.key, cacher[s].chain, FormAt(load)), types>> \in Reach
  BY <1>1, InnermostLoad
<1>4. /\ session'[s] = AfterCheck(s, answer.verdict) /\ cacher'[s] = answer.cacher
      /\ Begin(s, AfterCheck(s, answer.verdict))
  BY DEF TypecheckForm, Begin, Caches, TypeOK
<1>5. load.forms = ctx.hash /\ FormAt(load) = load.at
  BY <1>1, <1>3 DEF Level, Keyed, FormAt
<1>6. form = ctx.hash[load.at] /\ load.at <= Len(ctx.hash)
  BY <1>1, <1>5 DEF FormNow, More
<1>7. InCheck(cacher[s], ctx, load, types)
  BY <1>1, <1>2, <1>3, <1>5, <1>6 DEF InCheck, AtTop, SessionStates, Stack, Depth
<1>8. answer.verdict = Verdict(form, types)
  <2> DEFINE c == cacher[s]
  <2>1. c \in Cachers /\ InCheck(c, ctx, load, types) /\ form = ctx.hash[load.at]
    BY <1>2, <1>6, <1>7
  <2>2. answer = Checking(c, form, types)
    OBVIOUS
  <2> HIDE DEF c, ctx, load, types, form, answer
  <2> QED BY <2>1, <2>2, CheckingInStep
<1>9. PICK top : Answered(cacher[s], answer.cacher, ctx, top, load)
  BY <1>2, <1>6, <1>7, CheckingInStep
<1>10. CheckForm(s)
  BY <1>1, <1>4, <1>8 DEF CheckForm
<1>11. answer.verdict \in TypeNames \cup {None} /\ Len(answer.cacher.stack) = n
  BY <1>1, <1>2, FormType, CheckingType DEF SessionStates, Stack, Depth
<1> HIDE DEF answer
<1>12. ASSUME answer.verdict # None
       PROVE  /\ next \in Loads /\ CheckedOn(load, next) /\ next.file = load.file
              /\ Replaces(session[s].loads, session'[s].loads, next)
              /\ session'[s].types = types /\ session'[s].tc = session[s].tc
  <2>1. session'[s] = Replaced(session[s], next)
    BY <1>4, <1>12 DEF AfterCheck
  <2>2. next \in Loads /\ CheckedOn(load, next) /\ next.file = load.file
    <3> HIDE DEF load
    <3> QED BY <1>2, <1>11 DEF Loads, CheckedOn, Stages
  <2>3. /\ session'[s].loads = [session[s].loads EXCEPT ![n] = next] /\ session'[s].types = types
        /\ session'[s].tc = session[s].tc
    <3> HIDE DEF next
    <3> QED BY <1>1, <1>2, <2>1, <2>2, ReplacedType
  <2>4. Replaces(session[s].loads, session'[s].loads, next)
    <3> DEFINE lo == session[s].loads
    <3>1. lo \in Seq(Loads) /\ lo # <<>> /\ n = Len(lo)
      BY <1>1, <1>2
    <3> HIDE DEF next, n, lo
    <3>2. Replaces(lo, [lo EXCEPT ![Len(lo)] = next], next)
      BY <2>2, <3>1, ReplacesTop
    <3> QED BY <2>3, <3>1, <3>2 DEF lo
  <2> QED BY <2>2, <2>3, <2>4
<1>13. answer.verdict = None => session'[s] = Replaced(session[s], Failed(load))
  BY <1>4 DEF AfterCheck
<1>14. /\ top \in Contexts /\ SameBut(ctx, top) /\ cacher'[s].chain = cacher[s].chain
       /\ cacher'[s].stack = [Stack(s) EXCEPT ![Len(Stack(s))] = top]
       /\ \A other : CheckedOn(load, other) =>
            Level(top, other) /\ ChainHere(top, other, cacher[s].chain)
  BY <1>4, <1>9 DEF Answered, Stack
<1>15. Replaces(Stack(s), cacher'[s].stack, top)
  BY <1>2, <1>14, ReplacesTop
<1> HIDE DEF next, load, ctx, types
<1>16. \/ session'[s] = Replaced(session[s], Failed(load))
       \/ \E other \in Loads :
            /\ CheckedOn(load, other) /\ other.file = load.file
            /\ Level(top, other) /\ ChainHere(top, other, cacher[s].chain)
            /\ Replaces(session[s].loads, session'[s].loads, other)
            /\ session'[s].types = session[s].types /\ session'[s].tc = session[s].tc
  BY <1>12, <1>13, <1>14 DEF types
<1> QED BY <1>1, <1>10, <1>14, <1>15, <1>16 DEF load, ctx

LEMMA TypecheckStands ==
  ASSUME TypeOK, NEW s \in Sessions, TypecheckForm(s), Stands(session[s], cacher[s], disk)
  PROVE  Stands(session'[s], cacher'[s], disk)
<1> DEFINE n == Depth(s)
           ctx == Context1(s)
           load == Now(s)
<1>1. /\ Loading(s) /\ session[s].loads # <<>> /\ load.stage = "check"
      /\ cacher'[s].chain = cacher[s].chain
  BY CheckMoves
<1>2. /\ n \in Nat \ {0} /\ load \in Loads /\ session[s] \in SessionStates
      /\ load = session[s].loads[n] /\ ctx = Stack(s)[n] /\ n = Len(Stack(s))
      /\ n = Len(session[s].loads)
  BY <1>1, InnermostLoad, SessionType DEF Depth
<1>3. /\ ctx \in KeyedContexts /\ Level(ctx, load)
      /\ Stacked(Stack(s), session[s].loads, n)
      /\ <<PlaceIn(ctx.key, cacher[s].chain, FormAt(load)), session[s].types>> \in Reach
  BY <1>1, InnermostLoad
<1>4. PICK top \in Contexts :
        /\ SameBut(ctx, top) /\ Replaces(Stack(s), cacher'[s].stack, top)
        /\ \/ session'[s] = Replaced(session[s], Failed(load))
           \/ \E next \in Loads :
                /\ CheckedOn(load, next)
                /\ Level(top, next) /\ ChainHere(top, next, cacher[s].chain)
                /\ Replaces(session[s].loads, session'[s].loads, next)
                /\ session'[s].types = session[s].types
  BY CheckMoves
<1> HIDE DEF load, ctx, n
<1>5. CASE session'[s] = Replaced(session[s], Failed(load))
  <2> DEFINE c2 == cacher'[s]
  <2>1. n = Len(c2.stack)
    BY <1>2, <1>4 DEF Replaces
  <2> HIDE DEF c2
  <2>2. Stands(Replaced(session[s], Failed(load)), c2, disk)
    BY <1>1, <1>2, <2>1, ReplacedStands
  <2> QED BY <1>5, <2>2 DEF c2
<1>6. ASSUME NEW next \in Loads, CheckedOn(load, next),
             Level(top, next), ChainHere(top, next, cacher[s].chain),
             Replaces(session[s].loads, session'[s].loads, next),
             session'[s].types = session[s].types
      PROVE  Stands(session'[s], cacher'[s], disk)
  <2>1. FormAt(next) = load.at /\ FormAt(load) = load.at /\ next.stage = "eval"
    BY <1>1, <1>6 DEF FormAt, CheckedOn
  <2>2. Fits(session'[s], cacher'[s], disk, top, next)
    BY <1>1, <1>3, <1>4, <1>6, <2>1 DEF Fits, AtTop, SameBut
  <2>3. TopMoves(session[s], cacher[s], session'[s], cacher'[s], top, next)
    BY <1>2, <1>3, <1>4, <1>6 DEF TopMoves, Stack, SameBut
  <2> QED BY <2>2, <2>3, TopStands
<1> QED BY <1>4, <1>5, <1>6

(* ---- a form is evaluated ----------------------------------------------------------------------- *)

\* The load goes on and its context stands.
LEMMA OnwardStands ==
  ASSUME TypeOK, NEW s \in Sessions, Loading(s), Stands(session[s], cacher[s], disk),
         Now(s).stage \in {"check", "eval"}, NEW next \in Loads, NEW k2, NEW c2,
         k2.loads = [session[s].loads EXCEPT ![Len(session[s].loads)] = next],
         c2.stack = cacher[s].stack, Fits(k2, c2, disk, Context1(s), next)
  PROVE  Stands(k2, c2, disk)
<1> DEFINE lo == session[s].loads
           st == cacher[s].stack
           ctx == Context1(s)
<1>1. /\ Len(st) \in Nat \ {0} /\ Len(st) = Len(lo) /\ lo \in Seq(Loads) /\ lo # <<>>
      /\ st \in Seq(Contexts) /\ ctx = st[Len(st)] /\ Stacked(st, lo, Len(st)) /\ st # <<>>
  BY InnermostLoad, SessionType DEF Depth, Stack, Loading
<1>2. Replaces(lo, k2.loads, next)
  <2> HIDE DEF lo
  <2>1. Replaces(lo, [lo EXCEPT ![Len(lo)] = next], next)
    BY <1>1, ReplacesTop
  <2> QED BY <2>1 DEF lo
<1>3. Replaces(st, c2.stack, ctx)
  <2> HIDE DEF ctx, st
  <2>1. Replaces(st, st, ctx)
    BY <1>1 DEF Replaces
  <2> QED BY <2>1 DEF st
<1>4. TopMoves(session[s], cacher[s], k2, c2, ctx, next)
  BY <1>1, <1>2, <1>3 DEF TopMoves
<1> QED BY <1>4, TopStands

\* A form that loads nothing.
LEMMA EvalMoves ==
  ASSUME TypeOK, NEW s \in Sessions, Evaluate(s), FormNow(s).op # "load"
  PROVE  LET load == Now(s)
             form == FormNow(s)
             next == Onward(load)
             k == session[s]
             k2 == session'[s]
         IN /\ Loading(s) /\ k.loads # <<>> /\ load.stage = "eval" /\ More(s) /\ form \in Form
            /\ cacher'[s].stack = cacher[s].stack /\ cacher'[s].chain = cacher[s].chain
            /\ cacher'[s].job = cacher[s].job
            /\ \/ form.op = "fail" /\ k2 = Replaced(k, Failed(load))
               \/ /\ next \in Loads /\ next.at = load.at + 1 /\ next.tc = load.tc
                  /\ next.forms = load.forms /\ next.file = load.file
                  /\ next.stage = IF load.tc THEN "check" ELSE "eval"
                  /\ k2.types = Declared(k.types, form)
                  /\ k2.loads = [k.loads EXCEPT ![Len(k.loads)] = next]
                  /\ k2.tc = IF form.op = "tc" THEN form.on ELSE k.tc
<1> DEFINE load == Now(s)
           types == session[s].types
           form == FormNow(s)
           next == Onward(load)
           cost == CostOfEval(form)
<1>1. /\ Loading(s) /\ session[s].loads # <<>> /\ load.stage = "eval" /\ More(s)
  BY DEF Evaluate, EvalForm, AtStage, Loading
<1>2. /\ load \in Loads /\ session[s] \in SessionStates /\ cacher[s] \in Cachers /\ form \in Form
  BY <1>1, NowType, SessionType, FormType
<1>3. session'[s] = AfterEval(s) /\ cacher'[s] = [cacher[s] EXCEPT !.gensym = @ + cost]
  BY DEF Evaluate, EvalForm, Begin, Caches, TypeOK
<1>4. /\ cacher'[s].stack = cacher[s].stack /\ cacher'[s].chain = cacher[s].chain
      /\ cacher'[s].job = cacher[s].job
  BY <1>2, <1>3 DEF Cachers
<1>5. CASE form.op = "fail"
  BY <1>1, <1>2, <1>3, <1>4, <1>5 DEF AfterEval
<1>6. CASE form.op # "fail"
  <2> DEFINE r == Replaced(session[s], next)
  <2>1. /\ next \in Loads /\ next.at = load.at + 1 /\ next.tc = load.tc
        /\ next.forms = load.forms /\ next.file = load.file
        /\ next.stage = IF load.tc THEN "check" ELSE "eval"
    <3> HIDE DEF load
    <3> QED BY <1>2, OnwardType DEF Onward, FirstStage, Loads
  <2>2. /\ r \in SessionStates /\ r.types = types /\ r.tc = session[s].tc
        /\ r.loads = [session[s].loads EXCEPT ![Len(session[s].loads)] = next]
    <3> HIDE DEF next
    <3> QED BY <1>1, <1>2, <2>1, ReplacedType
  <2>3. /\ session'[s].types = Declared(types, form)
        /\ session'[s].loads = [session[s].loads EXCEPT ![Len(session[s].loads)] = next]
        /\ session'[s].tc = IF form.op = "tc" THEN form.on ELSE session[s].tc
    <3>1. CASE form.op = "declare"
      <4>1. session'[s] = [r EXCEPT !.types = [@ EXCEPT ![form.g] = form.type]]
        BY <1>3, <3>1 DEF AfterEval
      <4> HIDE DEF r, form
      <4> QED BY <2>2, <3>1, <4>1 DEF SessionStates, Declared
    <3>2. CASE form.op = "tc"
      <4>1. session'[s] = [r EXCEPT !.tc = form.on]
        BY <1>3, <3>2 DEF AfterEval
      <4> HIDE DEF r, form
      <4> QED BY <2>2, <3>2, <4>1 DEF SessionStates, Declared
    <3>3. CASE form.op \notin {"declare", "tc"}
      <4>1. session'[s] = r
        BY <1>3, <1>6, <3>3 DEF AfterEval
      <4> HIDE DEF r, form
      <4> QED BY <2>2, <3>3, <4>1 DEF Declared
    <3> QED BY <3>1, <3>2, <3>3
  <2> HIDE DEF next, r
  <2> QED BY <1>1, <1>2, <1>4, <2>1, <2>3 DEF next
<1> QED BY <1>5, <1>6

LEMMA EvaluateStands ==
  ASSUME TypeOK, NEW s \in Sessions, Evaluate(s), FormNow(s).op # "load",
         Stands(session[s], cacher[s], disk)
  PROVE  Stands(session'[s], cacher'[s], disk)
<1> DEFINE ctx == Context1(s)
           load == Now(s)
           types == session[s].types
           form == FormNow(s)
           next == Onward(load)
<1>1. /\ Loading(s) /\ session[s].loads # <<>> /\ load.stage = "eval" /\ More(s)
      /\ cacher'[s].stack = cacher[s].stack /\ cacher'[s].chain = cacher[s].chain
  BY EvalMoves
<1>2. /\ load \in Loads /\ session[s] \in SessionStates /\ cacher[s] \in Cachers
      /\ Depth(s) = Len(session[s].loads) /\ cacher[s].chain \in Chains /\ types \in Types
      /\ form \in Form
  BY <1>1, InnermostLoad, SessionType, FormType DEF Stack, Cachers, SessionStates
<1>3. /\ ctx \in KeyedContexts /\ Level(ctx, load) /\ AtTop(ctx, load, cacher[s], disk)
      /\ <<PlaceIn(ctx.key, cacher[s].chain, FormAt(load)), types>> \in Reach
  BY <1>1, InnermostLoad
<1>4. /\ load.forms = ctx.hash /\ FormAt(load) = load.at /\ load.at \in Nat \ {0}
      /\ ctx.hash \in Forms /\ load.tc = ctx.tc /\ ctx.key.content = ctx.hash
      /\ ctx.key.tc = ctx.tc /\ ctx.tc \in BOOLEAN /\ ctx.key \in Keys
  BY <1>1, <1>2, <1>3 DEF Level, Keyed, FormAt, KeyedContexts, Loads
<1>5. form = ctx.hash[load.at] /\ load.at <= Len(ctx.hash) /\ Len(ctx.hash) \in Nat
  BY <1>1, <1>4, LenProperties DEF FormNow, More, Forms
<1>6. CASE session'[s] = Replaced(session[s], Failed(load))
  <2> DEFINE c2 == cacher'[s]
             n == Len(session[s].loads)
  <2>1. n = Len(c2.stack)
    BY <1>1, SessionType
  <2> HIDE DEF load, n, c2
  <2>2. Stands(Replaced(session[s], Failed(load)), c2, disk)
    BY <1>1, <1>2, <2>1, ReplacedStands DEF n
  <2> QED BY <1>6, <2>2 DEF c2
<1>7. CASE session'[s] # Replaced(session[s], Failed(load))
  <2>1. /\ next \in Loads /\ next.at = load.at + 1 /\ next.tc = load.tc
        /\ next.forms = load.forms
        /\ next.stage = IF load.tc THEN "check" ELSE "eval"
    BY <1>7, EvalMoves
  <2>2. form.op # "load"
    OBVIOUS
  <2>3. /\ session'[s].types = Declared(types, form)
        /\ session'[s].loads = [session[s].loads EXCEPT ![Len(session[s].loads)] = next]
    BY <1>7, EvalMoves
  <2> HIDE DEF next
  <2>4. LoadsBefore(ctx.hash, load.at + 1) = LoadsBefore(ctx.hash, load.at)
    <3>1. /\ LoadsBefore(ctx.hash, load.at) \in Nat
          /\ LoadsBefore(ctx.hash, load.at + 1) = LoadsBefore(ctx.hash, load.at) + 0
      BY <1>4, <1>5, CountingLoads
    <3> QED BY <3>1
  <2>5. Checked(next) = Checked(load)
    BY <1>1, <1>4, <2>1 DEF Checked
  <2>6. Level(ctx, next)
    <3>1. Keyed(ctx, load) /\ Digesting(ctx, load) /\ (ctx.poisoned \/ Steady(ctx, load))
      BY <1>3 DEF Level
    <3>2. Keyed(ctx, next)
      BY <1>1, <2>1, <3>1 DEF Keyed
    <3>3. Staged(ctx, next)
      BY <1>4, <1>5, <2>1 DEF Staged
    <3>4. Digesting(ctx, next) /\ (ctx.poisoned \/ Steady(ctx, next))
      BY <2>1, <2>4, <2>5, <3>1 DEF Digesting, Steady
    <3> QED BY <3>2, <3>3, <3>4 DEF Level
  <2>7. AtTop(ctx, next, cacher'[s], disk)
    <3>1. ChainHere(ctx, load, cacher[s].chain)
      BY <1>3 DEF AtTop
    <3>2. ChainHere(ctx, next, cacher'[s].chain)
      BY <1>1, <1>4, <2>1, <2>4, <3>1 DEF ChainHere, ChainAt
    <3> QED BY <2>1, <3>2 DEF AtTop
  <2>8. <<PlaceIn(ctx.key, cacher'[s].chain, FormAt(next)), session'[s].types>> \in Reach
    <3>1. FramesOf(ctx.key.within) \in Seq(Frames) /\ FormAt(next) = load.at + 1
      BY <1>4, <2>1, FramesOfType DEF Keys, FormAt
    <3>2. load.at \in 1 .. Len(ctx.hash)
      BY <1>4, <1>5
    <3> QED BY <1>1, <1>2, <1>3, <1>4, <1>5, <2>2, <2>3, <3>1, <3>2, ReachPass DEF PlaceIn
  <2>9. Fits(session'[s], cacher'[s], disk, ctx, next)
    BY <2>6, <2>7, <2>8 DEF Fits
  <2> DEFINE k2 == session'[s]
             c2 == cacher'[s]
  <2>10. k2.loads = [session[s].loads EXCEPT ![Len(session[s].loads)] = next]
         /\ c2.stack = cacher[s].stack /\ Fits(k2, c2, disk, ctx, next)
         /\ load.stage \in {"check", "eval"}
    BY <1>1, <2>3, <2>9
  <2> HIDE DEF k2, c2
  <2>11. Stands(k2, c2, disk)
    BY <1>1, <2>1, <2>10, OnwardStands
  <2> QED BY <2>11 DEF k2, c2
<1> QED BY <1>6, <1>7

\* A load that a user asks for.
LEMMA LoadTopStands ==
  ASSUME TypeOK, FilesSound, NEW s \in Sessions, NEW f \in Files, LoadTop(s, f),
         Stands(session[s], cacher[s], disk)
  PROVE  Stands(session'[s], cacher'[s], disk)
<1> DEFINE k == session[s]
           c == cacher[s]
           k2 == session'[s]
           e == cacher'[s]
<1>1. /\ k.up /\ k.loads = <<>> /\ k \in SessionStates /\ c \in Cachers /\ c.stack = <<>>
      /\ k2 = [k EXCEPT !.loads = Append(@, Load(f, k.tc))]
      /\ e = Entered(c, disk[f], k.tc)
  BY SessionType DEF LoadTop, LoadFile, Begin, Begun, Caches, TypeOK
<1>2. MayEnter(k, c)
  <2>1. Len(c.stack) = 0 /\ Len(k.loads) = 0
    BY <1>1
  <2>2. Standing(k, c, disk)
    BY <1>1, <2>1 DEF Stands, Alive
  <2> QED BY <1>1, <2>1, <2>2 DEF MayEnter, Standing, PlaceOf
<1> HIDE DEF k, c, k2, e
<1>3. Stands(k2, e, disk)
  BY <1>1, <1>2, EnteredStands
<1> QED BY <1>3 DEF k2, e

\* A form that loads a file: the load waits for it, and it begins.
NestedIn(s, next, k, c, f) ==
  /\ next \in Loads /\ next.stage = "nested" /\ next.at = Now(s).at /\ next.tc = Now(s).tc
  /\ next.forms = Now(s).forms /\ next.file = Now(s).file
  /\ k \in SessionStates /\ k.types = session[s].types /\ k.tc = session[s].tc
  /\ k.up = session[s].up
  /\ Replaces(session[s].loads, k.loads, next)
  /\ c \in Cachers /\ c.stack = Stack(s) /\ c.chain = cacher[s].chain /\ c.job = cacher[s].job
  /\ c.gensym = cacher[s].gensym
  /\ f \in Files /\ f = FormNow(s).file
  /\ session'[s] = [k EXCEPT !.loads = Append(@, Load(f, k.tc))]
  /\ cacher'[s] = Entered(c, disk[f], k.tc)

LEMMA NestMoves ==
  ASSUME TypeOK, NEW s \in Sessions, Evaluate(s), FormNow(s).op = "load"
  PROVE  /\ Loading(s) /\ session[s].loads # <<>> /\ Now(s).stage = "eval" /\ More(s)
         /\ \E next, k, c, f : NestedIn(s, next, k, c, f)
<1> DEFINE load == Now(s)
           form == FormNow(s)
           next == [load EXCEPT !.stage = "nested"]
           k == Replaced(session[s], next)
           c == [cacher[s] EXCEPT !.gensym = @ + CostOfEval(form)]
           k2 == session'[s]
           e == cacher'[s]
<1>1. Loading(s) /\ session[s].loads # <<>> /\ load.stage = "eval" /\ More(s)
  BY DEF Evaluate, EvalForm, AtStage, Loading
<1>2. /\ load \in Loads /\ session[s] \in SessionStates /\ cacher[s] \in Cachers /\ form \in Form
      /\ session[s].loads \in Seq(Loads)
  BY <1>1, NowType, SessionType, FormType DEF SessionStates
<1>3. /\ next \in Loads /\ next.stage = "nested" /\ next.at = load.at /\ next.tc = load.tc
      /\ next.forms = load.forms /\ next.file = load.file
  <2> HIDE DEF load
  <2> QED BY <1>2 DEF Loads, Stages
<1>4. /\ k \in SessionStates /\ k.types = session[s].types /\ k.tc = session[s].tc
      /\ k.up = session[s].up
      /\ k.loads = [session[s].loads EXCEPT ![Len(session[s].loads)] = next]
  <2> HIDE DEF next
  <2> QED BY <1>1, <1>2, <1>3, ReplacedType
<1>5. /\ c \in Cachers /\ c.stack = Stack(s) /\ c.chain = cacher[s].chain
      /\ c.job = cacher[s].job /\ c.gensym = cacher[s].gensym
  <2>1. cacher[s].gensym \in Nat /\ CostOfEval(form) = 0
    BY <1>2 DEF Cachers, CostOfEval
  <2> HIDE DEF form
  <2> QED BY <1>2, <2>1 DEF Cachers, Stack
<1>6. form.file \in Files
  BY <1>2 DEF Form
<1>7. /\ k2 = [k EXCEPT !.loads = Append(@, Load(form.file, k.tc))]
      /\ e = Entered(c, disk[form.file], k.tc)
  <2>1. k2 = AfterEval(s) /\ e = Entered(c, disk[form.file], session[s].tc)
    BY DEF Evaluate, EvalForm, Begin, Caches, TypeOK
  <2>2. k2 = [k EXCEPT !.loads = Append(@, Load(form.file, session[s].tc))]
    BY <2>1 DEF AfterEval
  <2> HIDE DEF k, k2, e, c
  <2> QED BY <1>4, <2>1, <2>2
<1>8. Replaces(session[s].loads, k.loads, next)
  <2> DEFINE lo == session[s].loads
  <2>1. lo \in Seq(Loads) /\ lo # <<>>
    BY <1>1, <1>2
  <2> HIDE DEF lo, next
  <2>2. Replaces(lo, [lo EXCEPT ![Len(lo)] = next], next)
    BY <1>3, <2>1, ReplacesTop
  <2> QED BY <1>4, <2>2 DEF lo
<1> DEFINE f == form.file
<1>9. f = form.file
  OBVIOUS
<1> HIDE DEF next, k, c, f
<1>10. NestedIn(s, next, k, c, f)
  BY <1>3, <1>4, <1>5, <1>6, <1>7, <1>8, <1>9 DEF NestedIn
<1> QED BY <1>1, <1>10

\* A load stands still, in step, while it evaluates a load form.
LEMMA NestedLevel ==
  ASSUME NEW ctx, NEW load, NEW next, Level(ctx, load), load.stage = "eval",
         load.at <= Len(ctx.hash), next.stage = "nested", next.at = load.at,
         next.tc = load.tc, next.forms = load.forms
  PROVE  Level(ctx, next)
<1>1. Checked(next) = Checked(load)
  BY DEF Checked
<1>2. /\ Keyed(ctx, load) /\ Staged(ctx, load) /\ Digesting(ctx, load)
      /\ ctx.poisoned \/ Steady(ctx, load)
  BY DEF Level
<1>3. Keyed(ctx, next) /\ Staged(ctx, next)
  BY <1>2 DEF Keyed, Staged
<1>4. Digesting(ctx, next) /\ (ctx.poisoned \/ Steady(ctx, next))
  BY <1>1, <1>2 DEF Digesting, Steady
<1> QED BY <1>3, <1>4 DEF Level

LEMMA NestedStands ==
  ASSUME TypeOK, FilesSound, NEW s \in Sessions, Evaluate(s), FormNow(s).op = "load",
         Stands(session[s], cacher[s], disk)
  PROVE  Stands(session'[s], cacher'[s], disk)
<1> DEFINE n == Depth(s)
           ctx == Context1(s)
           load == Now(s)
           form == FormNow(s)
           k2 == session'[s]
           e == cacher'[s]
<1>1. /\ Loading(s) /\ session[s].loads # <<>> /\ load.stage = "eval" /\ More(s)
  BY NestMoves
<1>2. /\ n \in Nat \ {0} /\ load \in Loads
      /\ Stack(s) \in Seq(Contexts) /\ session[s].loads \in Seq(Loads)
      /\ n = Len(session[s].loads)
      /\ load = session[s].loads[n] /\ ctx = Stack(s)[n]
  BY <1>1, InnermostLoad
<1>3. /\ ctx \in KeyedContexts /\ Level(ctx, load) /\ AtTop(ctx, load, cacher[s], disk)
      /\ Stacked(Stack(s), session[s].loads, n)
      /\ <<PlaceIn(ctx.key, cacher[s].chain, FormAt(load)), session[s].types>> \in Reach
  BY <1>1, InnermostLoad
<1>4. /\ load.forms = ctx.hash /\ FormAt(load) = load.at
      /\ load.at <= Len(ctx.hash) /\ ctx.hash[load.at].op = "load"
  BY <1>1, <1>3 DEF Level, Keyed, FormAt, More, FormNow
<1>5. PICK next, k, c, f : NestedIn(s, next, k, c, f)
  BY NestMoves
<1>6. /\ next \in Loads /\ next.stage = "nested" /\ next.at = load.at /\ next.tc = load.tc
      /\ next.forms = load.forms
      /\ k \in SessionStates /\ k.types = session[s].types
      /\ c \in Cachers /\ c.stack = Stack(s) /\ c.chain = cacher[s].chain
      /\ f \in Files
  BY <1>5 DEF NestedIn
<1>7. /\ k2 = [k EXCEPT !.loads = Append(@, Load(f, k.tc))]
      /\ e = Entered(c, disk[f], k.tc)
  BY <1>5 DEF NestedIn
<1> HIDE DEF k2, e
<1>8. Level(ctx, next)
  <2> HIDE DEF ctx, load
  <2> QED BY <1>1, <1>3, <1>4, <1>6, NestedLevel
<1>9. Replaces(session[s].loads, k.loads, next)
  BY <1>5 DEF NestedIn
<1>10. MayEnter(k, c)
  <2> DEFINE st == Stack(s)
             lo == session[s].loads
             lo2 == k.loads
  <2>1. /\ n = Len(lo2) /\ lo2[n] = next /\ \A i \in 1 .. n - 1 : st[i] = st[i] /\ lo2[i] = lo[i]
        /\ n = Len(st) /\ st[n] = ctx /\ n \in 1 .. n
    <3> HIDE DEF ctx
    <3>1. n = Len(st) /\ n \in Nat \ {0}
      BY <1>2 DEF Depth
    <3> HIDE DEF n
    <3> QED BY <1>2, <1>9, <3>1 DEF Replaces
  <2>2. st[n].key = st[n].key /\ Level(st[n], lo2[n]) /\ Stacked(st, lo, n) /\ n \in Nat
    BY <1>2, <1>3, <1>8, <2>1
  <2>3. Stacked(st, lo2, n)
    <3> HIDE DEF st, lo, lo2, n
    <3> QED BY <2>1, <2>2, Retopped
  <2>4. ChainHere(ctx, next, c.chain)
    BY <1>3, <1>6 DEF AtTop, ChainHere
  <2>5. c.stack = st /\ n # 0
    BY <1>2, <1>6
  <2> HIDE DEF st, lo2, n, ctx, load
  <2> QED BY <1>3, <1>4, <1>6, <2>1, <2>3, <2>4, <2>5 DEF MayEnter, lo2
<1>11. Stands(k2, e, disk)
  BY <1>6, <1>7, <1>10, EnteredStands
<1> QED BY <1>11 DEF k2, e

(* ---- a load ends ---------------------------------------------------------------------------------- *)

\* The context around a load that ended goes on in step: the chain is its last
\* checkpoint.
LEMMA CheckpointedStands ==
  ASSUME NEW ctx \in KeyedContexts, NEW load \in Loads, Level(ctx, load),
         load.stage = "nested", load.at <= Len(ctx.hash), ctx.hash[load.at].op = "load",
         NEW chain \in Chains, IsChain(chain)
  PROVE  LET top == Checkpointed(ctx, chain)
             next == Onward(load)
         IN /\ top.key = ctx.key /\ top.hash = ctx.hash /\ top \in Contexts /\ next \in Loads
            /\ Level(top, next) /\ ChainHere(top, next, chain)
            /\ next.stage \in {"check", "eval"} /\ next.at = load.at + 1
<1> DEFINE top == Checkpointed(ctx, chain)
           next == Onward(load)
           p == [ctx EXCEPT !.digest = Append(@, chain)]
           done == LoadsBefore(ctx.hash, load.at)
<1>1. /\ ctx \in Contexts /\ ctx.hash \in Forms /\ Len(ctx.hash) \in Nat /\ ctx.digest \in Digests
      /\ ctx.entries \in Seq(Entries) /\ ctx.ckpt \in Seq(Chains) /\ Len(ctx.ckpt) \in Nat
      /\ ctx.tc \in BOOLEAN /\ load.at \in Nat \ {0} /\ load.tc \in BOOLEAN
  BY LenProperties DEF Contexts, KeyedContexts, Forms, Loads
<1>2. /\ Keyed(ctx, load) /\ Staged(ctx, load) /\ Digesting(ctx, load)
      /\ ctx.poisoned \/ Steady(ctx, load)
      /\ ctx.tc = load.tc /\ ctx.keyed
  BY DEF Level, Keyed
<1>3. /\ next \in Loads /\ next.at = load.at + 1 /\ next.tc = load.tc
      /\ next.forms = load.forms
      /\ next.stage = IF load.tc THEN "check" ELSE "eval"
  BY OnwardType DEF Onward, FirstStage, Loads
<1>4. /\ Checked(next) = Checked(load)
      /\ ctx.tc => Checked(load) = load.at /\ Checked(load) # 0
  BY <1>1, <1>2, <1>3 DEF Checked
<1>5. done \in Nat /\ LoadsBefore(ctx.hash, next.at) = done + 1
  BY <1>1, <1>3, CountingLoads
<1> HIDE DEF next
<1>6. /\ p.keyed /\ p.key = ctx.key /\ p.hash = ctx.hash /\ p.tc = ctx.tc /\ p.start = ctx.start
      /\ p.readAt = ctx.readAt /\ p.replay = ctx.replay /\ p.poisoned = ctx.poisoned
      /\ p.digest = Append(ctx.digest, chain) /\ p.entries = ctx.entries /\ p.ckpt = ctx.ckpt
      /\ p.cursor = ctx.cursor /\ p.ckptCursor = ctx.ckptCursor /\ p \in KeyedContexts
  <2>1. Append(ctx.digest, chain) \in Digests
    BY <1>1, AppendProperties DEF Digests
  <2> QED BY <1>2, <2>1 DEF KeyedContexts
<1> HIDE DEF p
<1>7. ASSUME NEW q, q.keyed, q.key = ctx.key, q.hash = ctx.hash, q.tc = ctx.tc,
             q.start = ctx.start, q.readAt = ctx.readAt, q.digest = Append(ctx.digest, chain),
             q.poisoned \/ Steady(q, next)
      PROVE  Level(q, next)
  <2>1. Keyed(q, next)
    BY <1>2, <1>3, <1>7 DEF Keyed
  <2>2. Staged(q, next)
    BY <1>1, <1>2, <1>3, <1>7 DEF Staged
  <2>3. Digesting(q, next)
    <3>1. /\ ChainsIn(q.digest) = ChainsIn(ctx.digest) + 1
          /\ ctx.digest # <<>> => q.digest[1] = ctx.digest[1]
          /\ (\A i \in DOMAIN ctx.digest : IsChain(ctx.digest[i])) =>
               \A i \in DOMAIN q.digest : IsChain(q.digest[i])
      <4>1. chain \in Hashes \cup Chains /\ ctx.digest \in Digests
        BY <1>1
      <4>2. /\ ChainsIn(Append(ctx.digest, chain)) = ChainsIn(ctx.digest) + 1
            /\ ctx.digest # <<>> => Append(ctx.digest, chain)[1] = ctx.digest[1]
            /\ (\A i \in DOMAIN ctx.digest : IsChain(ctx.digest[i])) =>
                 \A i \in DOMAIN Append(ctx.digest, chain) : IsChain(Append(ctx.digest, chain)[i])
        BY <4>1, CountingChains
      <4> QED BY <1>7, <4>2
    <3>2. q.digest # <<>>
      <4>1. Append(ctx.digest, chain) # <<>>
        BY <1>1, AppendProperties DEF Digests
      <4> QED BY <1>7, <4>1
    <3> QED BY <1>1, <1>2, <1>4, <1>5, <1>7, <3>1, <3>2 DEF Digesting
  <2> QED BY <1>7, <2>1, <2>2, <2>3 DEF Level
<1>8. top \in Contexts
  BY <1>1, CheckpointedType
<1>9. CASE ~p.replay
  <2> DEFINE more == Append(p.ckpt, chain)
  <2>1. top = [p EXCEPT !.ckpt = more]
    BY <1>2, <1>6, <1>9 DEF Checkpointed, p
  <2>2. /\ Len(more) = Len(ctx.ckpt) + 1 /\ more[Len(ctx.ckpt) + 1] = chain
        /\ more \in Seq(Chains)
    BY <1>1, <1>6, AppendProperties
  <2>3. SoundEntries(ctx.key, ctx.entries, ctx.ckpt) =>
          SoundEntries(ctx.key, ctx.entries, more)
    BY <1>1, <1>6, SoundEntriesGrow
  <2> HIDE DEF top, more
  <2>4. /\ top.keyed /\ top.key = ctx.key /\ top.hash = ctx.hash /\ top.tc = ctx.tc
        /\ top.start = ctx.start /\ top.readAt = ctx.readAt /\ top.replay = ctx.replay
        /\ top.poisoned = ctx.poisoned /\ top.digest = Append(ctx.digest, chain)
        /\ top.entries = ctx.entries /\ top.ckpt = more
    BY <1>6, <2>1 DEF KeyedContexts
  <2>5. top.poisoned \/ (Len(ctx.ckpt) = done /\ Steady(top, next))
    BY <1>2, <1>4, <1>5, <1>6, <1>9, <2>2, <2>3, <2>4 DEF Steady
  <2>6. Level(top, next)
    BY <1>7, <2>4, <2>5
  <2>7. ChainHere(top, next, chain)
    <3> HIDE DEF done
    <3> QED BY <1>5, <2>2, <2>4, <2>5, <1>2 DEF ChainHere, ChainAt, Keyed
  <2> QED BY <1>3, <1>8, <2>4, <2>6, <2>7 DEF top, next
<1>10. CASE p.replay /\ p.ckptCursor \in DOMAIN p.ckpt /\ p.ckpt[p.ckptCursor] = chain
  <2>1. top = [p EXCEPT !.ckptCursor = @ + 1]
    BY <1>2, <1>6, <1>10 DEF Checkpointed, p
  <2>2. p.ckptCursor \in Nat /\ p.ckptCursor <= Len(ctx.ckpt)
    BY <1>1, <1>6, <1>10, LenProperties
  <2> HIDE DEF top
  <2>3. /\ top.keyed /\ top.key = ctx.key /\ top.hash = ctx.hash /\ top.tc = ctx.tc
        /\ top.start = ctx.start /\ top.readAt = ctx.readAt /\ top.replay = ctx.replay
        /\ top.poisoned = ctx.poisoned /\ top.digest = Append(ctx.digest, chain)
        /\ top.entries = ctx.entries /\ top.ckpt = ctx.ckpt /\ top.cursor = ctx.cursor
        /\ top.ckptCursor = ctx.ckptCursor + 1
    BY <1>6, <2>1 DEF KeyedContexts
  <2>4. top.poisoned \/ (ctx.ckptCursor = done + 1 /\ Steady(top, next))
    <3> SUFFICES ASSUME ~top.poisoned PROVE ctx.ckptCursor = done + 1 /\ Steady(top, next)
      OBVIOUS
    <3>1. Steady(ctx, load) /\ ctx.replay
      BY <1>2, <1>6, <1>10, <2>3
    <3>2. /\ ctx.cursor = Checked(load) + 1 /\ ctx.ckptCursor = done + 1
          /\ Len(ctx.entries) = (IF ctx.tc THEN Len(ctx.hash) ELSE 0)
          /\ SoundEntries(ctx.key, ctx.entries, ctx.ckpt)
      BY <3>1 DEF Steady
    <3>3. done + 1 <= Len(ctx.ckpt)
      BY <1>6, <2>2, <3>2
    <3> HIDE DEF done
    <3> QED BY <1>4, <1>5, <2>3, <3>1, <3>2, <3>3 DEF Steady
  <2>5. Level(top, next)
    BY <1>7, <2>3, <2>4
  <2>6. ChainHere(top, next, chain)
    <3> HIDE DEF done
    <3> QED BY <1>5, <1>6, <1>10, <2>3, <2>4, <1>2 DEF ChainHere, ChainAt, Keyed
  <2> QED BY <1>3, <1>8, <2>3, <2>5, <2>6 DEF top, next
<1>11. CASE p.replay /\ ~(p.ckptCursor \in DOMAIN p.ckpt /\ p.ckpt[p.ckptCursor] = chain)
  <2>1. top = [p EXCEPT !.poisoned = TRUE]
    BY <1>2, <1>6, <1>11 DEF Checkpointed, p
  <2> HIDE DEF top
  <2>2. /\ top.keyed /\ top.key = ctx.key /\ top.hash = ctx.hash /\ top.tc = ctx.tc
        /\ top.start = ctx.start /\ top.readAt = ctx.readAt
        /\ top.poisoned /\ top.digest = Append(ctx.digest, chain)
    BY <1>6, <2>1 DEF KeyedContexts
  <2>3. Level(top, next)
    BY <1>7, <2>2
  <2>4. ChainHere(top, next, chain)
    BY <2>2 DEF ChainHere
  <2> QED BY <1>3, <1>8, <2>2, <2>3, <2>4 DEF top, next
<1> QED BY <1>9, <1>10, <1>11

\* What a load that ends has recorded is sound.
LEMMA RecordingSound ==
  ASSUME NEW ctx \in KeyedContexts, NEW load \in Loads, Level(ctx, load),
         load.stage \in {"check", "eval"}, load.at > Len(ctx.hash),
         ~ctx.replay, ~ctx.poisoned, NEW rec,
         rec.start = ctx.start, rec.entries = ctx.entries, rec.ckpt = ctx.ckpt
  PROVE  SoundRecording(ctx.key, rec)
<1>1. /\ Len(ctx.hash) \in Nat /\ load.at \in Nat \ {0} /\ ctx.tc \in BOOLEAN
  BY LenProperties DEF KeyedContexts, Forms, Loads
<1>2. /\ Keyed(ctx, load) /\ Staged(ctx, load) /\ Steady(ctx, load)
  BY DEF Level
<1>3. /\ ctx.tc = load.tc /\ ctx.key.content = ctx.hash /\ ctx.key.tc = ctx.tc
      /\ ctx.start = ctx.key.gensym
  BY <1>2 DEF Keyed
<1>4. load.at = Len(ctx.hash) + 1 /\ (ctx.tc => load.stage = "check")
  BY <1>1, <1>2 DEF Staged
<1>5. Checked(load) = IF ctx.tc THEN Len(ctx.hash) ELSE 0
  <2>1. CASE ctx.tc
    <3>1. load.tc /\ load.stage \notin {"eval", "nested"}
      BY <1>3, <1>4, <2>1
    <3> QED BY <1>1, <1>4, <2>1, <3>1 DEF Checked
  <2>2. CASE ~ctx.tc
    BY <1>3, <2>2 DEF Checked
  <2> QED BY <2>1, <2>2
<1>6. Len(ctx.entries) = Checked(load) /\ SoundEntries(ctx.key, ctx.entries, ctx.ckpt)
  BY <1>2 DEF Steady
<1> QED BY <1>3, <1>5, <1>6 DEF SoundRecording

\* A session k at the end of its innermost load.
AtEndOf(k, c, d, ctx, load) ==
  LET n == Len(c.stack) IN
  /\ n \in Nat \ {0} /\ n = Len(k.loads) /\ ctx = c.stack[n] /\ load = k.loads[n]
  /\ k.up /\ ctx \in KeyedContexts /\ load \in Loads /\ Level(ctx, load)
  /\ ChainHere(ctx, load, c.chain)
  /\ load.stage \in {"check", "eval"} /\ load.at = Len(ctx.hash) + 1
  /\ Stacked(c.stack, k.loads, n)
  /\ <<PlaceIn(ctx.key, c.chain, load.at), k.types>> \in Reach

\* load_wrapper on its way out, and the return to the load around.
CompletedFrom(c2, n, ctx, chain, outer) ==
  /\ c2.chain = chain
  /\ c2.stack = IF outer = <<>> THEN <<>>
                ELSE [outer EXCEPT ![n - 1] = Checkpointed(outer[n - 1], chain)]
  /\ c2.job # NoJob =>
       /\ ~ctx.replay /\ ~ctx.poisoned /\ c2.job.key = ctx.key
       /\ c2.job.rec.start = ctx.start /\ c2.job.rec.entries = ctx.entries
       /\ c2.job.rec.ckpt = ctx.ckpt
ReturnedFrom(k, k2, n, loads) ==
  /\ k2.types = k.types /\ k2.up = k.up /\ k2.tc = k.tc
  /\ k2.loads = IF loads = <<>> THEN <<>>
                ELSE [loads EXCEPT ![n - 1] = Onward(loads[n - 1])]

LEMMA CompletedParts ==
  ASSUME NEW c \in Cachers, NEW n, n = Len(c.stack), n # 0, NEW ctx, ctx = c.stack[n], ctx.keyed,
         NEW chain, chain = Append(c.chain, [file |-> ctx.hash, tc |-> ctx.tc]),
         NEW outer, outer = SubSeq(c.stack, 1, n - 1),
         NEW c2, c2 = Completed(c)
  PROVE  CompletedFrom(c2, n, ctx, chain, outer)
<1> DEFINE gensym == IF ctx.replay THEN Pinned(c.gensym, ctx.end) ELSE c.gensym
           stack == IF outer = <<>> THEN <<>>
                    ELSE [outer EXCEPT ![n - 1] = Checkpointed(@, chain)]
           rec == [start |-> ctx.start, end |-> c.gensym,
                   entries |-> ctx.entries, ckpt |-> ctx.ckpt]
           open == [stage |-> "open", key |-> ctx.key, rec |-> rec, inode |-> 0]
           job == IF ctx.replay \/ ctx.poisoned THEN NoJob ELSE open
<1>1. c2 = [c EXCEPT !.chain = chain, !.gensym = gensym, !.stack = stack, !.job = job]
  BY DEF Completed
<1> HIDE DEF gensym, stack, job
<1>2. c2.chain = chain /\ c2.stack = stack /\ c2.job = job
  BY <1>1 DEF Cachers
<1>3. /\ open.key = ctx.key /\ open.rec.start = ctx.start /\ open.rec.entries = ctx.entries
      /\ open.rec.ckpt = ctx.ckpt
  OBVIOUS
<1> HIDE DEF open
<1>4. job # NoJob => ~ctx.replay /\ ~ctx.poisoned /\ job = open
  BY DEF job
<1> QED BY <1>2, <1>3, <1>4 DEF stack, CompletedFrom

LEMMA ReturnedParts ==
  ASSUME NEW k \in SessionStates, NEW n \in Nat \ {0}, n = Len(k.loads),
         NEW loads, loads = SubSeq(k.loads, 1, n - 1),
         NEW k2, k2 = Returned(k, FALSE)
  PROVE  ReturnedFrom(k, k2, n, loads)
<1>1. loads \in Seq(Loads) /\ Len(loads) = n - 1
  <2> DEFINE q == k.loads
  <2>1. q \in Seq(Loads) /\ q # <<>> /\ n = Len(q) /\ loads = SubSeq(q, 1, Len(q) - 1)
    BY DEF SessionStates
  <2> HIDE DEF q
  <2> QED BY <2>1, Last
<1> DEFINE lo == IF loads = <<>> THEN <<>>
                 ELSE [loads EXCEPT ![Len(loads)] = Onward(loads[Len(loads)])]
<1>2. k2 = [k EXCEPT !.loads = lo]
  BY DEF Returned
<1>3. lo = IF loads = <<>> THEN <<>> ELSE [loads EXCEPT ![n - 1] = Onward(loads[n - 1])]
  BY <1>1
<1> HIDE DEF lo
<1>4. k2.types = k.types /\ k2.up = k.up /\ k2.tc = k.tc /\ k2.loads = lo
  BY <1>2 DEF SessionStates
<1> QED BY <1>3, <1>4 DEF ReturnedFrom

\* The loads around one that ends, and their contexts: the innermost goes on.
EndedFrom(k, k2, c, c2, n, ctx, chain, outer, loads) ==
  /\ CompletedFrom(c2, n, ctx, chain, outer) /\ ReturnedFrom(k, k2, n, loads)
  /\ outer \in Seq(Contexts) /\ Len(outer) = n - 1
  /\ loads \in Seq(Loads) /\ Len(loads) = n - 1
  /\ \A i \in 1 .. n - 1 : outer[i] = c.stack[i] /\ loads[i] = k.loads[i]
  /\ n = 1 => c2.stack = <<>> /\ k2.loads = <<>>
  /\ n # 1 => /\ Replaces(outer, c2.stack, Checkpointed(outer[n - 1], chain))
              /\ Replaces(loads, k2.loads, Onward(loads[n - 1]))
              /\ outer # <<>> /\ loads # <<>>

LEMMA EndedMoves ==
  ASSUME NEW k \in SessionStates, NEW c \in Cachers,
         NEW n \in Nat \ {0}, n = Len(c.stack), n = Len(k.loads),
         NEW ctx, ctx = c.stack[n], ctx.keyed,
         NEW chain \in Chains, chain = Append(c.chain, [file |-> ctx.hash, tc |-> ctx.tc]),
         NEW outer, outer = SubSeq(c.stack, 1, n - 1),
         NEW loads, loads = SubSeq(k.loads, 1, n - 1),
         NEW k2, k2 = Returned(k, FALSE), NEW c2, c2 = Completed(c)
  PROVE  EndedFrom(k, k2, c, c2, n, ctx, chain, outer, loads)
<1>1. /\ CompletedFrom(c2, n, ctx, chain, outer) /\ ReturnedFrom(k, k2, n, loads)
      /\ c.stack # <<>> /\ k.loads # <<>>
  BY CompletedParts, ReturnedParts
<1>2. /\ outer \in Seq(Contexts) /\ Len(outer) = n - 1 /\ loads \in Seq(Loads)
      /\ Len(loads) = n - 1
      /\ \A i \in 1 .. n - 1 : outer[i] = c.stack[i] /\ loads[i] = k.loads[i]
  <2> DEFINE st == c.stack
             lo == k.loads
  <2>1. st \in Seq(Contexts) /\ st # <<>> /\ lo \in Seq(Loads) /\ lo # <<>>
        /\ n = Len(st) /\ n = Len(lo)
    BY <1>1 DEF Cachers, SessionStates
  <2> HIDE DEF st, lo
  <2>2. /\ SubSeq(st, 1, Len(st) - 1) \in Seq(Contexts)
        /\ Len(SubSeq(st, 1, Len(st) - 1)) = Len(st) - 1
        /\ \A i \in 1 .. Len(st) - 1 : SubSeq(st, 1, Len(st) - 1)[i] = st[i]
    BY <2>1, Last
  <2>3. /\ SubSeq(lo, 1, Len(lo) - 1) \in Seq(Loads)
        /\ Len(SubSeq(lo, 1, Len(lo) - 1)) = Len(lo) - 1
        /\ \A i \in 1 .. Len(lo) - 1 : SubSeq(lo, 1, Len(lo) - 1)[i] = lo[i]
    BY <2>1, Last
  <2> QED BY <2>1, <2>2, <2>3 DEF st, lo
<1>3. ASSUME n = 1 PROVE c2.stack = <<>> /\ k2.loads = <<>>
  <2>1. Len(outer) = 0 /\ Len(loads) = 0
    BY <1>2, <1>3
  <2>2. outer = <<>> /\ loads = <<>>
    BY <1>2, <2>1, EmptySeq
  <2> QED BY <1>1, <2>2 DEF CompletedFrom, ReturnedFrom
<1>4. ASSUME n # 1
      PROVE  /\ Replaces(outer, c2.stack, Checkpointed(outer[n - 1], chain))
             /\ Replaces(loads, k2.loads, Onward(loads[n - 1]))
             /\ outer # <<>> /\ loads # <<>>
  <2> DEFINE m == n - 1
             top == Checkpointed(outer[m], chain)
             next == Onward(loads[m])
  <2>1. m \in Nat \ {0} /\ Len(outer) = m /\ Len(loads) = m
    BY <1>2, <1>4
  <2>2. outer # <<>> /\ loads # <<>> /\ outer[m] \in Contexts /\ loads[m] \in Loads
    <3>1. outer # <<>> /\ loads # <<>>
      BY <2>1
    <3> HIDE DEF m
    <3> QED BY <1>2, <2>1, <3>1, Last
  <2>3. top \in Contexts /\ next \in Loads
    BY <2>2, CheckpointedType, OnwardType
  <2>4. c2.stack = [outer EXCEPT ![m] = top] /\ k2.loads = [loads EXCEPT ![m] = next]
    BY <1>1, <2>2 DEF CompletedFrom, ReturnedFrom
  <2> HIDE DEF m, top, next
  <2>5. Replaces(outer, c2.stack, top) /\ Replaces(loads, k2.loads, next)
    <3>1. Replaces(outer, [outer EXCEPT ![Len(outer)] = top], top)
      BY <1>2, <2>2, <2>3, ReplacesTop
    <3>2. Replaces(loads, [loads EXCEPT ![Len(loads)] = next], next)
      BY <1>2, <2>2, <2>3, ReplacesTop
    <3> QED BY <2>1, <2>4, <3>1, <3>2
  <2> QED BY <2>2, <2>5 DEF m, top, next
<1> QED BY <1>1, <1>2, <1>3, <1>4 DEF EndedFrom

LEMMA EndedStands ==
  ASSUME NEW k \in SessionStates, NEW c \in Cachers, NEW d, NEW ctx, NEW load,
         AtEndOf(k, c, d, ctx, load),
         NEW k2, k2 = Returned(k, FALSE), NEW c2, c2 = Completed(c)
  PROVE  /\ Stands(k2, c2, d)
         /\ c2.job # NoJob => SoundRecording(c2.job.key, c2.job.rec)
<1> DEFINE n == Len(c.stack)
           chain == Append(c.chain, [file |-> ctx.hash, tc |-> ctx.tc])
           outer == SubSeq(c.stack, 1, n - 1)
           loads == SubSeq(k.loads, 1, n - 1)
<1>1. /\ n \in Nat \ {0} /\ n = Len(k.loads) /\ ctx = c.stack[n] /\ load = k.loads[n]
      /\ k.up /\ ctx \in KeyedContexts /\ load \in Loads /\ Level(ctx, load)
      /\ load.stage \in {"check", "eval"} /\ load.at = Len(ctx.hash) + 1
      /\ Stacked(c.stack, k.loads, n)
      /\ <<PlaceIn(ctx.key, c.chain, load.at), k.types>> \in Reach
      /\ c.stack \in Seq(Contexts) /\ k.loads \in Seq(Loads) /\ c.chain \in Chains
      /\ k.types \in Types
  BY DEF AtEndOf, Cachers, SessionStates
<1>2. /\ ctx.hash \in Forms /\ ctx.tc \in BOOLEAN /\ ctx.key \in Keys /\ ctx.keyed
      /\ ctx.key.content = ctx.hash /\ ctx.key.tc = ctx.tc /\ Len(ctx.hash) \in Nat
  BY <1>1, LenProperties DEF KeyedContexts, Level, Keyed, Forms
<1>3. /\ chain \in Chains /\ IsChain(chain) /\ chain = Append(c.chain, Ended(ctx.hash, ctx.tc))
  <2>1. [file |-> ctx.hash, tc |-> ctx.tc] \in [file : Forms, tc : BOOLEAN]
    BY <1>2
  <2>2. chain \in Chains
    BY <1>1, <2>1, AppendProperties DEF Chains
  <2> QED BY <1>1, <2>1, <2>2, HashOrChain DEF Ended
<1>a. load.at = Len(ctx.hash) + 1 /\ load.at > Len(ctx.hash)
  <2>1. load.at = Len(ctx.hash) + 1
    BY <1>1
  <2>2. Len(ctx.hash) \in Nat
    BY <1>2
  <2> QED BY <2>1, <2>2
<1>b. /\ n \in Nat \ {0} /\ n = Len(k.loads) /\ n # 0 /\ c.stack # <<>> /\ k.loads # <<>>
  <2>1. n \in Nat \ {0} /\ n = Len(k.loads)
    BY <1>1
  <2> QED BY <2>1
<1>c. ctx = c.stack[n] /\ ctx.keyed
  BY <1>1, <1>2
<1> HIDE DEF n, chain, outer, loads
<1>0. /\ n = Len(c.stack) /\ outer = SubSeq(c.stack, 1, n - 1)
      /\ loads = SubSeq(k.loads, 1, n - 1)
      /\ chain = Append(c.chain, [file |-> ctx.hash, tc |-> ctx.tc])
  BY DEF n, chain, outer, loads
<1>d. EndedFrom(k, k2, c, c2, n, ctx, chain, outer, loads)
  BY <1>0, <1>3, <1>b, <1>c, EndedMoves
<1>4. /\ CompletedFrom(c2, n, ctx, chain, outer) /\ ReturnedFrom(k, k2, n, loads)
      /\ n = 1 => c2.stack = <<>> /\ k2.loads = <<>>
      /\ n # 1 => /\ Replaces(outer, c2.stack, Checkpointed(outer[n - 1], chain))
                  /\ Replaces(loads, k2.loads, Onward(loads[n - 1]))
                  /\ outer # <<>> /\ loads # <<>>
  BY <1>d DEF EndedFrom
<1>5. /\ c2.chain = chain /\ k2.types = k.types /\ k2.up = k.up
      /\ c2.job # NoJob =>
           /\ ~ctx.replay /\ ~ctx.poisoned /\ c2.job.key = ctx.key
           /\ c2.job.rec.start = ctx.start /\ c2.job.rec.entries = ctx.entries
           /\ c2.job.rec.ckpt = ctx.ckpt
  BY <1>4 DEF CompletedFrom, ReturnedFrom
<1>6. /\ outer \in Seq(Contexts) /\ Len(outer) = n - 1 /\ loads \in Seq(Loads)
      /\ Len(loads) = n - 1
      /\ \A i \in 1 .. n - 1 : outer[i] = c.stack[i] /\ loads[i] = k.loads[i]
  BY <1>d DEF EndedFrom
<1>7. c2.job # NoJob => SoundRecording(c2.job.key, c2.job.rec)
  <2> SUFFICES ASSUME c2.job # NoJob PROVE SoundRecording(c2.job.key, c2.job.rec)
    OBVIOUS
  <2> DEFINE rec == c2.job.rec
  <2>1. /\ ~ctx.replay /\ ~ctx.poisoned /\ rec.start = ctx.start /\ rec.entries = ctx.entries
        /\ rec.ckpt = ctx.ckpt /\ c2.job.key = ctx.key
    BY <1>5
  <2> HIDE DEF rec
  <2>2. SoundRecording(ctx.key, rec)
    BY <1>a, <1>1, <2>1, RecordingSound
  <2> QED BY <2>1, <2>2 DEF rec
<1>8. CASE n = 1
  <2>2. c2.stack = <<>> /\ k2.loads = <<>>
    BY <1>4, <1>8
  <2>3. FramesOf(ctx.key.within) = <<>>
    <3>1. ctx.key.within = <<>> /\ ctx.key.within \in Withins
      BY <1>1, <1>2, <1>8 DEF Stacked, Keys
    <3> QED BY <3>1, FramesOfType
  <2>4. <<Place(c.chain, Append(<<>>, Frame(ctx.hash, ctx.tc, Len(ctx.hash) + 1))), k.types>>
          \in Reach
    BY <1>1, <1>2, <2>3 DEF PlaceIn
  <2>5. <<Place(chain, <<>>), k.types>> \in Reach
    BY <1>1, <1>2, <1>3, <2>4, ReachLeave
  <2>6. Len(c2.stack) = 0
    BY <2>2
  <2>7. PlaceOf(k2, c2) = Place(chain, <<>>)
    BY <1>5, <2>2 DEF PlaceOf
  <2>8. Stacked(c2.stack, k2.loads, 0)
    BY DEF Stacked
  <2>9. Standing(k2, c2, d)
    BY <1>5, <2>5, <2>6, <2>7, <2>8 DEF Standing
  <2> QED BY <1>7, <2>6, <2>9 DEF Stands, Blocked
<1>9. CASE n # 1
  <2> DEFINE m == n - 1
             around == c.stack[m]
             parent == k.loads[m]
             top == Checkpointed(around, chain)
             next == Onward(parent)
  <2>0. n \in Nat \ {0}
    BY <1>b
  <2>1. m \in Nat \ {0} /\ m \in 1 .. n /\ m + 1 = n /\ m \in 1 .. n - 1
    BY <1>9, <2>0
  <2>2. Level(around, parent) /\ Link(around, parent, ctx)
    BY <1>1, <2>1 DEF Stacked
  <2>3. around \in Contexts /\ parent \in Loads
    <3>1. m \in 1 .. Len(c.stack) /\ m \in 1 .. Len(k.loads)
      BY <1>0, <1>b, <2>1
    <3> HIDE DEF m
    <3> QED BY <1>1, <3>1, ElementOfSeq
  <2>4. around \in KeyedContexts
    BY <2>2, <2>3 DEF Contexts, UnkeyedContexts, Level, Keyed
  <2>5. outer # <<>> /\ loads # <<>> /\ outer[m] = around /\ loads[m] = parent
        /\ Len(outer) = m /\ Len(loads) = m
    BY <1>6, <2>1
  <2>6. Replaces(outer, c2.stack, top) /\ Replaces(loads, k2.loads, next)
    BY <1>4, <1>9, <2>5
  <2> HIDE DEF m, around, parent
  <2>7. /\ parent.stage = "nested" /\ parent.at <= Len(around.hash)
        /\ around.hash[parent.at].op = "load"
        /\ ctx.key.within = Append(around.key.within, <<around.hash, around.digest>>)
    BY <2>2 DEF Link
  <2>8. /\ top.key = around.key /\ top.hash = around.hash /\ top \in Contexts /\ next \in Loads
        /\ Level(top, next) /\ ChainHere(top, next, chain)
        /\ next.stage \in {"check", "eval"} /\ next.at = parent.at + 1
    BY <1>3, <2>2, <2>3, <2>4, <2>7, CheckpointedStands
  <2>9. /\ FrameOf(<<around.hash, around.digest>>) = Frame(around.hash, around.tc, parent.at)
        /\ parent.at \in 1 .. Len(around.hash)
    BY <2>2, <2>3, <2>4, <2>7, NestedFrame
  <2>10. /\ around.key.within \in Withins /\ <<around.hash, around.digest>> \in Forms \X Digests
         /\ around.hash \in Forms /\ around.tc \in BOOLEAN /\ around.key.content = around.hash
         /\ around.key.tc = around.tc
    BY <2>2, <2>4 DEF KeyedContexts, Keys, Level, Keyed
  <2>11. <<PlaceIn(around.key, chain, parent.at + 1), k.types>> \in Reach
    <3> DEFINE frames == FramesOf(around.key.within)
               hash == around.hash
               at == parent.at
               inner == ctx.hash
               itc == ctx.tc
               tc == around.tc
               before == c.chain
               types == k.types
    <3>1. FramesOf(ctx.key.within) = Append(frames, Frame(hash, tc, at))
          /\ frames \in Seq(Frames)
      BY <2>7, <2>9, <2>10, FramesOfType
    <3>2. <<Place(before, Append(Append(frames, Frame(hash, tc, at)),
                                 Frame(inner, itc, Len(inner) + 1))), types>> \in Reach
      BY <1>1, <1>2, <3>1 DEF PlaceIn
    <3>3. /\ before \in Chains /\ hash \in Forms /\ tc \in BOOLEAN /\ types \in Types
          /\ at \in 1 .. Len(hash) /\ hash[at].op = "load" /\ inner \in Forms
          /\ itc \in BOOLEAN
      BY <1>1, <1>2, <2>7, <2>9, <2>10
    <3> HIDE DEF frames, hash, at, inner, itc, tc, before, types
    <3>4. <<Place(Append(before, Ended(inner, itc)),
                  Append(frames, Frame(hash, tc, at + 1))), types>> \in Reach
      BY <3>1, <3>2, <3>3, ReachReturn
    <3> QED BY <1>3, <2>10, <3>4
          DEF PlaceIn, frames, hash, at, inner, itc, tc, before, types
  <2> HIDE DEF top, next
  <2>12. Fits(k2, c2, d, top, next)
    <3>1. FormAt(next) = parent.at + 1
      BY <2>8 DEF FormAt
    <3>2. top.key = around.key
      BY <2>8
    <3>3. AtTop(top, next, c2, d)
      BY <1>5, <2>8 DEF AtTop
    <3> QED BY <1>5, <2>8, <2>11, <3>1, <3>2, <3>3 DEF Fits
  <2>15. Stacked(outer, loads, m)
    <3> DEFINE st == c.stack
               lo == k.loads
    <3>1. /\ Stacked(st, lo, n) /\ n \in Nat /\ m \in 1 .. n
          /\ \A i \in 1 .. m - 1 : outer[i] = st[i] /\ loads[i] = lo[i]
      <4>1. Stacked(st, lo, n)
        BY <1>1
      <4>2. \A i \in 1 .. n - 1 : outer[i] = st[i] /\ loads[i] = lo[i]
        BY <1>6
      <4> HIDE DEF st, lo
      <4>3. m \in 1 .. n - 1 /\ m \in 1 .. n /\ n \in Nat
        BY <2>0, <2>1
      <4>4. \A i \in 1 .. m - 1 : i \in 1 .. n - 1
        BY <4>3
      <4> QED BY <4>1, <4>2, <4>3, <4>4
    <3>2. outer[m].key = st[m].key /\ Level(outer[m], loads[m])
      BY <2>2, <2>5 DEF around
    <3> HIDE DEF st, lo
    <3> QED BY <3>1, <3>2, Retopped
  <2> DEFINE c1 == [c EXCEPT !.stack = outer]
             k1 == [k EXCEPT !.loads = loads]
  <2>16. c1.stack = outer /\ k1.loads = loads
    BY DEF Cachers, SessionStates
  <2> HIDE DEF k1, c1
  <2>17. TopMoves(k1, c1, k2, c2, top, next)
    BY <2>1, <2>5, <2>6, <2>8, <2>15, <2>16 DEF TopMoves
  <2>18. Stands(k2, c2, d)
    BY <2>12, <2>17, TopStands
  <2> QED BY <1>7, <2>18
<1> QED BY <1>8, <1>9

LEMMA FinishStands ==
  ASSUME TypeOK, NEW s \in Sessions, Finish(s), Stands(session[s], cacher[s], disk)
  PROVE  /\ Stands(session'[s], cacher'[s], disk)
         /\ cacher'[s].job # NoJob => SoundRecording(cacher'[s].job.key, cacher'[s].job.rec)
<1> DEFINE ctx == Context1(s)
           load == Now(s)
           c == cacher[s]
           k == session[s]
           c2 == cacher'[s]
           k2 == session'[s]
<1>1. /\ Loading(s) /\ k.loads # <<>> /\ load.stage \in {"check", "eval"} /\ ~More(s)
      /\ k.up
  BY DEF Finish, EndLoad, Loading
<1>2. /\ Depth(s) \in Nat \ {0} /\ load \in Loads /\ k \in SessionStates /\ c \in Cachers
      /\ Depth(s) = Len(k.loads) /\ Depth(s) = Len(c.stack)
      /\ load = k.loads[Depth(s)] /\ ctx = c.stack[Depth(s)]
  BY <1>1, InnermostLoad, SessionType DEF Stack, Depth
<1>3. /\ ctx \in KeyedContexts /\ Level(ctx, load) /\ AtTop(ctx, load, c, disk)
      /\ Stacked(c.stack, k.loads, Depth(s))
      /\ <<PlaceIn(ctx.key, c.chain, FormAt(load)), k.types>> \in Reach
  BY <1>1, InnermostLoad DEF Stack
<1>4. /\ Len(ctx.hash) \in Nat /\ load.forms = ctx.hash /\ FormAt(load) = load.at
      /\ load.at \in Nat \ {0} /\ load.at <= Len(ctx.hash) + 1
      /\ ChainHere(ctx, load, c.chain)
  BY <1>1, <1>2, <1>3, LenProperties
  DEF KeyedContexts, Level, Keyed, Staged, Loads, Forms, FormAt, AtTop
<1>5. load.at = Len(ctx.hash) + 1
  BY <1>1, <1>4 DEF More
<1>6. /\ c2 = Completed(c) /\ k2 = Returned(k, FALSE)
  BY DEF Finish, EndLoad, Begin, Caches, TypeOK
<1> HIDE DEF ctx, load, c, k, c2, k2
<1>7. AtEndOf(k, c, disk, ctx, load)
  BY <1>1, <1>2, <1>3, <1>4, <1>5 DEF AtEndOf
<1>8. Stands(k2, c2, disk) /\ (c2.job # NoJob => SoundRecording(c2.job.key, c2.job.rec))
  BY <1>2, <1>6, <1>7, EndedStands
<1> QED BY <1>8 DEF c2, k2

(* ---- every step of a session ------------------------------------------------------------------------ *)

\* What a session may count on: everyone stands soundly, and what is being
\* written and what the directory holds is sound.
Sound ==
  /\ \A s \in Sessions : Stands(session[s], cacher[s], disk)
  /\ \A s \in Sessions : Job(s) # NoJob => SoundRecording(Job(s).key, Job(s).rec)
  /\ FilesSound

LEMMA FreshStands ==
  ASSUME NEW tc, NEW d
  PROVE  Stands(Fresh(tc), Idle, d) /\ Stands(Down, Idle, d)
<1> DEFINE k == Fresh(tc)
<1>1. /\ Idle.stack = <<>> /\ Idle.chain = <<>> /\ Len(Idle.stack) = 0
  BY DEF Idle
<1>2. k.types = NoTypes
  BY DEF Fresh, NoTypes
<1> HIDE DEF k
<1>3. PlaceOf(k, Idle) = Nowhere
  BY <1>1 DEF PlaceOf, Nowhere
<1>4. <<PlaceOf(k, Idle), k.types>> \in Reach
  BY <1>2, <1>3, ReachStep DEF Closed
<1>5. Stacked(Idle.stack, k.loads, 0)
  BY DEF Stacked
<1>6. Stands(k, Idle, d)
  BY <1>1, <1>4, <1>5 DEF Stands, Blocked, Standing
<1>7. ~Down.up
  BY DEF Down, Fresh
<1>8. Stands(Down, Idle, d)
  <2> DEFINE down == Down
  <2>1. ~down.up
    BY <1>7
  <2> HIDE DEF down
  <2>2. Stands(down, Idle, d)
    BY <2>1 DEF Stands, Blocked, Alive
  <2> QED BY <2>2 DEF down
<1> QED BY <1>6, <1>8 DEF k

\* A session stands soundly whatever it writes.
LEMMA StandsSame ==
  ASSUME NEW k, NEW c, NEW c2, NEW d, Stands(k, c, d),
         c2.stack = c.stack, c2.chain = c.chain, c2.gensym = c.gensym
  PROVE  Stands(k, c2, d)
<1>1. /\ PlaceOf(k, c2) = PlaceOf(k, c)
      /\ \A ctx, load : AtTop(ctx, load, c, d) => AtTop(ctx, load, c2, d)
  BY DEF PlaceOf, AtTop
<1>2. Standing(k, c, d) => Standing(k, c2, d)
  BY <1>1 DEF Standing
<1> QED BY <1>2 DEF Stands, Blocked, Alive

\* Nor does an edit matter to it, of a file that it is not about to read.
LEMMA EditStands ==
  ASSUME TypeOK, NEW s \in Sessions, NEW f \in Files, ~Reading(f), Edit(f),
         Stands(session[s], cacher[s], disk)
  PROVE  Stands(session[s], cacher[s], disk')
<1> DEFINE k == session[s]
           c == cacher[s]
           n == Len(c.stack)
           load == k.loads[n]
           ctx == c.stack[n]
<1>1. k.up /\ n # 0 /\ load.stage = "read" => disk'[load.file] = disk[load.file]
  <2> SUFFICES ASSUME k.up, n # 0, load.stage = "read"
               PROVE  disk'[load.file] = disk[load.file]
    OBVIOUS
  <2>1. n = Len(k.loads) /\ k.loads # <<>>
    BY SessionType
  <2>2. load = Now(s)
    BY <2>1 DEF Now
  <2>3. Loading(s)
    BY <2>1 DEF Loading
  <2>4. load.file # f
    BY <2>2, <2>3 DEF Reading, AtStage
  <2>5. load.file \in Files
    BY <2>2, <2>3, NowType DEF Loads
  <2> HIDE DEF load
  <2> QED BY <2>4, <2>5 DEF Edit, TypeOK
<1> HIDE DEF k, c
<1>2. Blocked(k, c, disk')
  BY <1>1 DEF Blocked, Stands, k, c
<1>3. ASSUME Standing(k, c, disk), k.up
      PROVE  Standing(k, c, disk')
  <2>1. n # 0 => AtTop(ctx, load, c, disk')
    BY <1>1, <1>3 DEF Standing, AtTop
  <2> QED BY <1>3, <2>1 DEF Standing
<1>4. Alive(k, c) => k.up
  BY DEF Alive
<1>5. Stands(k, c, disk) => Stands(k, c, disk')
  BY <1>2, <1>3, <1>4 DEF Stands
<1> QED BY <1>5 DEF k, c

\* A step of one session leaves the others as they stand.
LEMMA SessionSound ==
  ASSUME TypeOK, Sound, NEW s \in Sessions, NEW k, NEW c,
         Begin(s, k), Caches(s, c), UNCHANGED disk,
         Stands(session'[s], cacher'[s], disk),
         cacher'[s].job # NoJob => SoundRecording(cacher'[s].job.key, cacher'[s].job.rec)
  PROVE  Sound'
<1>1. /\ \A t \in Sessions \ {s} : session'[t] = session[t] /\ cacher'[t] = cacher[t]
      /\ dir' = dir /\ inodes' = inodes /\ disk' = disk
  BY DEF Begin, Caches, TypeOK
<1>2. ASSUME NEW t \in Sessions
      PROVE  Stands(session'[t], cacher'[t], disk')
  BY <1>1 DEF Sound
<1>3. ASSUME NEW t \in Sessions, Job(t)' # NoJob
      PROVE  SoundRecording(Job(t)'.key, Job(t)'.rec)
  <2>1. CASE t = s
    BY <1>3, <2>1 DEF Job
  <2>2. CASE t # s
    <3>1. Job(t)' = Job(t)
      BY <1>1, <2>2 DEF Job
    <3>2. Job(t) # NoJob => SoundRecording(Job(t).key, Job(t).rec)
      BY DEF Sound
    <3> QED BY <1>3, <3>1, <3>2
  <2> QED BY <2>1, <2>2
<1>4. FilesSound'
  BY <1>1 DEF Sound, FilesSound
<1> QED BY <1>2, <1>3, <1>4 DEF Sound

\* A recording that a session was writing, or none, is no new one.
LEMMA KeptJob ==
  ASSUME Sound, NEW s \in Sessions, NEW c, c.job \in {cacher[s].job, NoJob}
  PROVE  c.job # NoJob => SoundRecording(c.job.key, c.job.rec)
BY DEF Sound, Job

LEMMA StartSound ==
  ASSUME TypeOK, Sound, NEW s \in Sessions, Start(s) \/ Stop(s)
  PROVE  Sound'
<1>1. PICK k : Begin(s, k) /\ Caches(s, Idle) /\ UNCHANGED disk
               /\ \/ k = Down
                  \/ \E tc : k = Fresh(tc)
  BY DEF Start, Stop, StartSession, Crash
<1>2. session'[s] = k /\ cacher'[s] = Idle
  BY <1>1 DEF Begin, Caches, TypeOK
<1>3. Stands(session'[s], cacher'[s], disk)
  BY <1>1, <1>2, FreshStands
<1>4. cacher'[s].job = NoJob
  BY <1>2 DEF Idle
<1> DEFINE c == Idle
<1>5. Caches(s, c)
  BY <1>1
<1> HIDE DEF c
<1> QED BY <1>1, <1>3, <1>4, <1>5, SessionSound

LEMMA LoadTopSound ==
  ASSUME TypeOK, Sound, NEW s \in Sessions, NEW f \in Files, LoadTop(s, f)
  PROVE  Sound'
<1> DEFINE k == Begun(s, f)
           c == Entered(cacher[s], disk[f], session[s].tc)
<1>1. Begin(s, k) /\ Caches(s, c) /\ UNCHANGED disk
  BY DEF LoadTop, LoadFile
<1>2. Stands(session'[s], cacher'[s], disk)
  BY LoadTopStands DEF Sound
<1>3. c.job = cacher[s].job
  BY ContentType, SessionType, EnteredType DEF SessionStates
<1> HIDE DEF k, c
<1>4. cacher'[s] = c
  BY <1>1 DEF Caches, TypeOK
<1>5. cacher'[s].job # NoJob => SoundRecording(cacher'[s].job.key, cacher'[s].job.rec)
  BY <1>3, <1>4, KeptJob
<1> QED BY <1>1, <1>2, <1>5, SessionSound

LEMMA ReadSound ==
  ASSUME TypeOK, Sound, NEW s \in Sessions, Read(s)
  PROVE  Sound'
<1>1. PICK k, c : Begin(s, k) /\ Caches(s, c) /\ c = [cacher[s] EXCEPT !.stack = c.stack,
                                                                      !.gensym = c.gensym]
  <2> DEFINE forms == disk[Now(s).file]
             spent == IF forms = Missing THEN 0 ELSE CostOfRead(forms, Now(s).tc)
             stack == [Stack(s) EXCEPT ![Depth(s)].readAt = cacher[s].gensym]
             gensym == cacher[s].gensym + spent
             c == [cacher[s] EXCEPT !.stack = stack, !.gensym = gensym]
  <2>1. Begin(s, AfterRead(s)) /\ Caches(s, c)
    BY DEF Read, ReadForms, Stack
  <2> HIDE DEF stack, gensym
  <2>2. c.stack = stack /\ c.gensym = gensym
    BY SessionType DEF Cachers
  <2>3. c = [cacher[s] EXCEPT !.stack = c.stack, !.gensym = c.gensym]
    BY <2>2
  <2> HIDE DEF c
  <2> QED BY <2>1, <2>3
<1>2. Stands(session'[s], cacher'[s], disk) /\ UNCHANGED disk
  BY ReadStands DEF Sound, Read, ReadForms, Working
<1>3. cacher'[s] = c
  BY <1>1 DEF Caches, TypeOK
<1>4. c.job = cacher[s].job
  BY <1>1, SessionType DEF Cachers
<1>5. cacher'[s].job # NoJob => SoundRecording(cacher'[s].job.key, cacher'[s].job.rec)
  BY <1>3, <1>4, KeptJob
<1> QED BY <1>1, <1>2, <1>5, SessionSound

LEMMA TypecheckSound ==
  ASSUME TypeOK, Sound, NEW s \in Sessions, TypecheckForm(s)
  PROVE  Sound' /\ CheckForm(s)
<1> DEFINE answer == Checking(cacher[s], FormNow(s), session[s].types)
           k == AfterCheck(s, answer.verdict)
           c == answer.cacher
<1>1. Begin(s, k) /\ Caches(s, c) /\ UNCHANGED disk
  BY DEF TypecheckForm, Working
<1>2. Stands(session'[s], cacher'[s], disk) /\ CheckForm(s)
  BY TypecheckStands, CheckMoves DEF Sound
<1>3. c.job = cacher[s].job
  <2>1. Loading(s) /\ More(s) /\ session[s].loads # <<>>
    BY DEF TypecheckForm, AtStage, Loading
  <2> QED BY <2>1, SessionType, FormType, CheckingType DEF SessionStates
<1> HIDE DEF k, c
<1>4. cacher'[s] = c
  BY <1>1 DEF Caches, TypeOK
<1>5. cacher'[s].job # NoJob => SoundRecording(cacher'[s].job.key, cacher'[s].job.rec)
  BY <1>3, <1>4, KeptJob
<1> QED BY <1>1, <1>2, <1>5, SessionSound

LEMMA EvaluateSound ==
  ASSUME TypeOK, Sound, NEW s \in Sessions, Evaluate(s)
  PROVE  Sound'
<1> DEFINE form == FormNow(s)
           spent == [cacher[s] EXCEPT !.gensym = @ + CostOfEval(form)]
           c == IF form.op = "load" THEN Entered(spent, disk[form.file], session[s].tc)
                ELSE spent
           k == AfterEval(s)
<1>1. Begin(s, k) /\ Caches(s, c) /\ UNCHANGED disk
  BY DEF Evaluate, EvalForm, Working
<1>2. Stands(session'[s], cacher'[s], disk)
  BY EvaluateStands, NestedStands DEF Sound
<1>3. c.job = cacher[s].job
  <2>1. Loading(s) /\ More(s)
    BY DEF Evaluate, EvalForm, AtStage
  <2>2. form \in Form /\ session[s] \in SessionStates /\ cacher[s] \in Cachers
    BY <2>1, FormType, SessionType
  <2>3. form.op = "load" => form.file \in Files
    BY <2>2 DEF Form
  <2>4. spent \in Cachers /\ spent.job = cacher[s].job
    <3>1. cacher[s].gensym + CostOfEval(form) \in Nat
      BY <2>2, CostType DEF Cachers
    <3> HIDE DEF form
    <3> QED BY <2>2, <3>1 DEF Cachers
  <2>5. session[s].tc \in BOOLEAN
    BY <2>2 DEF SessionStates
  <2> HIDE DEF spent, form
  <2>6. CASE form.op = "load"
    BY <2>3, <2>4, <2>5, <2>6, ContentType, EnteredType
  <2>7. CASE form.op # "load"
    BY <2>4, <2>7
  <2> QED BY <2>6, <2>7
<1> HIDE DEF k, c
<1>4. cacher'[s] = c
  BY <1>1 DEF Caches, TypeOK
<1>5. cacher'[s].job # NoJob => SoundRecording(cacher'[s].job.key, cacher'[s].job.rec)
  BY <1>3, <1>4, KeptJob
<1> QED BY <1>1, <1>2, <1>5, SessionSound

LEMMA FinishSound ==
  ASSUME TypeOK, Sound, NEW s \in Sessions, Finish(s)
  PROVE  Sound'
<1> DEFINE k == Returned(session[s], FALSE)
           c == Completed(cacher[s])
<1>1. Begin(s, k) /\ Caches(s, c) /\ UNCHANGED disk
  BY DEF Finish, EndLoad, Working
<1>2. /\ Stands(session'[s], cacher'[s], disk)
      /\ cacher'[s].job # NoJob => SoundRecording(cacher'[s].job.key, cacher'[s].job.rec)
  BY FinishStands DEF Sound
<1> HIDE DEF k, c
<1> QED BY <1>1, <1>2, SessionSound

\* An edit, of a file that no session is about to read.
LEMMA EditSound ==
  ASSUME TypeOK, Sound, NEW f \in Files, EditFile(f), ~Reading(f)
  PROVE  Sound'
<1>1. ~Reading(f) /\ Edit(f) /\ UNCHANGED <<session, cacher, dir, inodes>>
  BY DEF EditFile, Edit
<1>2. ASSUME NEW s \in Sessions
      PROVE  Stands(session[s], cacher[s], disk')
  BY <1>1, EditStands DEF Sound
<1>3. \A s \in Sessions : Stands(session'[s], cacher'[s], disk')
  BY <1>1, <1>2
<1>4. FilesSound'
  BY <1>1 DEF Sound, FilesSound
<1>5. \A s \in Sessions : Job(s)' # NoJob => SoundRecording(Job(s)'.key, Job(s)'.rec)
  BY <1>1 DEF Sound, Job
<1> QED BY <1>3, <1>4, <1>5 DEF Sound

(* ---- a recording is written ------------------------------------------------------------------------- *)

LEMMA WritingKeeps ==
  ASSUME TypeOK, NEW s \in Sessions, WriteStep(s), NEW t \in Sessions
  PROVE  /\ cacher'[t].stack = cacher[t].stack /\ cacher'[t].chain = cacher[t].chain
         /\ cacher'[t].gensym = cacher[t].gensym
<1>1. JobDone(s) \/ \E stage, inode : JobAt(s, stage, inode)
  <2>1. CASE OpenTmp(s)
    BY <2>1 DEF OpenTmp
  <2>2. CASE WriteTmp(s)
    BY <2>2 DEF WriteTmp
  <2>3. CASE Rename(s)
    BY <2>3 DEF Rename
  <2>4. CASE RemoveTmp(s)
    BY <2>4 DEF RemoveTmp
  <2> QED BY <2>1, <2>2, <2>3, <2>4 DEF WriteStep
<1>2. cacher \in [Sessions -> Cachers]
  BY DEF TypeOK
<1>3. CASE JobDone(s)
  BY <1>2, <1>3 DEF JobDone, Cachers
<1>4. CASE \E stage, inode : JobAt(s, stage, inode)
  <2>1. PICK stage, inode : JobAt(s, stage, inode)
    BY <1>4
  <2> DEFINE job == [[cacher[s].job EXCEPT !.stage = stage] EXCEPT !.inode = inode]
  <2>2. cacher' = [cacher EXCEPT ![s].job = job]
    BY <1>2, <2>1 DEF JobAt
  <2> HIDE DEF job
  <2> QED BY <1>2, <2>2 DEF Cachers
<1> QED BY <1>1, <1>3, <1>4

LEMMA WritingStands ==
  ASSUME TypeOK, Sound, NEW s \in Sessions, WriteStep(s)
  PROVE  \A t \in Sessions : Stands(session'[t], cacher'[t], disk')
<1>1. disk' = disk /\ session' = session
  BY DEF WriteStep, OpenTmp, WriteTmp, Rename, RemoveTmp, Elsewhere
<1>2. ASSUME NEW t \in Sessions
      PROVE  Stands(session'[t], cacher'[t], disk')
  <2> DEFINE k == session[t]
             c == cacher[t]
             c2 == cacher'[t]
  <2>1. /\ Stands(k, c, disk) /\ c2.stack = c.stack /\ c2.chain = c.chain
        /\ c2.gensym = c.gensym
    BY WritingKeeps DEF Sound
  <2> HIDE DEF k, c, c2
  <2>2. Stands(k, c2, disk)
    BY <2>1, StandsSame
  <2> QED BY <1>1, <2>2 DEF k, c2
<1> QED BY <1>2

\* What is being written stays what the session recorded.
LEMMA WritingMoves ==
  ASSUME TypeOK, NEW s \in Sessions, WriteStep(s), NEW t \in Sessions, Job(t)' # NoJob
  PROVE  Job(t) # NoJob /\ Job(t)'.key = Job(t).key /\ Job(t)'.rec = Job(t).rec
<1>1. ~Free(s)
  BY DEF WriteStep, OpenTmp, WriteTmp, Rename, RemoveTmp, Writing
<1>2. \/ JobMoves(s, NoJob)
      \/ \E stage \in {"write", "rename", "remove"}, inode \in Nat :
           JobMoves(s, JobOn(s, stage, inode))
  <2>1. CASE OpenTmp(s)
    <3>1. PICK i \in 1 .. Len(inodes) + 1 : JobMoves(s, JobOn(s, "write", i))
      BY <2>1, OpenTmpType
    <3>2. i \in Nat
      OBVIOUS
    <3> QED BY <3>1, <3>2
  <2>2. CASE WriteTmp(s)
    <3>1. JobMoves(s, JobOn(s, "rename", Job(s).inode))
      BY <2>2, WriteTmpType
    <3>2. Job(s).inode \in Nat
      BY <2>2, HoldingType DEF WriteTmp, Writing, Holding
    <3> QED BY <3>1, <3>2
  <2>3. CASE Rename(s)
    <3>1. Job(s).inode \in Nat
      BY <1>1, WritingType DEF Jobs
    <3> QED BY <2>3, <3>1, RenameType
  <2>4. CASE RemoveTmp(s)
    BY <2>4, RemoveTmpType
  <2> QED BY <2>1, <2>2, <2>3, <2>4 DEF WriteStep
<1>3. /\ Job(s)' = NoJob \/ (Job(s)'.key = Job(s).key /\ Job(s)'.rec = Job(s).rec)
      /\ \A u \in Sessions \ {s} : Job(u)' = Job(u)
  BY <1>1, <1>2, JobOnHolds, JobDoneHolds
<1> QED BY <1>1, <1>3 DEF Free, Job

LEMMA WritingJobs ==
  ASSUME TypeOK, Sound, NEW s \in Sessions, WriteStep(s)
  PROVE  \A t \in Sessions : Job(t)' # NoJob => SoundRecording(Job(t)'.key, Job(t)'.rec)
BY WritingMoves DEF Sound

\* Every file is torn, or holds what a file of its key held, or what the session
\* writes under its key.
LEMMA WrittenFiles ==
  ASSUME TypeOK, TypeOK', FilesOwned, NEW s \in Sessions, WriteStep(s),
         NEW p \in DOMAIN dir', inodes'[dir'[p]] # Torn
  PROVE  \/ \E q \in DOMAIN dir : q[2] = p[2] /\ inodes'[dir'[p]] = inodes[dir[q]]
         \/ ~Free(s) /\ p[2] = Job(s).key /\ inodes'[dir'[p]] = Job(s).rec
<1>1. CASE OpenTmp(s)
  <2> DEFINE tmp == TmpFile(Job(s).key)
  <2>1. PICK i \in 1 .. Len(inodes) + 1 :
          /\ inodes'[i] = Torn
          /\ \A n \in DOMAIN inodes' \ {i} : n \in DOMAIN inodes /\ inodes'[n] = inodes[n]
          /\ DOMAIN dir' = DOMAIN dir \cup {tmp}
          /\ \A r \in DOMAIN dir : dir'[r] = dir[r]
          /\ dir'[tmp] = i
    BY <1>1, OpenTmpType
  <2>2. dir'[p] # i /\ p # tmp /\ p \in DOMAIN dir /\ dir'[p] = dir[p]
    BY <2>1
  <2>3. dir'[p] \in DOMAIN inodes'
    BY LenProperties DEF TypeOK
  <2>4. inodes'[dir'[p]] = inodes[dir[p]]
    BY <2>1, <2>2, <2>3
  <2> QED BY <2>2, <2>4
<1>2. CASE WriteTmp(s)
  <2> DEFINE i == Job(s).inode
             rec == Job(s).rec
  <2>1. i \in DOMAIN inodes /\ inodes' = [inodes EXCEPT ![i] = rec] /\ dir' = dir
    BY <1>2, WriteTmpType
  <2>2. Holding(s) /\ ~Free(s)
    BY <1>2 DEF WriteTmp, Writing, Holding
  <2>3. CASE dir[p] = i
    BY <2>1, <2>2, <2>3 DEF FilesOwned
  <2>4. CASE dir[p] # i
    BY <2>1, <2>4
  <2> QED BY <2>3, <2>4
<1>3. CASE Rename(s)
  <2> DEFINE tmp == TmpFile(Job(s).key)
             final == TcFile(Job(s).key)
  <2>1. /\ inodes' = inodes
        /\ \/ /\ tmp \in DOMAIN dir
              /\ DOMAIN dir' = (DOMAIN dir \ {tmp}) \cup {final} /\ dir'[final] = dir[tmp]
              /\ \A q \in DOMAIN dir' \ {final} : dir'[q] = dir[q]
           \/ dir' = dir
    BY <1>3, RenameType
  <2>2. tmp[2] = final[2]
    BY DEF TmpFile, TcFile
  <2>3. \E q \in DOMAIN dir : q[2] = p[2] /\ dir'[p] = dir[q]
    <3>1. CASE dir' = dir
      BY <3>1
    <3>2. CASE dir' # dir
      BY <2>1, <2>2, <3>2
    <3> QED BY <3>1, <3>2
  <2> QED BY <2>1, <2>3
<1>4. CASE RemoveTmp(s)
  <2>1. inodes' = inodes /\ DOMAIN dir' \subseteq DOMAIN dir
        /\ \A q \in DOMAIN dir' : dir'[q] = dir[q]
    BY <1>4, RemoveTmpType
  <2> QED BY <2>1
<1> QED BY <1>1, <1>2, <1>3, <1>4 DEF WriteStep

\* The directory holds sound recordings only, torn ones apart.
LEMMA WritingFiles ==
  ASSUME TypeOK, TypeOK', FilesOwned, Sound, NEW s \in Sessions, WriteStep(s)
  PROVE  FilesSound'
<1>1. ASSUME NEW p \in DOMAIN dir', inodes'[dir'[p]] # Torn
      PROVE  SoundRecording(p[2], inodes'[dir'[p]])
  <2>1. \/ \E q \in DOMAIN dir : q[2] = p[2] /\ inodes'[dir'[p]] = inodes[dir[q]]
        \/ ~Free(s) /\ p[2] = Job(s).key /\ inodes'[dir'[p]] = Job(s).rec
    BY <1>1, WrittenFiles
  <2>2. ~Free(s) => SoundRecording(Job(s).key, Job(s).rec)
    BY DEF Sound, Free, Job
  <2> QED BY <1>1, <2>1, <2>2 DEF Sound, FilesSound
<1> QED BY <1>1 DEF FilesSound

LEMMA WriteSound ==
  ASSUME TypeOK, TypeOK', FilesOwned, Sound, NEW s \in Sessions, WriteStep(s)
  PROVE  Sound'
<1>1. \A t \in Sessions : Stands(session[t], cacher[t], disk)'
  BY WritingStands
<1> QED BY <1>1, WritingJobs, WritingFiles DEF Sound

(* ---- a replay is sound ------------------------------------------------------------------------------ *)

LEMMA SoundInit ==
  ASSUME Init
  PROVE  Sound
<1>1. \A s \in Sessions : session[s] = Down /\ cacher[s] = Idle
  BY DEF Init, LoadInit
<1>2. \A s \in Sessions : Stands(session[s], cacher[s], disk)
  BY <1>1, FreshStands
<1>3. \A s \in Sessions : Job(s) = NoJob
  BY <1>1 DEF Idle, Job
<1>4. FilesSound
  BY DEF Init, FilesSound
<1> QED BY <1>2, <1>3, <1>4 DEF Sound

\* No file changes between its hash and its read.
EditsApart == \A f \in Files : EditFile(f) => ~Reading(f)

\* A load that fails is trapped by no form: it fails the loads around it too, and
\* leaves its session at the prompt with the types that its completed loads tell.
Untouched(s) ==
  IF session[s].loads = <<>> THEN <<Place(cacher[s].chain, <<>>), session[s].types>> \in Reach
  ELSE Now(s).stage = "failed"
FailuresLeaveNoTrace == \A s \in Sessions : GiveUp(s) => Untouched(s)'

LEMMA GiveUpSound ==
  ASSUME TypeOK, Sound, NEW s \in Sessions, GiveUp(s), Untouched(s)'
  PROVE  Sound'
<1> DEFINE k == AfterFail(s)
           c == Abandoned(cacher[s])
           k2 == session'[s]
           c2 == cacher'[s]
<1>1. Begin(s, k) /\ Caches(s, c) /\ UNCHANGED disk
  BY DEF GiveUp, FailLoad, Working
<1>2. c.job = cacher[s].job
  <2>1. session[s].loads # <<>>
    BY DEF GiveUp, FailLoad, AtStage, Loading
  <2> QED BY <2>1, SessionType, AbandonedType
<1>3. TypeOK'
  <2>1. [Next]_vars
    BY DEF Next
  <2> QED BY <2>1, NextType
<1>4. /\ Len(c2.stack) = Len(k2.loads) /\ c2.stack \in Seq(Contexts)
      /\ k2.loads \in Seq(Loads)
      /\ IF k2.loads = <<>> THEN <<Place(c2.chain, <<>>), k2.types>> \in Reach
         ELSE k2.loads[Len(k2.loads)].stage = "failed"
  BY <1>3 DEF TypeOK, Depth, Stack, Cachers, SessionStates, Untouched, Now
<1> HIDE DEF k, c
<1>5. c2 = c
  BY <1>1 DEF Caches, TypeOK
<1> HIDE DEF k2, c2
<1>6. Stands(k2, c2, disk)
  <2>1. CASE k2.loads = <<>>
    <3>1. Len(c2.stack) = 0
      BY <1>4, <2>1
    <3>2. c2.stack = <<>>
      BY <1>4, <3>1, NoLast
    <3>3. Stacked(c2.stack, k2.loads, 0)
      BY DEF Stacked
    <3> QED BY <1>4, <2>1, <3>1, <3>2, <3>3 DEF Stands, Blocked, Standing, PlaceOf
  <2>2. CASE k2.loads # <<>>
    <3>1. Len(k2.loads) # 0
      BY <1>4, <2>2, NoLast
    <3> QED BY <1>4, <2>2, <3>1, FailedStands
  <2> QED BY <2>1, <2>2
<1>7. c2.job # NoJob => SoundRecording(c2.job.key, c2.job.rec)
  BY <1>2, <1>5, KeptJob
<1> QED BY <1>1, <1>6, <1>7, SessionSound DEF k2, c2

LEMMA SoundStep ==
  ASSUME TypeOK, TypeOK', FilesOwned, Sound, [Next]_vars,
         [EditsApart /\ FailuresLeaveNoTrace]_vars
  PROVE  Sound' /\ [LoadNext]_<<disk, session, moves>>
<1>1. CASE UNCHANGED vars
  <2>1. UNCHANGED <<disk, session, moves, cacher, dir, inodes>>
    BY <1>1 DEF vars
  <2>2. \A s \in Sessions : Stands(session'[s], cacher'[s], disk') /\ Job(s)' = Job(s)
    BY <2>1 DEF Sound, Job
  <2> QED BY <2>1, <2>2 DEF Sound, FilesSound
<1>2. CASE \E f \in Files : EditFile(f)
  <2>1. PICK f \in Files : EditFile(f) /\ Edit(f)
    BY <1>2 DEF EditFile
  <2>2. disk' # disk
    BY <2>1 DEF Edit, TypeOK
  <2>3. ~Reading(f)
    BY <2>1, <2>2 DEF vars, EditsApart
  <2> QED BY <2>1, <2>3, EditSound DEF LoadNext
<1>3. ASSUME NEW s \in Sessions, Start(s) \/ Stop(s)
      PROVE  Sound' /\ [LoadNext]_<<disk, session, moves>>
  <2>1. StartSession(s) \/ Crash(s)
    BY <1>3 DEF Start, Stop
  <2> QED BY <1>3, <2>1, StartSound DEF LoadNext
<1>4. ASSUME NEW s \in Sessions, NEW f \in Files, LoadTop(s, f)
      PROVE  Sound' /\ [LoadNext]_<<disk, session, moves>>
  <2>1. LoadFile(s, f)
    BY <1>4 DEF LoadTop
  <2> QED BY <1>4, <2>1, LoadTopSound DEF LoadNext
<1>5. ASSUME NEW s \in Sessions, Read(s)
      PROVE  Sound' /\ [LoadNext]_<<disk, session, moves>>
  <2>1. ReadForms(s)
    BY <1>5 DEF Read
  <2> QED BY <1>5, <2>1, ReadSound DEF LoadNext
<1>6. ASSUME NEW s \in Sessions, TypecheckForm(s)
      PROVE  Sound' /\ [LoadNext]_<<disk, session, moves>>
  BY <1>6, TypecheckSound DEF LoadNext
<1>7. ASSUME NEW s \in Sessions, Evaluate(s)
      PROVE  Sound' /\ [LoadNext]_<<disk, session, moves>>
  <2>1. EvalForm(s)
    BY <1>7 DEF Evaluate
  <2> QED BY <1>7, <2>1, EvaluateSound DEF LoadNext
<1>8. ASSUME NEW s \in Sessions, Finish(s)
      PROVE  Sound' /\ [LoadNext]_<<disk, session, moves>>
  <2>1. EndLoad(s)
    BY <1>8 DEF Finish
  <2> QED BY <1>8, <2>1, FinishSound DEF LoadNext
<1>9. ASSUME NEW s \in Sessions, WriteStep(s)
      PROVE  Sound' /\ [LoadNext]_<<disk, session, moves>>
  <2>1. UNCHANGED <<disk, session, moves>>
    BY <1>9 DEF WriteStep, OpenTmp, WriteTmp, Rename, RemoveTmp, Elsewhere
  <2> QED BY <1>9, <2>1, WriteSound
<1>10. ASSUME NEW s \in Sessions, GiveUp(s), ~UNCHANGED vars
       PROVE  Sound' /\ [LoadNext]_<<disk, session, moves>>
  <2>1. FailLoad(s) /\ Untouched(s)'
    BY <1>10 DEF GiveUp, FailuresLeaveNoTrace
  <2> QED BY <1>10, <2>1, GiveUpSound DEF LoadNext
<1> QED BY <1>1, <1>2, <1>3, <1>4, <1>5, <1>6, <1>7, <1>8, <1>9, <1>10 DEF Next, WriteStep

\* The verdicts that sessions are served are those of the typechecker, whoever
\* recorded them and however the sessions interleave, crash and write: each step
\* of the sessions with the cache is a step of sessions without one ("Same key =>
\* same environment => replay is sound", tc_cache.rs:50).  No file may change
\* between its hash and its read, and a load that fails must leave no trace.
THEOREM ReplayIsSound ==
  Spec /\ [][EditsApart /\ FailuresLeaveNoTrace]_vars => ImplementsLoad
<1>1. Init => TypeOK /\ FilesOwned /\ Sound /\ LoadInit
  BY InitType, FilesOwnedInit, SoundInit DEF Init
<1>2. TypeOK /\ FilesOwned /\ Sound /\ [Next]_vars
        /\ [EditsApart /\ FailuresLeaveNoTrace]_vars
        => TypeOK' /\ FilesOwned' /\ Sound' /\ [LoadNext]_<<disk, session, moves>>
  BY NextType, FilesOwnedStep, SoundStep
<1> QED BY <1>1, <1>2, PTL DEF Spec, ImplementsLoad, LoadSpec

\* Where no session gives a load up, and edits wait for reads, that is so in
\* every behaviour.
NoneGivesUp == \A s \in Sessions : ~GiveUp(s)

THEOREM ReplayIsSoundUnfailing ==
  ASSUME EditsAnyTime = FALSE
  PROVE  Spec /\ [][NoneGivesUp]_vars => ImplementsLoad
<1>1. [NoneGivesUp]_vars => [EditsApart /\ FailuresLeaveNoTrace]_vars
  BY DEF NoneGivesUp, EditsApart, FailuresLeaveNoTrace, EditFile
<1> QED BY <1>1, ReplayIsSound, PTL
=============================================================================
