-------------------------- MODULE SafepointsProofs --------------------------
(***************************************************************************)
(* Proofs about Safepoints, for any numbers of nodes, Interps and          *)
(* activations and any period of the poll.  A thread-local counter equals  *)
(* the number of frames whose guard counts, so the invariant counts flags  *)
(* on the stack and says which frames carry them.                          *)
(***************************************************************************)
EXTENDS Safepoints, FiniteSetTheorems, SequenceTheorems, TLAPS

Flags == {"guarded", "hazard", "counted"}

Flagged(fs, b) == {k \in DOMAIN fs : fs[k][b]}

(* ---- counting frames ------------------------------------------------------- *)

\* The flagged frames of a stack are finitely many.
LEMMA FlaggedFinite ==
  ASSUME NEW fs \in Seq(FrameType), NEW b \in Flags
  PROVE  IsFiniteSet(Flagged(fs, b)) /\ Cardinality(Flagged(fs, b)) \in Nat
<1>1. Len(fs) \in Nat /\ DOMAIN fs = 1 .. Len(fs)
  BY LenProperties
<1>2. IsFiniteSet(1 .. Len(fs))
  BY <1>1, FS_Interval
<1>3. Flagged(fs, b) \subseteq 1 .. Len(fs)
  BY <1>1 DEF Flagged
<1> QED BY <1>2, <1>3, FS_Subset, FS_CardinalityType

\* A frame pushed on the stack counts for itself.
LEMMA CountPush ==
  ASSUME NEW fs \in Seq(FrameType), NEW f \in FrameType, NEW b \in Flags
  PROVE  Cardinality(Flagged(Append(fs, f), b)) = Cardinality(Flagged(fs, b)) + One(f[b])
<1> DEFINE n == Len(fs) + 1
           gs == Append(fs, f)
<1>1. /\ Len(fs) \in Nat /\ DOMAIN fs = 1 .. Len(fs)
      /\ DOMAIN gs = 1 .. n /\ gs[n] = f
      /\ \A k \in 1 .. Len(fs) : gs[k] = fs[k]
  BY LenProperties, AppendProperties
<1>2. IsFiniteSet(Flagged(fs, b)) /\ n \notin Flagged(fs, b) /\ Cardinality(Flagged(fs, b)) \in Nat
  BY <1>1, FlaggedFinite DEF Flagged
<1>3. CASE f[b]
  <2>1. Flagged(gs, b) = Flagged(fs, b) \cup {n}
    BY <1>1, <1>3 DEF Flagged
  <2>2. Cardinality(Flagged(fs, b) \cup {n}) = Cardinality(Flagged(fs, b)) + 1
    BY <1>2, FS_AddElement
  <2> QED BY <2>1, <2>2, <1>3 DEF One
<1>4. CASE ~f[b]
  <2>1. Flagged(gs, b) = Flagged(fs, b)
    BY <1>1, <1>4 DEF Flagged
  <2> QED BY <2>1, <1>2, <1>4 DEF One
<1> QED BY <1>3, <1>4

\* A stack is the frames below its top, and its top.
LEMMA TopAndBelow ==
  ASSUME NEW fs \in Seq(FrameType), Len(fs) > 0, NEW f \in FrameType
  PROVE  LET below == SubSeq(fs, 1, Len(fs) - 1)
         IN /\ below \in Seq(FrameType) /\ Len(below) = Len(fs) - 1
            /\ \A k \in 1 .. Len(fs) - 1 : below[k] = fs[k]
            /\ fs = Append(below, fs[Len(fs)])
            /\ [fs EXCEPT ![Len(fs)] = f] = Append(below, f)
<1> DEFINE below == SubSeq(fs, 1, Len(fs) - 1)
<1>1. Len(fs) \in Nat /\ DOMAIN fs = 1 .. Len(fs) /\ \A k \in 1 .. Len(fs) : fs[k] \in FrameType
  BY LenProperties, ElementOfSeq
<1>2. /\ below \in Seq(FrameType) /\ Len(below) = Len(fs) - 1
      /\ \A k \in 1 .. Len(fs) - 1 : below[k] = fs[k]
  BY <1>1, SubSeqProperties
<1> HIDE DEF below
<1>3. ASSUME NEW g \in FrameType
      PROVE  /\ Append(below, g) \in Seq(FrameType)
             /\ Len(Append(below, g)) = Len(fs)
             /\ Append(below, g)[Len(fs)] = g
             /\ \A k \in 1 .. Len(fs) - 1 : Append(below, g)[k] = fs[k]
  <2>1. /\ Append(below, g) \in Seq(FrameType)
        /\ Len(Append(below, g)) = Len(below) + 1
        /\ Append(below, g)[Len(below) + 1] = g
        /\ \A k \in 1 .. Len(below) : Append(below, g)[k] = below[k]
    BY <1>2, AppendProperties
  <2> QED BY <1>1, <1>2, <2>1
<1>4. fs = Append(below, fs[Len(fs)])
  <2> DEFINE top == fs[Len(fs)]
             gs == Append(below, top)
  <2>0. top \in FrameType
    BY <1>1
  <2> HIDE DEF top
  <2>1. /\ gs \in Seq(FrameType) /\ Len(gs) = Len(fs)
        /\ gs[Len(fs)] = top
        /\ \A k \in 1 .. Len(fs) - 1 : gs[k] = fs[k]
    BY <1>3, <2>0
  <2> HIDE DEF gs
  <2>2. \A k \in 1 .. Len(fs) : fs[k] = gs[k]
    BY <1>1, <2>1 DEF top
  <2>3. fs = gs
    BY <2>1, <2>2, SeqEqual
  <2> QED BY <2>3 DEF gs, top
<1>5. [fs EXCEPT ![Len(fs)] = f] = Append(below, f)
  <2>0. Len(fs) \in 1 .. Len(fs)
    BY <1>1
  <2>1. /\ [fs EXCEPT ![Len(fs)] = f] \in Seq(FrameType)
        /\ Len([fs EXCEPT ![Len(fs)] = f]) = Len(fs)
        /\ \A k \in 1 .. Len(fs) : [fs EXCEPT ![Len(fs)] = f][k] = IF k = Len(fs) THEN f ELSE fs[k]
    BY <2>0, ExceptSeq
  <2> DEFINE hs == [fs EXCEPT ![Len(fs)] = f]
             gs == Append(below, f)
  <2>2. \A k \in 1 .. Len(fs) : hs[k] = gs[k]
    <3>1. /\ gs[Len(fs)] = f
          /\ \A k \in 1 .. Len(fs) - 1 : gs[k] = fs[k]
      BY <1>3
    <3>2. \A k \in 1 .. Len(fs) : hs[k] = IF k = Len(fs) THEN f ELSE fs[k]
      BY <2>1
    <3> HIDE DEF gs, hs
    <3>3. \A m \in Nat : \A k \in 1 .. m : k = m \/ k \in 1 .. m - 1
      OBVIOUS
    <3>4. \A k \in 1 .. Len(fs) : k = Len(fs) \/ (k \in 1 .. Len(fs) - 1 /\ k # Len(fs))
      BY <1>1, <3>3
    <3> QED BY <3>1, <3>2, <3>4
  <2>3. hs \in Seq(FrameType) /\ gs \in Seq(FrameType) /\ Len(hs) = Len(fs) /\ Len(gs) = Len(fs)
    BY <1>3, <2>1
  <2> HIDE DEF hs, gs
  <2>4. hs = gs
    BY <2>2, <2>3, SeqEqual
  <2> QED BY <2>4 DEF hs, gs
<1> QED BY <1>2, <1>4, <1>5 DEF below

\* A frame popped from the stack no longer counts.
LEMMA CountPop ==
  ASSUME NEW fs \in Seq(FrameType), Len(fs) > 0, NEW b \in Flags
  PROVE  Cardinality(Flagged(SubSeq(fs, 1, Len(fs) - 1), b))
           = Cardinality(Flagged(fs, b)) - One(fs[Len(fs)][b])
<1> DEFINE below == SubSeq(fs, 1, Len(fs) - 1)
           top == fs[Len(fs)]
<1>1. top \in FrameType
  BY LenProperties, ElementOfSeq
<1>2. below \in Seq(FrameType) /\ fs = Append(below, top)
  BY <1>1, TopAndBelow
<1> HIDE DEF below, top
<1>3. Cardinality(Flagged(fs, b)) = Cardinality(Flagged(below, b)) + One(top[b])
  BY <1>1, <1>2, CountPush
<1>4. Cardinality(Flagged(below, b)) \in Nat /\ One(top[b]) \in Nat
  BY <1>2, FlaggedFinite DEF One
<1> QED BY <1>3, <1>4 DEF below, top

\* A changed top counts for what it has become.
LEMMA CountTop ==
  ASSUME NEW fs \in Seq(FrameType), Len(fs) > 0, NEW f \in FrameType, NEW b \in Flags
  PROVE  Cardinality(Flagged([fs EXCEPT ![Len(fs)] = f], b))
           = Cardinality(Flagged(fs, b)) - One(fs[Len(fs)][b]) + One(f[b])
<1> DEFINE below == SubSeq(fs, 1, Len(fs) - 1)
<1>1. below \in Seq(FrameType) /\ [fs EXCEPT ![Len(fs)] = f] = Append(below, f)
  BY TopAndBelow
<1>2. Cardinality(Flagged(below, b)) = Cardinality(Flagged(fs, b)) - One(fs[Len(fs)][b])
  BY CountPop
<1> HIDE DEF below
<1> QED BY <1>1, <1>2, CountPush

(* ---- the invariant ------------------------------------------------------------ *)

\* A malloc'd container is owned by an activation that keeps one.
Boxed(f) ==
  /\ f.boxed # {} => f.owned
  /\ f.owned => f.kind \in {"scope", "buffer", "exec", "direct"}
  /\ f.kind = "exec" => f.owned

\* While collecting is possible, the guards mark what the counters must tell, and
\* a host that keeps its contract is not within a direct entry.
Marked(f) ==
  /\ f.guarded <=> f.kind \in {"funnel", "exec"}
  /\ f.counted <=> f.kind = "exec"
  /\ f.hazard <=> (f.kind \in {"scope", "buffer"} /\ f.owned)
  /\ HostContract => f.kind # "direct"

Unmarked(f) == ~f.guarded /\ ~f.counted /\ ~f.hazard

\* The host is at the bottom and nowhere else, right above it sits a door of the
\* engine, and every other activation belongs to a live Interp.
Placed(f, k, lives) ==
  /\ f.kind = "host" <=> k = 1
  /\ k = 1 => Unmarked(f)
  /\ k = 2 => f.kind \in {"funnel", "exec", "direct"}
  /\ k > 1 => f.interp \in lives

FrameOK(f, k, active, lives) == Boxed(f) /\ (active => Marked(f)) /\ Placed(f, k, lives)

Stack == \A k \in 1 .. Len(frames) : FrameOK(frames[k], k, gcActive, live)

Counts ==
  /\ GC_DEPTH = Cardinality(Flagged(frames, "guarded"))
  /\ TW_HAZARDS = Cardinality(Flagged(frames, "hazard"))
  /\ EXEC_DEPTH = Cardinality(Flagged(frames, "counted"))
  /\ LIVE_INTERPS = Cardinality(live)

SInv == TypeOK /\ Stack /\ Counts

\* The part of the type that is not about the stack.
RestTyped ==
  /\ tables \in [Interps -> SUBSET Handles] /\ live \subseteq Interps
  /\ alive \subseteq Handles
  /\ gcActive \in BOOLEAN /\ pending \in BOOLEAN /\ unwinding \in BOOLEAN

Rest == <<tables, live, alive, gcActive, pending, unwinding>>

\* A frame keeps what the counters and the stack's shape go by.
SameActivation(c, f) ==
  /\ c.kind = f.kind /\ c.interp = f.interp
  /\ c.guarded = f.guarded /\ c.counted = f.counted

LEMMA FrameTypes ==
  ASSUME NEW kind \in Kinds, NEW i \in Interps, NEW w \in SUBSET Handles
  PROVE  Frame(kind, i, w) \in FrameType
BY SafepointConstants DEF Frame, FrameType

LEMMA TopType ==
  ASSUME TypeOK
  PROVE  /\ frames \in Seq(FrameType) /\ Len(frames) \in Nat \ {0}
         /\ Top \in FrameType
         /\ \A k \in 1 .. Len(frames) : frames[k] \in FrameType
         /\ DOMAIN frames = 1 .. Len(frames)
  BY SafepointConstants, LenProperties, ElementOfSeq DEF TypeOK, Top

(* ---- the three ways to change the stack ------------------------------------------ *)

LEMMA TopShape ==
  ASSUME TypeOK, NEW c \in FrameType
  PROVE  LET gs == WithTop(c)
         IN /\ gs \in Seq(FrameType) /\ Len(gs) = Len(frames) /\ gs[Len(frames)] = c
            /\ \A k \in 1 .. Len(frames) - 1 : gs[k] = frames[k]
            /\ \A b \in Flags : Cardinality(Flagged(gs, b))
                               = Cardinality(Flagged(frames, b)) - One(Top[b]) + One(c[b])
<1>1. frames \in Seq(FrameType) /\ Len(frames) \in Nat \ {0} /\ Len(frames) \in 1 .. Len(frames)
  BY TopType
<1>2. /\ WithTop(c) \in Seq(FrameType) /\ Len(WithTop(c)) = Len(frames)
      /\ \A k \in 1 .. Len(frames) : WithTop(c)[k] = IF k = Len(frames) THEN c ELSE frames[k]
  BY <1>1, ExceptSeq DEF WithTop
<1>3. \A b \in Flags : Cardinality(Flagged(WithTop(c), b))
                     = Cardinality(Flagged(frames, b)) - One(Top[b]) + One(c[b])
  BY <1>1, CountTop DEF WithTop, Top
<1>4. \A k \in 1 .. Len(frames) - 1 : k \in 1 .. Len(frames) /\ k # Len(frames)
  BY <1>1
<1> QED BY <1>1, <1>2, <1>3, <1>4

LEMMA PushShape ==
  ASSUME TypeOK, NEW c \in FrameType, NEW f \in FrameType, NEW gs, gs = Pushed(c, f)
  PROVE  /\ gs \in Seq(FrameType) /\ Len(gs) = Len(frames) + 1
         /\ gs[Len(frames)] = c /\ gs[Len(frames) + 1] = f
         /\ \A k \in 1 .. Len(frames) - 1 : gs[k] = frames[k]
         /\ \A b \in Flags : Cardinality(Flagged(gs, b))
              = Cardinality(Flagged(frames, b)) - One(Top[b]) + One(c[b]) + One(f[b])
<1> DEFINE hs == WithTop(c)
<1>1. /\ hs \in Seq(FrameType) /\ Len(hs) = Len(frames) /\ hs[Len(frames)] = c
      /\ \A k \in 1 .. Len(frames) - 1 : hs[k] = frames[k]
      /\ \A b \in Flags : Cardinality(Flagged(hs, b))
                         = Cardinality(Flagged(frames, b)) - One(Top[b]) + One(c[b])
  BY TopShape
<1>2. Len(frames) \in Nat \ {0}
  BY TopType
<1> HIDE DEF hs
<1>3. /\ Append(hs, f) \in Seq(FrameType) /\ Len(Append(hs, f)) = Len(hs) + 1
      /\ \A k \in 1 .. Len(hs) : Append(hs, f)[k] = hs[k]
      /\ Append(hs, f)[Len(hs) + 1] = f
  BY <1>1, AppendProperties
<1>4. \A b \in Flags : Cardinality(Flagged(Append(hs, f), b)) = Cardinality(Flagged(hs, b)) + One(f[b])
  BY <1>1, CountPush
<1>5. Len(frames) \in 1 .. Len(hs) /\ \A k \in 1 .. Len(frames) - 1 : k \in 1 .. Len(hs)
  BY <1>1, <1>2
<1>6. gs = Append(hs, f)
  BY DEF Pushed, hs
<1> QED BY <1>1, <1>3, <1>4, <1>5, <1>6

\* A frame that the top has become still stands where the top did.
LEMMA SameStands ==
  ASSUME SInv, NEW c \in FrameType,
         SameActivation(c, Top), Boxed(c), gcActive => Marked(c),
         Len(frames) = 1 => ~c.hazard
  PROVE  FrameOK(c, Len(frames), gcActive, live)
<1>1. FrameOK(Top, Len(frames), gcActive, live) /\ Len(frames) \in Nat \ {0}
  BY TopType DEF SInv, Stack, Top
<1>2. Placed(c, Len(frames), live)
  BY <1>1 DEF FrameOK, Placed, SameActivation, Unmarked
<1> QED BY <1>2 DEF FrameOK

LEMMA TopKeeps ==
  ASSUME SInv, NEW c \in FrameType, frames' = WithTop(c),
         SameActivation(c, Top), Boxed(c), gcActive => Marked(c),
         Len(frames) = 1 => ~c.hazard,
         TW_HAZARDS' = TW_HAZARDS - One(Top.hazard) + One(c.hazard),
         UNCHANGED <<live, gcActive, GC_DEPTH, EXEC_DEPTH, LIVE_INTERPS>>, RestTyped'
  PROVE  SInv'
<1>1. /\ frames' \in Seq(FrameType) /\ Len(frames') = Len(frames) /\ frames'[Len(frames)] = c
      /\ \A k \in 1 .. Len(frames) - 1 : frames'[k] = frames[k]
      /\ \A b \in Flags : Cardinality(Flagged(frames', b))
                         = Cardinality(Flagged(frames, b)) - One(Top[b]) + One(c[b])
  BY TopShape DEF SInv
<1>2. Len(frames) \in Nat \ {0} /\ frames \in Seq(FrameType)
  BY TopType DEF SInv
<1>3. Stack'
  <2> SUFFICES ASSUME NEW k \in 1 .. Len(frames) PROVE FrameOK(frames'[k], k, gcActive, live)
    BY <1>1 DEF Stack
  <2>1. CASE k = Len(frames)
    BY <2>1, <1>1, SameStands
  <2>2. CASE k \in 1 .. Len(frames) - 1
    BY <2>2, <1>1 DEF SInv, Stack
  <2> QED BY <2>1, <2>2, <1>2
<1>4. Counts'
  <2>1. /\ Cardinality(Flagged(frames', "guarded")) = Cardinality(Flagged(frames, "guarded"))
        /\ Cardinality(Flagged(frames', "counted")) = Cardinality(Flagged(frames, "counted"))
        /\ Cardinality(Flagged(frames', "hazard"))
             = Cardinality(Flagged(frames, "hazard")) - One(Top.hazard) + One(c.hazard)
    <3>1. \A b \in Flags : Cardinality(Flagged(frames, b)) \in Nat
      BY <1>2, FlaggedFinite
    <3>2. One(TRUE) = 1 /\ One(FALSE) = 0 /\ \A b \in BOOLEAN : One(b) \in Nat
      BY DEF One
    <3>3. One(c["guarded"]) = One(Top["guarded"]) /\ One(c["counted"]) = One(Top["counted"])
      BY DEF SameActivation
    <3>4. One(Top["guarded"]) \in Nat /\ One(Top["counted"]) \in Nat
      BY DEF One
    <3> QED BY <1>1, <3>1, <3>3, <3>4 DEF Flags
  <2> QED BY <2>1 DEF SInv, Counts
<1>5. TypeOK'
  <2>1. /\ Cardinality(Flagged(frames', "guarded")) \in Nat
        /\ Cardinality(Flagged(frames', "counted")) \in Nat
        /\ Cardinality(Flagged(frames', "hazard")) \in Nat
    BY <1>1, FlaggedFinite DEF Flags
  <2>2. /\ GC_DEPTH' \in Nat /\ TW_HAZARDS' \in Nat /\ EXEC_DEPTH' \in Nat
    BY <2>1, <1>4 DEF Counts
  <2> QED BY <1>1, <2>2 DEF SInv, TypeOK, RestTyped
<1> QED BY <1>3, <1>4, <1>5 DEF SInv

\* A caller waits: its guards and containers stay, emptied at most.
Waits(c, f) ==
  /\ SameActivation(c, f) /\ c.hazard = f.hazard /\ c.owned = f.owned
  /\ c.boxed \subseteq f.boxed

LEMMA WaitingStands ==
  ASSUME SInv, NEW c \in FrameType, Waits(c, Top)
  PROVE  FrameOK(c, Len(frames), gcActive, live)
<1>1. FrameOK(Top, Len(frames), gcActive, live)
  BY TopType DEF SInv, Stack, Top
<1> QED BY <1>1 DEF FrameOK, Boxed, Marked, Placed, Unmarked, Waits, SameActivation

\* An activation that may start above the top.
MayEnter(f) ==
  /\ Boxed(f) /\ (gcActive => Marked(f))
  /\ f.kind # "host" /\ f.interp \in live
  /\ Len(frames) = 1 => f.kind \in {"funnel", "exec", "direct"}

GuardsTaken(f) ==
  /\ GC_DEPTH' = GC_DEPTH + One(f.guarded)
  /\ TW_HAZARDS' = TW_HAZARDS + One(f.hazard)
  /\ EXEC_DEPTH' = EXEC_DEPTH + One(f.counted)
  /\ UNCHANGED LIVE_INTERPS

LEMMA PushKeeps ==
  ASSUME SInv, Room, NEW c \in FrameType, NEW f \in FrameType, frames' = Pushed(c, f),
         Waits(c, Top), MayEnter(f), GuardsTaken(f), UNCHANGED Rest
  PROVE  SInv'
<1>1. /\ frames' \in Seq(FrameType) /\ Len(frames') = Len(frames) + 1
      /\ frames'[Len(frames)] = c /\ frames'[Len(frames) + 1] = f
      /\ \A k \in 1 .. Len(frames) - 1 : frames'[k] = frames[k]
      /\ \A b \in Flags : Cardinality(Flagged(frames', b))
           = Cardinality(Flagged(frames, b)) - One(Top[b]) + One(c[b]) + One(f[b])
  <2>1. TypeOK
    BY DEF SInv
  <2>2. \A gs : gs = Pushed(c, f) =>
          /\ gs \in Seq(FrameType) /\ Len(gs) = Len(frames) + 1
          /\ gs[Len(frames)] = c /\ gs[Len(frames) + 1] = f
          /\ \A k \in 1 .. Len(frames) - 1 : gs[k] = frames[k]
          /\ \A b \in Flags : Cardinality(Flagged(gs, b))
               = Cardinality(Flagged(frames, b)) - One(Top[b]) + One(c[b]) + One(f[b])
    BY <2>1, PushShape
  <2> QED BY <2>2
<1>2. Len(frames) \in Nat \ {0} /\ frames \in Seq(FrameType)
  BY TopType DEF SInv
<1>3. UNCHANGED <<live, gcActive>>
  BY DEF Rest
<1>4. Stack'
  <2> SUFFICES ASSUME NEW k \in 1 .. Len(frames) + 1 PROVE FrameOK(frames'[k], k, gcActive, live)
    BY <1>1, <1>3 DEF Stack
  <2>1. CASE k = Len(frames)
    BY <2>1, <1>1, WaitingStands
  <2>2. CASE k \in 1 .. Len(frames) - 1
    BY <2>2, <1>1 DEF SInv, Stack
  <2>3. CASE k = Len(frames) + 1
    <3>1. frames'[k] = f /\ k # 1 /\ (k = 2 => Len(frames) = 1)
      <4>1. frames'[k] = f
        BY <2>3, <1>1
      <4>2. k # 1 /\ (k = 2 => Len(frames) = 1)
        <5>1. \A n \in Nat \ {0} : n + 1 # 1 /\ (n + 1 = 2 => n = 1)
          OBVIOUS
        <5> QED BY <2>3, <1>2, <5>1
      <4> QED BY <4>1, <4>2
    <3>2. Placed(f, k, live)
      BY <3>1 DEF Placed, MayEnter
    <3> QED BY <3>1, <3>2 DEF FrameOK, MayEnter
  <2> QED BY <2>1, <2>2, <2>3, <1>2
<1>5. Counts'
  <2>1. ASSUME NEW b \in Flags
        PROVE  Cardinality(Flagged(frames', b)) = Cardinality(Flagged(frames, b)) + One(f[b])
    <3>1. Cardinality(Flagged(frames, b)) \in Nat /\ One(Top[b]) \in Nat
      BY <1>2, FlaggedFinite DEF One
    <3>2. One(c[b]) = One(Top[b])
      BY DEF Waits, SameActivation, Flags
    <3> QED BY <1>1, <3>1, <3>2
  <2>2. /\ Cardinality(Flagged(frames', "guarded")) = Cardinality(Flagged(frames, "guarded")) + One(f.guarded)
        /\ Cardinality(Flagged(frames', "hazard")) = Cardinality(Flagged(frames, "hazard")) + One(f.hazard)
        /\ Cardinality(Flagged(frames', "counted")) = Cardinality(Flagged(frames, "counted")) + One(f.counted)
    BY <2>1 DEF Flags
  <2> QED BY <1>3, <2>2 DEF SInv, Counts, GuardsTaken
<1>6. TypeOK'
  <2>1. /\ Cardinality(Flagged(frames', "guarded")) \in Nat
        /\ Cardinality(Flagged(frames', "counted")) \in Nat
        /\ Cardinality(Flagged(frames', "hazard")) \in Nat
    BY <1>1, FlaggedFinite DEF Flags
  <2>2. /\ GC_DEPTH' \in Nat /\ TW_HAZARDS' \in Nat /\ EXEC_DEPTH' \in Nat
    BY <2>1, <1>5 DEF Counts
  <2>3. Len(frames') \in 1 .. MaxFrames
    BY <1>1, <1>2, SafepointConstants DEF Room
  <2>4. LIVE_INTERPS' \in Nat
    BY DEF GuardsTaken, SInv, TypeOK
  <2> QED BY <1>1, <2>2, <2>3, <2>4 DEF SInv, TypeOK, Rest
<1> QED BY <1>4, <1>5, <1>6 DEF SInv

\* A step that leaves the stack alone, and collecting as it is.
LEMMA RestKeeps ==
  ASSUME SInv, UNCHANGED <<frames, live, gcActive, counters>>, RestTyped'
  PROVE  SInv'
<1>1. TypeOK'
  BY DEF SInv, TypeOK, RestTyped, counters
<1>2. Stack' /\ Counts'
  BY DEF SInv, Stack, Counts, counters
<1> QED BY <1>1, <1>2 DEF SInv

\* A popped stack is the frames below, the new top richer in words at most.
PoppedTo(gs) ==
  /\ gs \in Seq(FrameType) /\ Len(gs) = Len(frames) - 1
  /\ \A k \in 1 .. Len(frames) - 1 : Waits(gs[k], frames[k])
  /\ \A b \in Flags : Cardinality(Flagged(gs, b)) = Cardinality(Flagged(Below, b))

LEMMA PopShape ==
  ASSUME SInv, Len(frames) > 1,
         \/ frames' = Below
         \/ \E result \in SUBSET Handles : frames' = Returned(result)
  PROVE  PoppedTo(frames')
<1>1. /\ Len(frames) \in Nat \ {0, 1} /\ frames \in Seq(FrameType)
      /\ Len(frames) > 0
      /\ \A k \in 1 .. Len(frames) : frames[k] \in FrameType
  BY TopType DEF SInv
<1>2. /\ Below \in Seq(FrameType) /\ Len(Below) = Len(frames) - 1
      /\ \A k \in 1 .. Len(frames) - 1 : Below[k] = frames[k]
  <2>1. Top \in FrameType
    BY TopType DEF SInv
  <2> QED BY <1>1, <2>1, TopAndBelow DEF Below
<1>3. CASE frames' = Below
  BY <1>3, <1>1, <1>2 DEF PoppedTo, Waits, SameActivation
<1>4. ASSUME NEW result \in SUBSET Handles, frames' = Returned(result)
      PROVE  PoppedTo(frames')
  <2> DEFINE m == Len(frames) - 1
             c == [Below[m] EXCEPT !.words = @ \cup result]
  <2>1. m \in Nat \ {0} /\ Len(Below) = m /\ m \in 1 .. m /\ Below[m] = frames[m] /\ frames[m] \in FrameType
    <3>1. m \in Nat \ {0} /\ m \in 1 .. m /\ m \in 1 .. Len(frames)
      BY <1>1
    <3> QED BY <1>1, <1>2, <3>1
  <2>2. c \in FrameType /\ Waits(c, frames[m])
    <3>1. Below[m] \in FrameType
      BY <2>1
    <3> HIDE DEF m
    <3>2. c \in FrameType
      BY <3>1 DEF FrameType
    <3>3. Waits(c, Below[m])
      BY <3>1 DEF FrameType, Waits, SameActivation
    <3> QED BY <3>2, <3>3, <2>1
  <2>3. frames' = [Below EXCEPT ![m] = c]
    BY <1>4 DEF Returned
  <2> HIDE DEF c
  <2>4. /\ frames' \in Seq(FrameType) /\ Len(frames') = m
        /\ \A k \in 1 .. m : frames'[k] = IF k = m THEN c ELSE Below[k]
    BY <1>2, <2>1, <2>2, <2>3, ExceptSeq
  <2>5. ASSUME NEW b \in Flags
        PROVE  Cardinality(Flagged(frames', b)) = Cardinality(Flagged(Below, b))
    <3>1. Cardinality(Flagged(frames', b)) = Cardinality(Flagged(Below, b)) - One(Below[m][b]) + One(c[b])
      <4>1. Len(Below) > 0 /\ frames' = [Below EXCEPT ![Len(Below)] = c] /\ Len(Below) = m
        BY <2>1, <2>3
      <4>2. /\ Cardinality(Flagged([Below EXCEPT ![Len(Below)] = c], b))
                = Cardinality(Flagged(Below, b)) - One(Below[Len(Below)][b]) + One(c[b])
        BY <1>2, <2>2, <4>1, CountTop
      <4> QED BY <4>1, <4>2
    <3>2. One(c[b]) = One(Below[m][b])
      BY <2>1, <2>2 DEF Waits, SameActivation, Flags
    <3>3. Cardinality(Flagged(Below, b)) \in Nat /\ One(Below[m][b]) \in Nat
      BY <1>2, FlaggedFinite DEF One
    <3> QED BY <3>1, <3>2, <3>3
  <2>6. \A k \in 1 .. m : Waits(frames'[k], frames[k])
    BY <1>2, <2>2, <2>4 DEF Waits, SameActivation
  <2> QED BY <2>4, <2>5, <2>6 DEF PoppedTo
<1> QED BY <1>3, <1>4

LEMMA PopKeeps ==
  ASSUME SInv, Len(frames) > 1, GuardsDropped(Top), UNCHANGED <<live, gcActive>>, RestTyped',
         \/ frames' = Below
         \/ \E result \in SUBSET Handles : frames' = Returned(result)
  PROVE  SInv'
<1>1. /\ Len(frames) \in Nat \ {0, 1} /\ frames \in Seq(FrameType)
      /\ Len(frames) > 0 /\ Top \in FrameType
      /\ \A k \in 1 .. Len(frames) : frames[k] \in FrameType
  BY TopType DEF SInv
<1>2. PoppedTo(frames')
  BY PopShape
<1>3. \A b \in Flags : Cardinality(Flagged(Below, b)) = Cardinality(Flagged(frames, b)) - One(Top[b])
  BY <1>1, CountPop DEF Below, Top
<1>4. \A b \in Flags : Cardinality(Flagged(frames', b)) = Cardinality(Flagged(frames, b)) - One(Top[b])
  BY <1>2, <1>3 DEF PoppedTo
<1>5. Stack'
  <2>0. Len(frames') = Len(frames) - 1 /\ \A k \in 1 .. Len(frames) - 1 : k \in 1 .. Len(frames)
    BY <1>1, <1>2 DEF PoppedTo
  <2> SUFFICES ASSUME NEW k \in 1 .. Len(frames) - 1 PROVE FrameOK(frames'[k], k, gcActive, live)
    BY <2>0 DEF Stack
  <2>1. FrameOK(frames[k], k, gcActive, live)
    BY <2>0 DEF SInv, Stack
  <2>2. Waits(frames'[k], frames[k])
    BY <1>2 DEF PoppedTo
  <2> QED BY <2>1, <2>2 DEF FrameOK, Boxed, Marked, Placed, Unmarked, Waits, SameActivation
<1>6. Counts'
  BY <1>4 DEF SInv, Counts, GuardsDropped, Disarms, Flags
<1>7. TypeOK'
  <2>1. /\ Cardinality(Flagged(frames', "guarded")) \in Nat
        /\ Cardinality(Flagged(frames', "counted")) \in Nat
        /\ Cardinality(Flagged(frames', "hazard")) \in Nat
    BY <1>2, FlaggedFinite DEF Flags, PoppedTo
  <2>2. /\ GC_DEPTH' \in Nat /\ TW_HAZARDS' \in Nat /\ EXEC_DEPTH' \in Nat
    BY <2>1, <1>6 DEF Counts
  <2>3. Len(frames') \in 1 .. MaxFrames
    BY <1>1, <1>2, SafepointConstants DEF PoppedTo, SInv, TypeOK
  <2>4. LIVE_INTERPS' \in Nat
    BY DEF GuardsDropped, SInv, TypeOK
  <2> QED BY <1>2, <2>2, <2>3, <2>4 DEF TypeOK, RestTyped, PoppedTo
<1> QED BY <1>5, <1>6, <1>7 DEF SInv

(* ---- what the actions put on the stack --------------------------------------------- *)

\* The host, and only the host, is alone on the stack; others have a live Interp.
LEMMA TopStands ==
  ASSUME SInv
  PROVE  /\ Top \in FrameType /\ TypeOK /\ Holds(Top) \subseteq Handles
         /\ Boxed(Top) /\ (gcActive => Marked(Top))
         /\ Len(frames) \in Nat \ {0}
         /\ (Len(frames) = 1 => Top.kind = "host")
         /\ (Top.kind # "host" => (Len(frames) > 1 /\ Len(frames) # 1 /\ Top.interp \in live))
<1>1. TypeOK /\ Top \in FrameType /\ Len(frames) \in Nat \ {0}
  BY TopType DEF SInv
<1>2. FrameOK(Top, Len(frames), gcActive, live)
  BY <1>1 DEF SInv, Stack, Top
<1>3. Holds(Top) \subseteq Handles
  BY <1>1 DEF Holds, FrameType
<1>4. Placed(Top, Len(frames), live)
  BY <1>2 DEF FrameOK
<1>5. Len(frames) = 1 => Top.kind = "host"
  BY <1>4 DEF Placed
<1>6. Top.kind # "host" => (Len(frames) > 1 /\ Len(frames) # 1 /\ Top.interp \in live)
  <2>1. \A n \in Nat \ {0} : n # 1 => n > 1
    OBVIOUS
  <2> QED BY <1>1, <1>4, <2>1 DEF Placed
<1> QED BY <1>1, <1>2, <1>3, <1>5, <1>6 DEF FrameOK

LEMMA CalleesAreLive ==
  ASSUME SInv, NEW i \in Callees(Top)
  PROVE  i \in live /\ i \in Interps
<1>1. live \subseteq Interps /\ Len(frames) \in Nat \ {0}
  BY TopStands DEF SInv, TypeOK
<1>2. Top.kind # "host" => Top.interp \in live
  BY TopStands
<1>3. i \in live
  BY <1>2 DEF Callees
<1> QED BY <1>1, <1>3

LEMMA SuspendedWaits ==
  ASSUME SInv
  PROVE  /\ Suspended(Top) \in FrameType /\ Waits(Suspended(Top), Top)
         /\ [Top EXCEPT !.polled = FALSE] \in FrameType
         /\ Waits([Top EXCEPT !.polled = FALSE], Top)
<1>1. Top \in FrameType
  BY TopStands
<1>2. CASE Top.kind = "buffer"
  BY <1>1, <1>2 DEF Suspended, Waits, SameActivation, FrameType
<1>3. CASE Top.kind # "buffer"
  BY <1>1, <1>3 DEF Suspended, Waits, SameActivation, FrameType
<1> QED BY <1>2, <1>3

LEMMA TopWaits ==
  ASSUME SInv
  PROVE  Waits(Top, Top) /\ \A f : Append(frames, f) = Pushed(Top, f)
<1>1. Waits(Top, Top)
  BY DEF Waits, SameActivation
<1>2. WithTop(Top) = frames
  BY TopType DEF WithTop, Top, SInv
<1> QED BY <1>1, <1>2 DEF Pushed

(* ---- entering an activation -------------------------------------------------------- *)

LEMMA EnterFunnelKeeps ==
  ASSUME SInv, EnterFunnel
  PROVE  SInv'
<1>1. PICK i \in Callees(Top), w \in SUBSET Holds(Top) :
        frames' = Pushed(Suspended(Top), [Frame("funnel", i, w) EXCEPT !.guarded = gcActive])
  BY DEF EnterFunnel
<1> DEFINE f == [Frame("funnel", i, w) EXCEPT !.guarded = gcActive]
<1>2. i \in live /\ i \in Interps /\ w \in SUBSET Handles /\ gcActive \in BOOLEAN
  BY CalleesAreLive, TopStands DEF SInv, TypeOK
<1>3. f \in FrameType
  <2> DEFINE g == Frame("funnel", i, w)
  <2>1. g \in FrameType
    BY <1>2, FrameTypes DEF Kinds
  <2>2. f = [g EXCEPT !.guarded = gcActive]
    OBVIOUS
  <2> HIDE DEF f, g
  <2> QED BY <1>2, <2>1, <2>2 DEF FrameType
<1>4. MayEnter(f)
  BY <1>2 DEF Frame, MayEnter, Boxed, Marked
<1>5. GuardsTaken(f)
  <2>1. f.guarded = gcActive /\ f.hazard = FALSE /\ f.counted = FALSE
    BY DEF Frame
  <2>2. TW_HAZARDS \in Nat /\ EXEC_DEPTH \in Nat
    BY DEF SInv, TypeOK
  <2> QED BY <2>1, <2>2 DEF EnterFunnel, GuardsTaken, One
<1>6. UNCHANGED Rest /\ Room
  BY DEF EnterFunnel, MayCall, Rest
<1> HIDE DEF f
<1> QED BY <1>1, <1>3, <1>4, <1>5, <1>6, SuspendedWaits, PushKeeps DEF f

LEMMA EnterTrampolineKeeps ==
  ASSUME SInv, EnterTrampoline
  PROVE  SInv'
<1> DEFINE f == Frame("scope", Top.interp, {})
<1>1. frames' = Pushed(Top, f)
  BY TopWaits DEF EnterTrampoline
<1>2. Top.interp \in live /\ Top.interp \in Interps /\ Len(frames) # 1
  <2>1. Top.kind # "host" /\ Len(frames) \in Nat \ {0}
    BY TopStands DEF EnterTrampoline
  <2>2. Top.interp \in live /\ Len(frames) # 1
    BY <2>1, TopStands
  <2> QED BY <2>2 DEF SInv, TypeOK
<1>3. f \in FrameType
  BY <1>2, FrameTypes DEF Kinds
<1>4. MayEnter(f)
  BY <1>2 DEF Frame, MayEnter, Boxed, Marked
<1>5. GuardsTaken(f)
  <2>1. f.guarded = FALSE /\ f.hazard = FALSE /\ f.counted = FALSE
    BY DEF Frame
  <2>2. GC_DEPTH \in Nat /\ TW_HAZARDS \in Nat /\ EXEC_DEPTH \in Nat
    BY DEF SInv, TypeOK
  <2> QED BY <2>1, <2>2 DEF EnterTrampoline, GuardsTaken, One, counters
<1>6. UNCHANGED Rest /\ Room
  BY DEF EnterTrampoline, Rest
<1> HIDE DEF f
<1> QED BY <1>1, <1>3, <1>4, <1>5, <1>6, TopWaits, TopStands, PushKeeps

LEMMA HoldArgumentsKeeps ==
  ASSUME SInv, HoldArguments
  PROVE  SInv'
<1>1. PICK spilled \in BOOLEAN, v \in SUBSET Holds(Top) :
        /\ frames' = Pushed(Suspended(Top),
             [Frame("buffer", Top.interp, IF spilled THEN {} ELSE v) EXCEPT
                !.boxed = IF spilled THEN v ELSE {}, !.owned = spilled,
                !.hazard = Arms(spilled)])
        /\ TW_HAZARDS' = TW_HAZARDS + One(Arms(spilled))
  BY DEF HoldArguments
<1> DEFINE f == [Frame("buffer", Top.interp, IF spilled THEN {} ELSE v) EXCEPT
                   !.boxed = IF spilled THEN v ELSE {}, !.owned = spilled,
                   !.hazard = Arms(spilled)]
<1>2. Top.interp \in live /\ Top.interp \in Interps /\ Len(frames) # 1
  <2>1. Top.kind # "host" /\ Len(frames) \in Nat \ {0}
    BY TopStands DEF HoldArguments
  <2>2. Top.interp \in live /\ Len(frames) # 1
    BY <2>1, TopStands
  <2> QED BY <2>2 DEF SInv, TypeOK
<1>3. v \in SUBSET Handles /\ gcActive \in BOOLEAN
  BY TopStands DEF SInv, TypeOK
<1>4. f \in FrameType
  <2> DEFINE g == Frame("buffer", Top.interp, IF spilled THEN {} ELSE v)
  <2>1. g \in FrameType
    BY <1>2, <1>3, FrameTypes DEF Kinds
  <2>2. f = [g EXCEPT !.boxed = IF spilled THEN v ELSE {}, !.owned = spilled,
                      !.hazard = Arms(spilled)]
    OBVIOUS
  <2>3. Arms(spilled) \in BOOLEAN
    BY DEF Arms
  <2> HIDE DEF f, g
  <2> QED BY <1>2, <1>3, <2>1, <2>2, <2>3 DEF FrameType
<1>5. MayEnter(f)
  BY <1>2 DEF Frame, MayEnter, Boxed, Marked, Arms
<1>6. GuardsTaken(f)
  <2>1. f.guarded = FALSE /\ f.hazard = Arms(spilled) /\ f.counted = FALSE
    BY DEF Frame
  <2>2. GC_DEPTH \in Nat /\ EXEC_DEPTH \in Nat
    BY DEF SInv, TypeOK
  <2> HIDE DEF f
  <2> QED BY <1>1, <2>1, <2>2 DEF HoldArguments, GuardsTaken, One
<1>7. UNCHANGED Rest /\ Room /\ frames' = Pushed(Suspended(Top), f)
  BY <1>1 DEF HoldArguments, Rest
<1> HIDE DEF f
<1> QED BY <1>4, <1>5, <1>6, <1>7, SuspendedWaits, PushKeeps

LEMMA HostApplyKeeps ==
  ASSUME SInv, HostApply
  PROVE  SInv'
<1>1. PICK i \in live, spilled \in BOOLEAN, v \in SUBSET Top.words :
        frames' = Pushed([Top EXCEPT !.words = @ \ v],
          [Frame("direct", i, IF spilled THEN {} ELSE v) EXCEPT
             !.boxed = IF spilled THEN v ELSE {}, !.owned = spilled,
             !.polled = TRUE])
  BY DEF HostApply
<1> DEFINE w == Top.words \ v
           c == [Top EXCEPT !.words = w]
           g == Frame("direct", i, IF spilled THEN {} ELSE v)
           f == [g EXCEPT !.boxed = IF spilled THEN v ELSE {}, !.owned = spilled,
                          !.polled = TRUE]
<1>2. Top \in FrameType /\ i \in Interps /\ v \subseteq Handles /\ w \subseteq Handles
  BY TopStands DEF SInv, TypeOK, FrameType
<1>3. frames' = Pushed(c, f)
  BY <1>1
<1>4. c \in FrameType /\ Waits(c, Top)
  <2> HIDE DEF w
  <2> QED BY <1>2 DEF FrameType, Waits, SameActivation
<1>5. /\ g \in FrameType /\ g.kind = "direct" /\ g.interp = i
      /\ g.guarded = FALSE /\ g.hazard = FALSE /\ g.counted = FALSE
  <2>1. /\ g.kind = "direct" /\ g.interp = i
        /\ g.guarded = FALSE /\ g.hazard = FALSE /\ g.counted = FALSE
    BY DEF Frame
  <2> QED BY <2>1, <1>2, FrameTypes DEF Kinds
<1> HIDE DEF c, g
<1>6. /\ f \in FrameType /\ f.kind = "direct" /\ f.interp = i /\ f.owned = spilled
      /\ f.boxed = (IF spilled THEN v ELSE {})
      /\ f.guarded = FALSE /\ f.hazard = FALSE /\ f.counted = FALSE
  BY <1>2, <1>5 DEF FrameType
<1> HIDE DEF f
<1>7. MayEnter(f)
  <2>1. gcActive => ~HostContract
    BY SafepointConstants DEF HostApply
  <2> QED BY <1>6, <2>1 DEF MayEnter, Boxed, Marked
<1>8. GuardsTaken(f)
  <2>1. GC_DEPTH \in Nat /\ TW_HAZARDS \in Nat /\ EXEC_DEPTH \in Nat
    BY DEF SInv, TypeOK
  <2> QED BY <1>6, <2>1 DEF HostApply, GuardsTaken, One, counters
<1>9. UNCHANGED Rest /\ Room
  BY DEF HostApply, Rest
<1> QED BY <1>3, <1>4, <1>6, <1>7, <1>8, <1>9, PushKeeps

LEMMA CallNativeKeeps ==
  ASSUME SInv, CallNative
  PROVE  SInv'
<1> DEFINE f == Frame("native", Top.interp, {})
           c == [Top EXCEPT !.polled = FALSE]
<1>1. frames' = Pushed(c, f)
  BY DEF CallNative
<1>2. Top.interp \in live /\ Top.interp \in Interps /\ Len(frames) # 1
  <2>1. Top.kind # "host" /\ Len(frames) \in Nat \ {0}
    BY TopStands DEF CallNative
  <2>2. Top.interp \in live /\ Len(frames) # 1
    BY <2>1, TopStands
  <2> QED BY <2>2 DEF SInv, TypeOK
<1>3. f \in FrameType
  BY <1>2, FrameTypes DEF Kinds
<1>4. MayEnter(f)
  BY <1>2 DEF Frame, MayEnter, Boxed, Marked
<1>5. GuardsTaken(f)
  <2>1. f.guarded = FALSE /\ f.hazard = FALSE /\ f.counted = FALSE
    BY DEF Frame
  <2>2. GC_DEPTH \in Nat /\ TW_HAZARDS \in Nat /\ EXEC_DEPTH \in Nat
    BY DEF SInv, TypeOK
  <2> QED BY <2>1, <2>2 DEF CallNative, GuardsTaken, One, counters
<1>6. UNCHANGED Rest /\ Room /\ c \in FrameType /\ Waits(c, Top)
  BY SuspendedWaits DEF CallNative, MayCall, Rest
<1> HIDE DEF f, c
<1> QED BY <1>1, <1>3, <1>4, <1>5, <1>6, PushKeeps

LEMMA EnterExecKeeps ==
  ASSUME SInv, EnterExec
  PROVE  SInv'
<1>1. PICK i \in Callees(Top), v \in SUBSET Holds(Top) :
        frames' = Pushed(Suspended(Top),
          [Frame("exec", i, {}) EXCEPT !.boxed = v, !.owned = TRUE,
             !.guarded = EngineGuard, !.counted = gcActive])
  BY DEF EnterExec
<1> DEFINE f == [Frame("exec", i, {}) EXCEPT !.boxed = v, !.owned = TRUE,
                   !.guarded = EngineGuard, !.counted = gcActive]
<1>2. i \in live /\ i \in Interps /\ v \in SUBSET Handles /\ gcActive \in BOOLEAN
  BY CalleesAreLive, TopStands DEF SInv, TypeOK
<1>3. f \in FrameType
  <2> DEFINE g == Frame("exec", i, {})
  <2>1. g \in FrameType
    BY <1>2, FrameTypes DEF Kinds
  <2>2. f = [g EXCEPT !.boxed = v, !.owned = TRUE, !.guarded = EngineGuard,
                      !.counted = gcActive]
    OBVIOUS
  <2>3. EngineGuard \in BOOLEAN
    BY <1>2 DEF EngineGuard
  <2> HIDE DEF f, g
  <2> QED BY <1>2, <2>1, <2>2, <2>3 DEF FrameType
<1>4. MayEnter(f)
  BY <1>2 DEF Frame, MayEnter, Boxed, Marked, EngineGuard
<1>5. GuardsTaken(f)
  <2>1. f.guarded = EngineGuard /\ f.hazard = FALSE /\ f.counted = gcActive
    BY DEF Frame
  <2>2. TW_HAZARDS \in Nat
    BY DEF SInv, TypeOK
  <2> QED BY <2>1, <2>2 DEF EnterExec, GuardsTaken, One
<1>6. UNCHANGED Rest /\ Room /\ frames' = Pushed(Suspended(Top), f)
  BY <1>1 DEF EnterExec, MayCall, Rest
<1> HIDE DEF f
<1> QED BY <1>3, <1>4, <1>5, <1>6, SuspendedWaits, PushKeeps

(* ---- what the running activation does ------------------------------------------------ *)

\* A top that changes what it holds, and nothing its guards go by.
LEMMA ContentsKeep ==
  ASSUME SInv, NEW c \in FrameType, frames' = WithTop(c), Waits(c, Top) \/ Top.owned,
         SameActivation(c, Top), c.hazard = Top.hazard, c.owned = Top.owned,
         UNCHANGED <<live, gcActive, counters>>, RestTyped'
  PROVE  SInv'
<1>1. /\ Top \in FrameType /\ Len(frames) \in Nat \ {0} /\ Boxed(Top)
      /\ FrameOK(Top, Len(frames), gcActive, live)
  BY TopType DEF SInv, Stack, Top, FrameOK
<1>2. Boxed(c) /\ (gcActive => Marked(c)) /\ (Len(frames) = 1 => ~c.hazard)
  BY <1>1 DEF FrameOK, Boxed, Marked, Placed, Unmarked, Waits, SameActivation
<1>3. TW_HAZARDS' = TW_HAZARDS - One(Top.hazard) + One(c.hazard)
  <2>1. One(Top.hazard) \in Nat /\ TW_HAZARDS \in Nat
    BY DEF One, SInv, TypeOK
  <2> QED BY <2>1 DEF counters
<1> QED BY <1>2, <1>3, TopKeeps DEF counters

LEMMA WordsKeep ==
  ASSUME SInv, NEW w \in SUBSET Handles, NEW p \in BOOLEAN,
         frames' = WithTop([Top EXCEPT !.words = w, !.polled = p]),
         UNCHANGED <<live, gcActive, counters>>, RestTyped'
  PROVE  SInv'
<1> DEFINE c == [Top EXCEPT !.words = w, !.polled = p]
<1>1. Top \in FrameType
  BY TopStands
<1>2. c \in FrameType
  BY <1>1 DEF FrameType
<1>3. SameActivation(c, Top) /\ c.hazard = Top.hazard /\ c.owned = Top.owned /\ c.boxed = Top.boxed
  BY <1>1 DEF FrameType, SameActivation
<1>4. frames' = WithTop(c)
  OBVIOUS
<1> HIDE DEF c
<1> QED BY <1>2, <1>3, <1>4, ContentsKeep DEF Waits

\* Setting a field to what it is.
LEMMA SamePolled ==
  ASSUME SInv, NEW w \in SUBSET Handles
  PROVE  [Top EXCEPT !.words = w] = [Top EXCEPT !.words = w, !.polled = Top.polled]
         /\ Top.polled \in BOOLEAN
<1>1. Top \in FrameType
  BY TopStands
<1> QED BY <1>1 DEF FrameType

LEMMA PromoteKeeps ==
  ASSUME SInv, Promote
  PROVE  SInv'
<1>1. PICK fresh \in BOOLEAN :
        frames' = WithTop([Top EXCEPT
          !.boxed = (IF fresh THEN {} ELSE Top.boxed) \cup Top.words, !.words = {},
          !.owned = TRUE, !.hazard = Top.hazard \/ (~Top.owned /\ gcActive)])
  BY DEF Promote
<1> DEFINE c == [Top EXCEPT
          !.boxed = (IF fresh THEN {} ELSE Top.boxed) \cup Top.words, !.words = {},
          !.owned = TRUE, !.hazard = Top.hazard \/ (~Top.owned /\ gcActive)]
<1>2. /\ Top \in FrameType /\ Top.kind = "scope" /\ gcActive \in BOOLEAN
      /\ (gcActive => Marked(Top)) /\ Len(frames) # 1
  BY TopStands DEF Promote, SInv, TypeOK
<1>3. c \in FrameType
  BY <1>2 DEF FrameType
<1>4. /\ SameActivation(c, Top) /\ c.owned = TRUE /\ c.kind = "scope"
      /\ c.hazard = (Top.hazard \/ (~Top.owned /\ gcActive))
  BY <1>2 DEF FrameType, SameActivation
<1>5. frames' = WithTop(c)
  BY <1>1
<1> HIDE DEF c
<1>6. Boxed(c)
  BY <1>4 DEF Boxed
<1>7. gcActive => Marked(c)
  BY <1>2, <1>4 DEF Marked, SameActivation
<1>8. TW_HAZARDS' = TW_HAZARDS - One(Top.hazard) + One(c.hazard)
  <2>1. TW_HAZARDS' = TW_HAZARDS + One(~Top.owned /\ gcActive) /\ TW_HAZARDS \in Nat
    BY DEF Promote, SInv, TypeOK
  <2>2. CASE gcActive
    <3>1. (Top.hazard <=> Top.owned) /\ c.hazard
      BY <1>2, <1>4, <2>2 DEF Marked
    <3> QED BY <3>1, <2>1, <2>2 DEF One
  <2>3. CASE ~gcActive
    <3>1. One(~Top.owned /\ gcActive) = 0 /\ c.hazard = Top.hazard /\ One(Top.hazard) \in Nat
      BY <1>2, <1>4, <2>3 DEF One, FrameType
    <3> QED BY <3>1, <2>1
  <2> QED BY <2>2, <2>3
<1>9. UNCHANGED <<live, gcActive, GC_DEPTH, EXEC_DEPTH, LIVE_INTERPS>> /\ RestTyped'
  BY DEF Promote, SInv, TypeOK, RestTyped
<1> QED BY <1>2, <1>3, <1>4, <1>5, <1>6, <1>7, <1>8, <1>9, TopKeeps

LEMMA PushArgumentKeeps ==
  ASSUME SInv, PushArgument
  PROVE  SInv'
<1> DEFINE c == [Top EXCEPT !.boxed = @ \cup Top.words, !.words = {}]
<1>1. Top \in FrameType /\ Top.owned
  BY TopStands DEF PushArgument
<1>2. c \in FrameType
  BY <1>1 DEF FrameType
<1>3. SameActivation(c, Top) /\ c.hazard = Top.hazard /\ c.owned = Top.owned
  BY <1>1 DEF FrameType, SameActivation
<1>4. frames' = WithTop(c) /\ UNCHANGED <<live, gcActive, counters>> /\ RestTyped'
  BY DEF PushArgument, SInv, TypeOK, RestTyped
<1> HIDE DEF c
<1> QED BY <1>1, <1>2, <1>3, <1>4, ContentsKeep

LEMMA ReadArgumentsKeeps ==
  ASSUME SInv, ReadArguments
  PROVE  SInv'
<1>1. PICK h \in Holds(frames[Len(frames) - 1]) :
        frames' = WithTop([Top EXCEPT !.words = @ \cup {h}])
  BY DEF ReadArguments
<1>2. Top \in FrameType /\ Len(frames) \in Nat \ {0} /\ Len(frames) # 1
  BY TopStands DEF ReadArguments
<1>3. frames[Len(frames) - 1] \in FrameType
  <2>1. \A n \in Nat \ {0} : n # 1 => n - 1 \in 1 .. n
    OBVIOUS
  <2>2. Len(frames) - 1 \in 1 .. Len(frames)
    BY <2>1, <1>2
  <2> QED BY <2>2, TopType DEF SInv
<1>4. h \in Handles
  BY <1>3 DEF Holds, FrameType
<1> DEFINE w == Top.words \cup {h}
<1>5. w \in SUBSET Handles
  BY <1>2, <1>4 DEF FrameType
<1>6. [Top EXCEPT !.words = @ \cup {h}] = [Top EXCEPT !.words = w]
  OBVIOUS
<1>7. UNCHANGED <<live, gcActive, counters>> /\ RestTyped'
  BY DEF ReadArguments, SInv, TypeOK, RestTyped
<1> HIDE DEF w
<1> QED BY <1>1, <1>5, <1>6, <1>7, SamePolled, WordsKeep

LEMMA PollKeeps ==
  ASSUME SInv, Poll
  PROVE  SInv'
<1> DEFINE c == [Top EXCEPT !.polled = TRUE,
                   !.countdown = IF gcActive THEN Ticked(@) ELSE @]
           n == IF gcActive THEN Ticked(Top.countdown) ELSE Top.countdown
<1>1. Top \in FrameType
  BY TopStands
<1>2. n \in 1 .. Period
  BY <1>1, SafepointConstants DEF FrameType, Ticked
<1>3. c = [Top EXCEPT !.polled = TRUE, !.countdown = n]
  OBVIOUS
<1>4. frames' = WithTop(c) /\ UNCHANGED <<live, gcActive, counters>>
  BY DEF Poll
<1>5. RestTyped'
  <2>1. alive' \subseteq Handles /\ pending' \in BOOLEAN
    BY DEF Poll, SurvivingOnly, SInv, TypeOK
  <2> QED BY <2>1 DEF Poll, SInv, TypeOK, RestTyped
<1> HIDE DEF c, n
<1>6. c \in FrameType
  BY <1>1, <1>2, <1>3 DEF FrameType
<1>7. SameActivation(c, Top) /\ c.hazard = Top.hazard /\ c.owned = Top.owned /\ c.boxed = Top.boxed
  BY <1>1, <1>3 DEF FrameType, SameActivation
<1> QED BY <1>4, <1>5, <1>6, <1>7, ContentsKeep DEF Waits

LEMMA VmOpKeeps ==
  ASSUME SInv, VmOp
  PROVE  SInv'
<1>1. PICK v \in SUBSET Holds(Top) :
        frames' = WithTop([Top EXCEPT !.polled = FALSE, !.boxed = v, !.words = {}])
  BY DEF VmOp
<1> DEFINE c == [Top EXCEPT !.polled = FALSE, !.boxed = v, !.words = {}]
<1>2. Top \in FrameType /\ Top.kind = "exec" /\ v \in SUBSET Handles
  BY TopStands DEF VmOp
<1>3. c \in FrameType
  BY <1>2 DEF FrameType
<1>4. SameActivation(c, Top) /\ c.hazard = Top.hazard /\ c.owned = Top.owned
  BY <1>2 DEF FrameType, SameActivation
<1>5. UNCHANGED <<live, gcActive, counters>> /\ RestTyped' /\ frames' = WithTop(c)
  BY <1>1 DEF VmOp, SInv, TypeOK, RestTyped
<1> HIDE DEF c
<1>6. Top.owned
  BY <1>2, TopStands DEF Boxed
<1> QED BY <1>3, <1>4, <1>5, <1>6, ContentsKeep

LEMMA AllocKeeps ==
  ASSUME SInv, Alloc
  PROVE  SInv'
<1>1. PICK h \in Handles \ alive, outgrown \in BOOLEAN :
        /\ alive' = alive \cup {h}
        /\ frames' = WithTop([Top EXCEPT !.words = @ \cup {h}, !.polled = FALSE])
        /\ pending' = (pending \/ (outgrown /\ gcActive))
  BY DEF Alloc
<1> DEFINE w == Top.words \cup {h}
<1>2. w \in SUBSET Handles
  <2>1. Top \in FrameType
    BY TopStands
  <2> QED BY <2>1 DEF FrameType
<1>3. [Top EXCEPT !.words = @ \cup {h}, !.polled = FALSE]
        = [Top EXCEPT !.words = w, !.polled = FALSE]
  OBVIOUS
<1>4. UNCHANGED <<live, gcActive, counters>> /\ RestTyped'
  BY <1>1 DEF Alloc, SInv, TypeOK, RestTyped
<1> HIDE DEF w
<1> QED BY <1>1, <1>2, <1>3, <1>4, WordsKeep

LEMMA AccessKeeps ==
  ASSUME SInv, Access
  PROVE  SInv'
<1>1. UNCHANGED <<live, alive, gcActive, pending, counters, unwinding>>
  BY DEF Access
<1>2. TypeOK /\ Top \in FrameType /\ Holds(Top) \subseteq Handles /\ Top.words \subseteq Handles
  BY TopStands DEF FrameType
<1>3. PICK h \in Handles :
        \/ tables' = [tables EXCEPT ![Top.interp] = @ \cup {h}] /\ UNCHANGED frames
        \/ frames' = WithTop([Top EXCEPT !.words = @ \cup {h}]) /\ UNCHANGED tables
        \/ tables' = [tables EXCEPT ![Top.interp] = @ \ {h}] /\ UNCHANGED frames
        \/ frames' = WithTop([Top EXCEPT !.words = @ \ {h}]) /\ UNCHANGED tables
  BY DEF Access
<1>4. RestTyped'
  BY <1>1, <1>2, <1>3 DEF TypeOK, RestTyped
<1>5. ASSUME UNCHANGED frames PROVE SInv'
  BY <1>1, <1>4, <1>5, RestKeeps
<1>6. ASSUME NEW w \in SUBSET Handles, frames' = WithTop([Top EXCEPT !.words = w])
      PROVE  SInv'
  BY <1>1, <1>4, <1>6, SamePolled, WordsKeep
<1>7. ASSUME frames' = WithTop([Top EXCEPT !.words = @ \cup {h}])
      PROVE  SInv'
  <2> DEFINE w == Top.words \cup {h}
  <2>1. w \in SUBSET Handles /\ frames' = WithTop([Top EXCEPT !.words = w])
    BY <1>2, <1>7
  <2> HIDE DEF w
  <2> QED BY <2>1, <1>6
<1>8. ASSUME frames' = WithTop([Top EXCEPT !.words = @ \ {h}])
      PROVE  SInv'
  <2> DEFINE w == Top.words \ {h}
  <2>1. w \in SUBSET Handles /\ frames' = WithTop([Top EXCEPT !.words = w])
    BY <1>2, <1>8
  <2> HIDE DEF w
  <2> QED BY <2>1, <1>6
<1> QED BY <1>3, <1>5, <1>7, <1>8

LEMMA HostForgetKeeps ==
  ASSUME SInv, HostForget
  PROVE  SInv'
<1>1. frames' = WithTop([Top EXCEPT !.words = {}]) /\ {} \in SUBSET Handles
  BY DEF HostForget
<1>2. UNCHANGED <<live, gcActive, counters>> /\ RestTyped'
  BY DEF HostForget, SInv, TypeOK, RestTyped
<1>3. frames' = WithTop([Top EXCEPT !.words = {}, !.polled = Top.polled]) /\ Top.polled \in BOOLEAN
  BY <1>1, SamePolled
<1> QED BY <1>1, <1>2, <1>3, WordsKeep

(* ---- leaving an activation, and Interps ------------------------------------------------ *)

LEMMA ReturnKeeps ==
  ASSUME SInv, Return
  PROVE  SInv'
<1>1. PICK result \in SUBSET Holds(Top) :
        /\ frames' = Returned(result)
        /\ IF Top.kind = "funnel" /\ Top.guarded
              /\ Depth0Allows(GC_DEPTH - One(Top.guarded))
           THEN SurvivingOnly(Depth0Roots(result))
           ELSE UNCHANGED <<alive, pending>>
  BY DEF Return
<1>2. result \in SUBSET Handles
  BY TopStands
<1>3. RestTyped'
  <2>1. alive' \subseteq Handles /\ pending' \in BOOLEAN
    BY <1>1 DEF SurvivingOnly, SInv, TypeOK
  <2> QED BY <2>1 DEF Return, SInv, TypeOK, RestTyped
<1>4. Len(frames) > 1 /\ GuardsDropped(Top) /\ UNCHANGED <<live, gcActive>>
  BY DEF Return
<1> QED BY <1>1, <1>2, <1>3, <1>4, PopKeeps

LEMMA UnwindKeeps ==
  ASSUME SInv, Unwind
  PROVE  SInv'
<1>1. RestTyped' /\ UNCHANGED <<live, gcActive>>
  BY DEF Unwind, SInv, TypeOK, RestTyped
<1>2. CASE Len(frames) = 1
  BY <1>1, <1>2, RestKeeps DEF Unwind
<1>3. CASE Len(frames) # 1
  <2>1. \A n \in Nat \ {0} : n # 1 => n > 1
    OBVIOUS
  <2>2. Len(frames) > 1
    BY <2>1, <1>3, TopStands
  <2> QED BY <1>1, <1>3, <2>2, PopKeeps DEF Unwind
<1> QED BY <1>2, <1>3

LEMMA PanicKeeps ==
  ASSUME SInv, Panic
  PROVE  SInv'
<1>1. RestTyped' /\ UNCHANGED <<frames, live, gcActive, counters>>
  BY DEF Panic, SInv, TypeOK, RestTyped
<1> QED BY <1>1, RestKeeps

\* Collecting is switched on only with nothing of an interpreter on the stack.
LEMMA NewInterpKeeps ==
  ASSUME SInv, NewInterp
  PROVE  SInv'
<1>1. PICK i \in Interps \ live, wanted \in BOOLEAN :
        /\ live' = live \cup {i} /\ LIVE_INTERPS' = LIVE_INTERPS + 1
        /\ gcActive' = (gcActive \/ (wanted /\ MayEnable(live)))
  BY DEF NewInterp
<1>2. UNCHANGED <<frames, tables, alive, pending, GC_DEPTH, TW_HAZARDS, EXEC_DEPTH, unwinding>>
  BY DEF NewInterp
<1>3. IsFiniteSet(live) /\ live \subseteq Interps /\ LIVE_INTERPS = Cardinality(live)
  BY SafepointConstants, FS_Subset DEF SInv, TypeOK, Counts
<1>4. TypeOK'
  BY <1>1, <1>2 DEF SInv, TypeOK
<1>5. Counts'
  <2>1. LIVE_INTERPS' = Cardinality(live')
    BY <1>1, <1>3, FS_AddElement
  <2> QED BY <2>1, <1>2 DEF SInv, Counts
<1>6. Stack'
  <2> SUFFICES ASSUME NEW k \in 1 .. Len(frames)
               PROVE  FrameOK(frames[k], k, gcActive', live')
    BY <1>2 DEF Stack
  <2>1. FrameOK(frames[k], k, gcActive, live) /\ k \in Nat /\ k >= 1
    BY DEF SInv, Stack
  <2>2. Placed(frames[k], k, live')
    BY <1>1, <2>1 DEF FrameOK, Placed
  <2>3. ASSUME gcActive', ~gcActive
        PROVE  Marked(frames[k])
    <3>1. live = {}
      BY <1>1, <2>3 DEF MayEnable
    <3>2. ~(k > 1)
      BY <2>1, <3>1 DEF FrameOK, Placed
    <3>3. k = 1
      BY <2>1, <3>2
    <3>4. frames[k].kind = "host" /\ Unmarked(frames[k])
      BY <2>1, <3>3 DEF FrameOK, Placed
    <3> QED BY <3>4 DEF Marked, Unmarked
  <2> QED BY <2>1, <2>2, <2>3 DEF FrameOK
<1> QED BY <1>4, <1>5, <1>6 DEF SInv

LEMMA DropInterpKeeps ==
  ASSUME SInv, DropInterp
  PROVE  SInv'
<1>1. PICK i \in live :
        /\ \A k \in 2 .. Len(frames) : frames[k].interp # i
        /\ live' = live \ {i} /\ LIVE_INTERPS' = LIVE_INTERPS - 1
        /\ tables' = [tables EXCEPT ![i] = {}]
  BY DEF DropInterp
<1>2. UNCHANGED <<frames, alive, gcActive, pending, GC_DEPTH, TW_HAZARDS, EXEC_DEPTH, unwinding>>
  BY DEF DropInterp
<1>3. IsFiniteSet(live) /\ live \subseteq Interps /\ LIVE_INTERPS = Cardinality(live)
  BY SafepointConstants, FS_Subset DEF SInv, TypeOK, Counts
<1>4. LIVE_INTERPS' = Cardinality(live') /\ LIVE_INTERPS' \in Nat
  <2>1. IsFiniteSet(live') /\ Cardinality(live') = Cardinality(live) - 1
    BY <1>1, <1>3, FS_RemoveElement
  <2>2. Cardinality(live') \in Nat
    BY <2>1, FS_CardinalityType
  <2> QED BY <2>1, <2>2, <1>1, <1>3
<1>5. TypeOK'
  BY <1>1, <1>2, <1>4 DEF SInv, TypeOK
<1>6. Counts'
  BY <1>2, <1>4 DEF SInv, Counts
<1>7. Stack'
  <2> SUFFICES ASSUME NEW k \in 1 .. Len(frames)
               PROVE  FrameOK(frames[k], k, gcActive, live')
    BY <1>2 DEF Stack
  <2>1. FrameOK(frames[k], k, gcActive, live) /\ k \in Nat /\ k >= 1
    BY DEF SInv, Stack
  <2>2. k > 1 => frames[k].interp # i
    <3>1. k > 1 => k \in 2 .. Len(frames)
      BY TopStands
    <3> QED BY <3>1, <1>1
  <2>3. Placed(frames[k], k, live')
    BY <1>1, <2>1, <2>2 DEF FrameOK, Placed
  <2> QED BY <2>1, <2>3 DEF FrameOK
<1> QED BY <1>5, <1>6, <1>7 DEF SInv

(* ---- the theorems ------------------------------------------------------------------------ *)

LEMMA InitHolds ==
  ASSUME Init
  PROVE  SInv
<1>1. PICK i \in Interps :
        /\ frames = <<Frame("host", i, {})>>
        /\ tables = [j \in Interps |-> {}]
        /\ live = {} /\ alive = {}
        /\ gcActive = FALSE /\ pending = FALSE /\ unwinding = FALSE
        /\ GC_DEPTH = 0 /\ TW_HAZARDS = 0 /\ EXEC_DEPTH = 0 /\ LIVE_INTERPS = 0
  BY DEF Init
<1> DEFINE f == Frame("host", i, {})
<1>2. f \in FrameType
  BY FrameTypes DEF Kinds
<1>3. /\ f.kind = "host" /\ f.boxed = {} /\ f.owned = FALSE
      /\ f.guarded = FALSE /\ f.hazard = FALSE /\ f.counted = FALSE
  BY DEF Frame
<1> HIDE DEF f
<1>4. frames = <<f>>
  BY <1>1 DEF f
<1>5. frames \in Seq(FrameType) /\ Len(frames) = 1 /\ frames[1] = f /\ DOMAIN frames = 1 .. 1
  BY <1>2, <1>4
<1>6. TypeOK
  <2>1. 1 \in 1 .. MaxFrames
    BY SafepointConstants
  <2>2. Len(frames) \in 1 .. MaxFrames
    BY <1>5, <2>1
  <2>3. tables \in [Interps -> SUBSET Handles]
    BY <1>1
  <2> QED BY <1>1, <1>5, <2>2, <2>3 DEF TypeOK
<1>7. Stack
  <2>1. FrameOK(f, 1, FALSE, {})
    BY <1>3 DEF FrameOK, Boxed, Placed, Unmarked
  <2>2. \A k \in 1 .. Len(frames) : k = 1
    BY <1>5
  <2>3. ASSUME NEW k \in 1 .. Len(frames) PROVE FrameOK(frames[k], k, gcActive, live)
    <3>1. k = 1 /\ frames[k] = f
      BY <2>2, <1>5
    <3> QED BY <1>1, <2>1, <3>1
  <2> QED BY <2>3 DEF Stack
<1>8. Counts
  <2>1. ASSUME NEW b \in Flags PROVE Flagged(frames, b) = {}
    BY <1>3, <1>5 DEF Flags, Flagged
  <2>2. Cardinality({}) = 0
    BY FS_EmptySet
  <2>3. /\ Flagged(frames, "guarded") = {} /\ Flagged(frames, "hazard") = {}
        /\ Flagged(frames, "counted") = {}
    BY <2>1 DEF Flags
  <2> QED BY <1>1, <2>2, <2>3 DEF Counts
<1> QED BY <1>6, <1>7, <1>8 DEF SInv

LEMMA StepKeeps ==
  ASSUME SInv, [Next]_vars
  PROVE  SInv'
<1>1. CASE UNCHANGED vars
  BY <1>1 DEF vars, counters, SInv, TypeOK, Stack, Counts
<1>2. ASSUME Next PROVE SInv'
  BY <1>2, EnterFunnelKeeps, EnterTrampolineKeeps, PromoteKeeps, HoldArgumentsKeeps,
     PushArgumentKeeps, HostApplyKeeps, CallNativeKeeps, ReadArgumentsKeeps, EnterExecKeeps, PollKeeps,
     VmOpKeeps, AllocKeeps, AccessKeeps, ReturnKeeps, PanicKeeps, UnwindKeeps,
     NewInterpKeeps, DropInterpKeeps, HostForgetKeeps DEF Next
<1> QED BY <1>1, <1>2

\* The inductive invariant holds throughout.
THEOREM Invariance == Spec => []SInv
<1>1. Init => SInv
  BY InitHolds
<1>2. SInv /\ [Next]_vars => SInv'
  BY StepKeeps
<1> QED BY <1>1, <1>2, PTL DEF Spec

\* Every variable keeps its type: no thread-local counter goes below zero,
\* whatever the order in which guards are taken and dropped.
THEOREM TypeCorrect == Spec => []TypeOK
<1>1. SInv => TypeOK
  BY DEF SInv
<1> QED BY <1>1, Invariance, PTL

\* The counters and the stack agree while collecting is possible, so no guard is
\* taken twice, forgotten or dropped twice on any path, panics included.
THEOREM CountersAgree == Spec => []CountersTellTheStack
<1>1. SInv => CountersTellTheStack
  <2> SUFFICES ASSUME SInv, gcActive
               PROVE  /\ TW_HAZARDS = Cardinality(Containers({"scope", "buffer"}))
                      /\ EXEC_DEPTH = Cardinality(Running({"exec"}))
                      /\ GC_DEPTH = Cardinality(Running({"funnel", "exec"}))
                      /\ LIVE_INTERPS = Cardinality(live)
    BY DEF CountersTellTheStack
  <2>1. DOMAIN frames = 1 .. Len(frames)
    BY TopType DEF SInv
  <2>2. \A k \in DOMAIN frames : Marked(frames[k])
    BY <2>1 DEF SInv, Stack, FrameOK
  <2>3. Flagged(frames, "hazard") = Containers({"scope", "buffer"})
    BY <2>2 DEF Flagged, Containers, Running, Marked
  <2>4. Flagged(frames, "counted") = Running({"exec"})
    BY <2>2 DEF Flagged, Running, Marked
  <2>5. Flagged(frames, "guarded") = Running({"funnel", "exec"})
    BY <2>2 DEF Flagged, Running, Marked
  <2> QED BY <2>3, <2>4, <2>5 DEF SInv, Counts
<1> QED BY <1>1, Invariance, PTL

\* A flagged frame makes its counter positive.
LEMMA OneIsCounted ==
  ASSUME SInv, NEW b \in Flags, NEW k \in 1 .. Len(frames), frames[k][b]
  PROVE  Cardinality(Flagged(frames, b)) \in Nat \ {0}
<1>1. k \in Flagged(frames, b)
  BY TopType DEF Flagged, SInv
<1>2. IsFiniteSet(Flagged(frames, b)) /\ Cardinality(Flagged(frames, b)) \in Nat
  BY TopType, FlaggedFinite DEF SInv
<1>3. Cardinality(Flagged(frames, b)) # 0
  BY <1>1, <1>2, FS_EmptySet
<1> QED BY <1>2, <1>3

\* If hosts keep the contract of aot/runtime.rs, then whenever a native runs while
\* collecting is possible, the second frame of the stack is a guarded door and the
\* counter of activations is positive: no order of calls, new and dropped Interps,
\* errors and panics turns a direct entry made with collecting off into an
\* unguarded one.  Nothing in a release build enforces the contract itself.
THEOREM NativesAreGuarded ==
  ASSUME HostContract
  PROVE  Spec => []EntriesGuarded
<1>1. SInv => EntriesGuarded
  <2> SUFFICES ASSUME SInv, gcActive, NEW n \in DOMAIN frames,
                      frames[n].kind \in {"native", "direct"}
               PROVE  GC_DEPTH > 0
    BY DEF EntriesGuarded, Running
  <2>1. n \in 1 .. Len(frames) /\ Len(frames) \in Nat
    BY TopType DEF SInv
  <2>2. n # 1
    BY <2>1 DEF SInv, Stack, FrameOK, Placed
  <2>3. 2 \in 1 .. Len(frames)
    BY <2>1, <2>2
  <2>4. frames[2].guarded
    <3>1. FrameOK(frames[2], 2, gcActive, live)
      BY <2>3 DEF SInv, Stack
    <3> QED BY <3>1 DEF FrameOK, Placed, Marked
  <2>5. Cardinality(Flagged(frames, "guarded")) \in Nat \ {0}
    BY <2>3, <2>4, OneIsCounted DEF Flags
  <2>6. GC_DEPTH \in Nat \ {0}
    BY <2>5 DEF SInv, Counts
  <2> QED BY <2>6
<1> QED BY <1>1, Invariance, PTL

(* ---- when a request is served ------------------------------------------------------------ *)

\* A request is only made once collecting is possible.
Requested == pending => gcActive

LEMMA RequestedKeeps ==
  ASSUME SInv, Requested, [Next]_vars
  PROVE  Requested'
<1>0. gcActive \in BOOLEAN /\ pending \in BOOLEAN
  BY DEF SInv, TypeOK
<1>1. CASE UNCHANGED <<pending, gcActive>>
  BY <1>1 DEF Requested
<1>2. CASE Alloc
  BY <1>0, <1>2 DEF Alloc, Requested
<1>3. CASE Poll \/ Return
  BY <1>3 DEF Poll, Return, SurvivingOnly, Requested
<1>4. CASE NewInterp
  BY <1>0, <1>4 DEF NewInterp, Requested
<1>5. UNCHANGED <<pending, gcActive>> \/ Alloc \/ Poll \/ Return \/ NewInterp
  BY DEF Next, vars, EnterFunnel, EnterTrampoline, Promote, HoldArguments, PushArgument,
         HostApply, CallNative, ReadArguments, EnterExec, VmOp, Access, Panic, Unwind, DropInterp, HostForget
<1> QED BY <1>1, <1>2, <1>3, <1>4, <1>5

\* One flagged frame on the whole stack.
LEMMA OnlyOne ==
  ASSUME SInv, NEW b \in Flags, Cardinality(Flagged(frames, b)) = 1,
         NEW j \in 1 .. Len(frames), NEW k \in 1 .. Len(frames), frames[j][b], frames[k][b]
  PROVE  j = k
<1>1. j \in Flagged(frames, b) /\ k \in Flagged(frames, b)
  BY TopType DEF Flagged, SInv
<1>2. IsFiniteSet(Flagged(frames, b))
  BY TopType, FlaggedFinite DEF SInv
<1>3. \E x : Flagged(frames, b) = {x}
  BY <1>2, FS_Singleton
<1> QED BY <1>1, <1>3

\* The funnel that serves is the door right above the host.
LEMMA LastDoor ==
  ASSUME HostContract, SInv, Requested, Len(frames) > 1,
         Top.kind = "funnel", Top.guarded, Depth0Allows(GC_DEPTH - One(Top.guarded))
  PROVE  /\ gcActive /\ Len(frames) = 2 /\ frames[1].kind = "host"
         /\ Top.interp \in live /\ LIVE_INTERPS <= 1
<1>1. gcActive /\ LIVE_INTERPS <= 1 /\ GC_DEPTH = 1
  <2>1. GC_DEPTH - 1 = 0 /\ GC_DEPTH \in Nat
    BY DEF Depth0Allows, One, SInv, TypeOK
  <2> QED BY <2>1 DEF Depth0Allows, Requested
<1>2. 1 \in 1 .. Len(frames) /\ 2 \in 1 .. Len(frames) /\ Len(frames) \in 1 .. Len(frames)
  BY TopStands
<1>3. frames[2].guarded
  <2>1. FrameOK(frames[2], 2, gcActive, live)
    BY <1>2 DEF SInv, Stack
  <2> QED BY <2>1, <1>1 DEF FrameOK, Placed, Marked
<1>4. Cardinality(Flagged(frames, "guarded")) = 1
  BY <1>1 DEF SInv, Counts
<1>5. 2 = Len(frames)
  BY <1>2, <1>3, <1>4, OnlyOne DEF Top, Flags
<1>6. FrameOK(frames[1], 1, gcActive, live)
  BY <1>2 DEF SInv, Stack
<1> QED BY <1>1, <1>5, <1>6, TopStands DEF FrameOK, Placed

\* A request is served by the only machine, at the top of its loop, or with
\* nothing but the host left on the stack, if hosts keep their contract.
THEOREM ServedOnlyAtRest ==
  ASSUME HostContract
  PROVE  Spec => ServedAtRest
<1> DEFINE AtRest == pending /\ ~pending' =>
                       \/ Top.kind = "exec" /\ Len(frames') = Len(frames)
                       \/ Len(frames') = 1
<1>1. Init => Requested
  BY DEF Init, Requested
<1>2. SInv /\ Requested /\ [Next]_vars => Requested'
  BY RequestedKeeps
<1>3. SInv /\ Requested /\ [Next]_vars => [AtRest]_vars
  <2> SUFFICES ASSUME SInv, Requested, Next, pending, ~pending'
               PROVE  \/ Top.kind = "exec" /\ Len(frames') = Len(frames)
                      \/ Len(frames') = 1
    BY DEF vars
  <2>1. Poll \/ Return
    BY DEF Next, EnterFunnel, EnterTrampoline, Promote, HoldArguments, PushArgument,
           HostApply, CallNative, ReadArguments, EnterExec, VmOp, Alloc, Access, Panic, Unwind,
           NewInterp, DropInterp, HostForget
  <2>2. CASE Poll
    <3>1. Top \in FrameType /\ Top.kind = "exec"
      BY <2>2, TopStands DEF Poll
    <3>2. PICK c : frames' = WithTop(c)
      BY <2>2 DEF Poll
    <3>3. DOMAIN frames' = DOMAIN frames /\ frames' \in Seq(FrameType)
      <4>1. SInv'
        BY StepKeeps
      <4> QED BY <3>2, <4>1 DEF WithTop, SInv, TypeOK
    <3>4. Len(frames') = Len(frames)
      BY <3>3, LenProperties DEF SInv, TypeOK
    <3> QED BY <3>1, <3>4
  <2>3. CASE Return
    <3>1. /\ Len(frames) > 1 /\ Top.kind = "funnel" /\ Top.guarded
          /\ Depth0Allows(GC_DEPTH - One(Top.guarded))
      BY <2>3 DEF Return
    <3>2. Len(frames) = 2
      BY <3>1, LastDoor
    <3>3. PICK result \in SUBSET Handles : frames' = Returned(result)
      BY <2>3, TopStands DEF Return
    <3>4. Len(frames') = Len(frames) - 1
      BY <3>1, <3>3, PopShape DEF PoppedTo
    <3> QED BY <3>2, <3>4
  <2> QED BY <2>1, <2>2, <2>3
<1> QED BY <1>1, <1>2, <1>3, Invariance, PTL DEF Spec, ServedAtRest

\* An exec at its loop top has one thing to do.
LEMMA OnlyPolls ==
  ASSUME Next, Top.kind = "exec", ~Top.polled, ~unwinding
  PROVE  Poll
BY DEF Next, AtOp, EnterFunnel, EnterTrampoline, Promote, HoldArguments, PushArgument,
       HostApply, MayCall, CallNative, ReadArguments, EnterExec, VmOp, Alloc, Access, Return, Panic, Unwind,
       NewInterp, DropInterp, HostForget

\* A machine that could serve a pending request serves it, or comes nearer to the
\* poll that will, whenever it is at the top of its loop.
THEOREM ServedWithinPeriod == Spec => ServedInTime
<1> DEFINE InTime == CouldServe /\ pending /\ ~Top.polled /\ ~unwinding =>
                       ~pending' \/ NextPoll(frames') < NextPoll(frames)
<1>1. SInv /\ [Next]_vars => [InTime]_vars
  <2> SUFFICES ASSUME SInv, Next, CouldServe, pending, ~Top.polled, ~unwinding, pending'
               PROVE  NextPoll(frames') < NextPoll(frames)
    BY DEF vars
  <2>1. Poll /\ gcActive
    BY OnlyPolls DEF CouldServe
  <2>2. /\ Top \in FrameType /\ Top.countdown \in 1 .. Period
        /\ frames \in Seq(FrameType) /\ Len(frames) \in 1 .. Len(frames)
    BY TopStands DEF FrameType, SInv, TypeOK
  <2>3. Top.countdown # 1
    <3>1. MidRunAllows
      BY DEF CouldServe, MidRunAllows
    <3>2. Top.countdown = 1 => ~pending'
      BY <2>1, <3>1 DEF Poll, SurvivingOnly
    <3> QED BY <3>2
  <2>4. Ticked(Top.countdown) = Top.countdown - 1
    BY <2>3 DEF Ticked
  <2> DEFINE c == [Top EXCEPT !.polled = TRUE, !.countdown = Ticked(Top.countdown)]
  <2>5. frames' = WithTop(c)
    BY <2>1 DEF Poll
  <2>6. c.countdown = Top.countdown - 1
    BY <2>2, <2>4 DEF FrameType
  <2> HIDE DEF c
  <2>7. Len(frames') = Len(frames) /\ frames'[Len(frames)] = c
    BY <2>2, <2>5 DEF WithTop
  <2>8. NextPoll(frames') = Top.countdown - 1 /\ NextPoll(frames) = Top.countdown
    BY <2>6, <2>7 DEF NextPoll, Top
  <2> QED BY <2>2, <2>8
<1> QED BY <1>1, Invariance, PTL DEF Spec, ServedInTime

(* ---- nothing held is swept ------------------------------------------------------------------ *)

\* What the stack and the tables hold is alive, and a dead Interp holds nothing.
Kept ==
  /\ \A k \in 1 .. Len(frames) : Holds(frames[k]) \subseteq alive
  /\ \A i \in Interps : tables[i] \subseteq alive
  /\ \A i \in Interps \ live : tables[i] = {}

LEMMA TopKept ==
  ASSUME SInv, Kept
  PROVE  Holds(Top) \subseteq alive
<1>1. Len(frames) \in 1 .. Len(frames)
  BY TopStands
<1> QED BY <1>1 DEF Kept, Top

LEMMA SuspendedHolds ==
  ASSUME SInv
  PROVE  /\ Holds(Suspended(Top)) \subseteq Holds(Top)
         /\ Holds([Top EXCEPT !.polled = FALSE]) = Holds(Top)
<1>1. Top \in FrameType
  BY TopStands
<1>2. CASE Top.kind = "buffer"
  BY <1>1, <1>2 DEF Suspended, Holds, FrameType
<1>3. CASE Top.kind # "buffer"
  BY <1>1, <1>3 DEF Suspended, Holds, FrameType
<1> QED BY <1>2, <1>3

LEMMA PushKept ==
  ASSUME SInv, Kept, NEW c \in FrameType, NEW f \in FrameType, frames' = Pushed(c, f),
         Holds(c) \subseteq Holds(Top), Holds(f) \subseteq Holds(Top), UNCHANGED Rest
  PROVE  Kept'
<1>1. /\ Len(frames') = Len(frames) + 1
      /\ frames'[Len(frames)] = c /\ frames'[Len(frames) + 1] = f
      /\ \A k \in 1 .. Len(frames) - 1 : frames'[k] = frames[k]
  <2>1. TypeOK
    BY TopStands
  <2>2. \A gs : gs = Pushed(c, f) =>
          /\ gs \in Seq(FrameType) /\ Len(gs) = Len(frames) + 1
          /\ gs[Len(frames)] = c /\ gs[Len(frames) + 1] = f
          /\ \A k \in 1 .. Len(frames) - 1 : gs[k] = frames[k]
          /\ \A b \in Flags : Cardinality(Flagged(gs, b))
               = Cardinality(Flagged(frames, b)) - One(Top[b]) + One(c[b]) + One(f[b])
    BY <2>1, PushShape
  <2> QED BY <2>2
<1>2. UNCHANGED <<alive, tables, live>>
  BY DEF Rest
<1>3. ASSUME NEW k \in 1 .. Len(frames) + 1 PROVE Holds(frames'[k]) \subseteq alive
  <2>1. k = Len(frames) \/ k = Len(frames) + 1 \/ k \in 1 .. Len(frames) - 1
    BY TopStands
  <2>2. CASE k = Len(frames) \/ k = Len(frames) + 1
    BY <2>2, <1>1, TopKept
  <2>3. CASE k \in 1 .. Len(frames) - 1
    <3>1. k \in 1 .. Len(frames)
      BY <2>3, TopStands
    <3> QED BY <3>1, <2>3, <1>1 DEF Kept
  <2> QED BY <2>1, <2>2, <2>3
<1> QED BY <1>1, <1>2, <1>3 DEF Kept

LEMMA TopChangeKept ==
  ASSUME SInv, Kept, NEW c \in FrameType, frames' = WithTop(c),
         Holds(c) \subseteq alive', alive \subseteq alive', UNCHANGED <<tables, live>>
  PROVE  Kept'
<1>1. /\ Len(frames') = Len(frames) /\ frames'[Len(frames)] = c
      /\ \A k \in 1 .. Len(frames) - 1 : frames'[k] = frames[k]
  BY TopStands, TopShape
<1>2. ASSUME NEW k \in 1 .. Len(frames) PROVE Holds(frames'[k]) \subseteq alive'
  <2>1. k = Len(frames) \/ k \in 1 .. Len(frames) - 1
    BY TopStands
  <2>2. CASE k = Len(frames)
    BY <2>2, <1>1
  <2>3. CASE k \in 1 .. Len(frames) - 1
    BY <2>3, <1>1 DEF Kept
  <2> QED BY <2>1, <2>2, <2>3
<1> QED BY <1>1, <1>2 DEF Kept

\* The frame below takes a result from the top; nothing else moves.
LEMMA PopHolds ==
  ASSUME SInv, Kept, Len(frames) > 1,
         NEW result \in SUBSET Holds(Top), frames' = Below \/ frames' = Returned(result)
  PROVE  /\ Len(frames') = Len(frames) - 1
         /\ \A k \in 1 .. Len(frames) - 1 :
              /\ Holds(frames'[k]) \subseteq alive
              /\ frames'[k].boxed = frames[k].boxed
              /\ frames'[k].words \subseteq Below[k].words \cup result
<1>1. result \subseteq Handles /\ result \subseteq alive
  BY TopStands, TopKept
<1>2. /\ Below \in Seq(FrameType) /\ Len(Below) = Len(frames) - 1
      /\ \A k \in 1 .. Len(frames) - 1 : Below[k] = frames[k]
  <2>1. frames \in Seq(FrameType) /\ Len(frames) > 0 /\ Top \in FrameType
    BY TopType DEF SInv
  <2> QED BY <2>1, TopAndBelow DEF Below
<1>3. ASSUME NEW k \in 1 .. Len(frames) - 1
      PROVE  Holds(frames[k]) \subseteq alive /\ frames[k] \in FrameType
  <2>1. k \in 1 .. Len(frames)
    BY TopStands
  <2> QED BY <2>1, TopType DEF Kept, SInv
<1>4. CASE frames' = Below
  BY <1>2, <1>3, <1>4
<1>5. CASE frames' = Returned(result)
  <2> DEFINE m == Len(frames) - 1
             c == [Below[m] EXCEPT !.words = @ \cup result]
  <2>1. m \in Nat /\ m \in 1 .. Len(Below) /\ Len(Below) = m /\ Below[m] = frames[m] /\ frames[m] \in FrameType
    <3>1. \A n \in Nat : n > 1 => n - 1 \in Nat /\ n - 1 \in 1 .. n - 1
      OBVIOUS
    <3>2. m \in Nat /\ m \in 1 .. m
      BY <3>1, TopStands
    <3> QED BY <3>2, <1>2, <1>3
  <2>2. frames' = [Below EXCEPT ![m] = c]
    BY <1>5 DEF Returned
  <2>3. /\ c \in FrameType /\ c.boxed = frames[m].boxed /\ c.words = frames[m].words \cup result
    <3> HIDE DEF m
    <3> QED BY <1>1, <2>1 DEF FrameType
  <2> HIDE DEF m, c
  <2>4. /\ Len(frames') = m
        /\ \A k \in 1 .. m : frames'[k] = IF k = m THEN c ELSE Below[k]
    BY <1>2, <2>1, <2>2, <2>3, ExceptSeq
  <2>5. ASSUME NEW k \in 1 .. m
        PROVE  /\ Holds(frames'[k]) \subseteq alive
               /\ frames'[k].boxed = frames[k].boxed
               /\ frames'[k].words \subseteq Below[k].words \cup result
    <3>1. k \in 1 .. Len(frames) - 1 /\ Below[k] = frames[k]
      BY <1>2 DEF m
    <3>2. CASE k = m
      BY <3>1, <3>2, <2>1, <2>3, <2>4, <1>1, <1>3 DEF Holds
    <3>3. CASE k # m
      BY <3>1, <3>3, <2>4, <1>3
    <3> QED BY <3>2, <3>3
  <2> QED BY <2>4, <2>5 DEF m
<1> QED BY <1>4, <1>5

\* With one Interp alive, its tables are all the tables there are.
LEMMA OneInterp ==
  ASSUME SInv, Kept, LIVE_INTERPS <= 1, NEW i \in live
  PROVE  \A j \in Interps : tables[j] \subseteq tables[i]
<1>1. IsFiniteSet(live) /\ LIVE_INTERPS = Cardinality(live)
  BY SafepointConstants, FS_Subset DEF SInv, TypeOK, Counts
<1>2. Cardinality(live) \in Nat /\ Cardinality(live) # 0
  BY <1>1, FS_CardinalityType, FS_EmptySet
<1>3. Cardinality(live) = 1
  BY <1>1, <1>2
<1>4. \E x : live = {x}
  BY <1>1, <1>3, FS_Singleton
<1> QED BY <1>4 DEF Kept

\* Served in the loop of the only machine: no other frame has a container.
LEMMA PollKept ==
  ASSUME HostContract, SInv, Requested, Kept, Poll
  PROVE  Kept'
<1> DEFINE c == [Top EXCEPT !.polled = TRUE,
                   !.countdown = IF gcActive THEN Ticked(@) ELSE @]
<1>1. Top \in FrameType /\ Top.kind = "exec" /\ Len(frames) \in 1 .. Len(frames)
  BY TopStands DEF Poll
<1>2. frames' = WithTop(c) /\ UNCHANGED <<tables, live>>
  BY DEF Poll
<1>3. c \in FrameType /\ Holds(c) = Holds(Top)
  <2> DEFINE n == IF gcActive THEN Ticked(Top.countdown) ELSE Top.countdown
  <2>1. n \in 1 .. Period
    BY <1>1, SafepointConstants DEF FrameType, Ticked
  <2>2. c = [Top EXCEPT !.polled = TRUE, !.countdown = n]
    OBVIOUS
  <2> HIDE DEF c, n
  <2> QED BY <1>1, <2>1, <2>2 DEF FrameType, Holds
<1> HIDE DEF c
<1>4. CASE alive' = alive
  BY <1>2, <1>3, <1>4, TopKept, TopChangeKept
<1>5. ASSUME gcActive, MidRunAllows, alive' = alive \cap PollRoots
      PROVE  Kept'
  <2>1. Top.interp \in live /\ \A j \in Interps : tables[j] \subseteq tables[Top.interp]
    <3>1. Top.interp \in live /\ LIVE_INTERPS <= 1
      BY <1>1, <1>5, TopStands DEF MidRunAllows
    <3> QED BY <3>1, OneInterp
  <2>2. ASSUME NEW k \in 1 .. Len(frames)
        PROVE  Holds(frames[k]) \subseteq PollRoots
    <3>1. frames[k].words \subseteq ScannedWords(frames)
      BY TopType DEF ScannedWords, SInv
    <3>2. Boxed(frames[k]) /\ Marked(frames[k])
      BY <1>5 DEF SInv, Stack, FrameOK
    <3>3. ~frames[k].hazard
      <4>1. Cardinality(Flagged(frames, "hazard")) = 0
        BY <1>5 DEF MidRunAllows, SInv, Counts
      <4> QED BY <4>1, OneIsCounted DEF Flags
    <3>4. CASE frames[k].kind = "exec"
      <4>1. Marked(Top) /\ Top.counted /\ frames[k].counted
        BY <1>1, <1>5, <3>2, <3>4, TopStands DEF Marked
      <4>2. Cardinality(Flagged(frames, "counted")) = 1
        BY <1>5 DEF MidRunAllows, SInv, Counts
      <4>3. k = Len(frames)
        BY <1>1, <4>1, <4>2, OnlyOne DEF Flags, Top
      <4>4. frames[k].boxed = Top.boxed
        BY <4>3 DEF Top
      <4> QED BY <3>1, <4>4 DEF Holds, PollRoots
    <3>5. CASE frames[k].kind # "exec"
      <4>1. frames[k].boxed = {}
        BY <3>2, <3>3, <3>5 DEF Boxed, Marked
      <4> QED BY <3>1, <4>1 DEF Holds, PollRoots
    <3> QED BY <3>4, <3>5
  <2>3. /\ Len(frames') = Len(frames) /\ frames'[Len(frames)] = c
        /\ \A k \in 1 .. Len(frames) - 1 : frames'[k] = frames[k]
    BY <1>2, <1>3, TopStands, TopShape
  <2>4. ASSUME NEW k \in 1 .. Len(frames) PROVE Holds(frames'[k]) = Holds(frames[k])
    <3>1. k = Len(frames) \/ k \in 1 .. Len(frames) - 1
      BY TopStands
    <3> QED BY <3>1, <2>3, <1>3 DEF Top
  <2>5. \A k \in 1 .. Len(frames) : Holds(frames'[k]) \subseteq alive'
    BY <1>5, <2>2, <2>4 DEF Kept
  <2>6. \A i \in Interps : tables[i] \subseteq alive'
    BY <1>5, <2>1 DEF Kept, PollRoots
  <2> QED BY <1>2, <2>3, <2>5, <2>6 DEF Kept
<1> QED BY <1>4, <1>5 DEF Poll, SurvivingOnly

\* Served by the door above the host: only the host and the result are left.
LEMMA ReturnKept ==
  ASSUME HostContract, SInv, Requested, Kept, Return
  PROVE  Kept'
<1>1. PICK result \in SUBSET Holds(Top) :
        /\ frames' = Returned(result)
        /\ IF Top.kind = "funnel" /\ Top.guarded
              /\ Depth0Allows(GC_DEPTH - One(Top.guarded))
           THEN SurvivingOnly(Depth0Roots(result))
           ELSE UNCHANGED <<alive, pending>>
  BY DEF Return
<1>2. Len(frames) > 1 /\ UNCHANGED <<tables, live>>
  BY DEF Return
<1>3. /\ Len(frames') = Len(frames) - 1
      /\ \A k \in 1 .. Len(frames) - 1 :
           /\ Holds(frames'[k]) \subseteq alive
           /\ frames'[k].boxed = frames[k].boxed
           /\ frames'[k].words \subseteq Below[k].words \cup result
  BY <1>1, <1>2, PopHolds
<1>4. CASE alive' = alive
  BY <1>2, <1>3, <1>4 DEF Kept
<1>5. ASSUME Top.kind = "funnel", Top.guarded, Depth0Allows(GC_DEPTH - One(Top.guarded)),
             alive' = alive \cap Depth0Roots(result)
      PROVE  Kept'
  <2>1. /\ gcActive /\ Len(frames) = 2 /\ frames[1].kind = "host"
        /\ Top.interp \in live /\ LIVE_INTERPS <= 1
    BY <1>2, <1>5, LastDoor
  <2>2. frames[1].boxed = {}
    <3>1. 1 \in 1 .. Len(frames)
      BY <2>1
    <3>2. Boxed(frames[1])
      BY <3>1 DEF SInv, Stack, FrameOK
    <3> QED BY <2>1, <3>2 DEF Boxed
  <2>3. 1 \in DOMAIN Below
    <3>1. frames \in Seq(FrameType) /\ Len(frames) > 0 /\ Top \in FrameType
      BY <2>1, TopType DEF SInv
    <3>2. Below \in Seq(FrameType) /\ Len(Below) = Len(frames) - 1
      BY <3>1, TopAndBelow DEF Below
    <3>3. Len(Below) = 1
      BY <2>1, <3>2
    <3> QED BY <3>2, <3>3, LenProperties
  <2>4. Holds(frames'[1]) \subseteq alive'
    <3>1. 1 \in 1 .. Len(frames) - 1
      BY <2>1
    <3>2. Below[1].words \subseteq ScannedWords(Below)
      BY <2>3 DEF ScannedWords
    <3>3. frames'[1].boxed = {} /\ frames'[1].words \subseteq Depth0Roots(result)
      BY <1>3, <2>2, <3>1, <3>2 DEF Depth0Roots
    <3> QED BY <1>3, <1>5, <3>1, <3>3 DEF Holds
  <2>5. \A i \in Interps : tables[i] \subseteq alive'
    BY <1>5, <2>1, OneInterp DEF Kept, Depth0Roots
  <2>6. \A k \in 1 .. Len(frames') : k = 1
    BY <1>3, <2>1
  <2> QED BY <1>2, <2>4, <2>5, <2>6 DEF Kept
<1> QED BY <1>1, <1>4, <1>5 DEF SurvivingOnly

LEMMA StepKept ==
  ASSUME HostContract, SInv, Requested, Kept, [Next]_vars
  PROVE  Kept'
<1>1. TypeOK /\ Top \in FrameType /\ Holds(Top) \subseteq Handles /\ Holds(Top) \subseteq alive
  BY TopStands, TopKept
<1>2. CASE UNCHANGED vars
  BY <1>2 DEF vars, Kept
<1>3. CASE EnterFunnel
  <2>1. PICK i \in Callees(Top), w \in SUBSET Holds(Top) :
          frames' = Pushed(Suspended(Top), [Frame("funnel", i, w) EXCEPT !.guarded = gcActive])
    BY <1>3 DEF EnterFunnel
  <2> DEFINE g == Frame("funnel", i, w)
             f == [g EXCEPT !.guarded = gcActive]
  <2>2. g \in FrameType /\ g.words = w /\ g.boxed = {}
    <3>1. g.words = w /\ g.boxed = {}
      BY DEF Frame
    <3> QED BY <1>1, <3>1, CalleesAreLive, FrameTypes DEF Kinds
  <2> HIDE DEF g
  <2>3. f \in FrameType /\ Holds(f) \subseteq Holds(Top)
    BY <1>1, <2>2 DEF FrameType, Holds, TypeOK
  <2>4. frames' = Pushed(Suspended(Top), f)
    BY <2>1 DEF g
  <2>5. UNCHANGED Rest
    BY <1>3 DEF EnterFunnel, Rest
  <2> HIDE DEF f
  <2> QED BY <2>3, <2>4, <2>5, SuspendedWaits, SuspendedHolds, PushKept
<1>4. CASE EnterTrampoline
  <2> DEFINE f == Frame("scope", Top.interp, {})
  <2>1. f \in FrameType /\ Holds(f) = {}
    <3>1. Top.interp \in Interps
      BY <1>1 DEF FrameType
    <3>2. Holds(f) = {}
      BY DEF Frame, Holds
    <3> QED BY <3>1, <3>2, FrameTypes DEF Kinds
  <2>2. frames' = Pushed(Top, f) /\ UNCHANGED Rest
    BY <1>4, TopWaits DEF EnterTrampoline, Rest
  <2> HIDE DEF f
  <2> QED BY <1>1, <2>1, <2>2, PushKept
<1>5. CASE HoldArguments
  <2>1. PICK spilled \in BOOLEAN, v \in SUBSET Holds(Top) :
          frames' = Pushed(Suspended(Top),
             [Frame("buffer", Top.interp, IF spilled THEN {} ELSE v) EXCEPT
                !.boxed = IF spilled THEN v ELSE {}, !.owned = spilled,
                !.hazard = Arms(spilled)])
    BY <1>5 DEF HoldArguments
  <2> DEFINE g == Frame("buffer", Top.interp, IF spilled THEN {} ELSE v)
             f == [g EXCEPT !.boxed = IF spilled THEN v ELSE {}, !.owned = spilled,
                            !.hazard = Arms(spilled)]
  <2>2. g \in FrameType /\ g.words \subseteq v
    <3>1. Top.interp \in Interps /\ v \subseteq Handles
      BY <1>1 DEF FrameType
    <3>2. g.words \subseteq v
      BY DEF Frame
    <3> QED BY <3>1, <3>2, FrameTypes DEF Kinds
  <2> HIDE DEF g
  <2>3. Arms(spilled) \in BOOLEAN
    BY <1>1 DEF Arms, TypeOK
  <2>4. f \in FrameType /\ Holds(f) \subseteq Holds(Top)
    BY <1>1, <2>2, <2>3 DEF FrameType, Holds
  <2>5. frames' = Pushed(Suspended(Top), f)
    BY <2>1 DEF g
  <2>6. UNCHANGED Rest
    BY <1>5 DEF HoldArguments, Rest
  <2> HIDE DEF f
  <2> QED BY <2>4, <2>5, <2>6, SuspendedWaits, SuspendedHolds, PushKept
<1>6. CASE CallNative
  <2> DEFINE f == Frame("native", Top.interp, {})
             c == [Top EXCEPT !.polled = FALSE]
  <2>1. f \in FrameType /\ Holds(f) = {}
    <3>1. Top.interp \in Interps
      BY <1>1 DEF FrameType
    <3>2. Holds(f) = {}
      BY DEF Frame, Holds
    <3> QED BY <3>1, <3>2, FrameTypes DEF Kinds
  <2>2. frames' = Pushed(c, f) /\ UNCHANGED Rest
    BY <1>6 DEF CallNative, Rest
  <2>3. c \in FrameType /\ Holds(c) \subseteq Holds(Top)
    BY SuspendedWaits, SuspendedHolds
  <2> HIDE DEF f, c
  <2> QED BY <2>1, <2>2, <2>3, PushKept
<1>7. CASE EnterExec
  <2>1. PICK i \in Callees(Top), v \in SUBSET Holds(Top) :
          frames' = Pushed(Suspended(Top),
            [Frame("exec", i, {}) EXCEPT !.boxed = v, !.owned = TRUE,
               !.guarded = EngineGuard, !.counted = gcActive])
    BY <1>7 DEF EnterExec
  <2> DEFINE g == Frame("exec", i, {})
             f == [g EXCEPT !.boxed = v, !.owned = TRUE, !.guarded = EngineGuard,
                            !.counted = gcActive]
  <2>2. g \in FrameType /\ g.words = {}
    <3>1. g.words = {}
      BY DEF Frame
    <3> QED BY <3>1, CalleesAreLive, FrameTypes DEF Kinds
  <2> HIDE DEF g
  <2>3. f \in FrameType /\ Holds(f) \subseteq Holds(Top)
    BY <1>1, <2>2 DEF FrameType, Holds, EngineGuard, TypeOK
  <2>4. frames' = Pushed(Suspended(Top), f)
    BY <2>1 DEF g
  <2>5. UNCHANGED Rest
    BY <1>7 DEF EnterExec, Rest
  <2> HIDE DEF f
  <2> QED BY <2>3, <2>4, <2>5, SuspendedWaits, SuspendedHolds, PushKept
<1>8. CASE Promote
  <2>1. PICK fresh \in BOOLEAN :
          frames' = WithTop([Top EXCEPT
            !.boxed = (IF fresh THEN {} ELSE Top.boxed) \cup Top.words, !.words = {},
            !.owned = TRUE, !.hazard = Top.hazard \/ (~Top.owned /\ gcActive)])
    BY <1>8 DEF Promote
  <2> DEFINE c == [Top EXCEPT
            !.boxed = (IF fresh THEN {} ELSE Top.boxed) \cup Top.words, !.words = {},
            !.owned = TRUE, !.hazard = Top.hazard \/ (~Top.owned /\ gcActive)]
  <2>2. c \in FrameType /\ Holds(c) \subseteq Holds(Top)
    BY <1>1 DEF FrameType, Holds, TypeOK
  <2>3. frames' = WithTop(c) /\ alive' = alive /\ UNCHANGED <<tables, live>>
    BY <1>8, <2>1 DEF Promote
  <2> HIDE DEF c
  <2> QED BY <1>1, <2>2, <2>3, TopChangeKept
<1>9. CASE PushArgument
  <2> DEFINE c == [Top EXCEPT !.boxed = @ \cup Top.words, !.words = {}]
  <2>1. c \in FrameType /\ Holds(c) \subseteq Holds(Top)
    BY <1>1 DEF FrameType, Holds
  <2>2. frames' = WithTop(c) /\ alive' = alive /\ UNCHANGED <<tables, live>>
    BY <1>9 DEF PushArgument
  <2> HIDE DEF c
  <2> QED BY <1>1, <2>1, <2>2, TopChangeKept
<1>10. CASE VmOp
  <2>1. PICK v \in SUBSET Holds(Top) :
          frames' = WithTop([Top EXCEPT !.polled = FALSE, !.boxed = v, !.words = {}])
    BY <1>10 DEF VmOp
  <2> DEFINE c == [Top EXCEPT !.polled = FALSE, !.boxed = v, !.words = {}]
  <2>2. c \in FrameType /\ Holds(c) \subseteq Holds(Top)
    BY <1>1 DEF FrameType, Holds
  <2>3. frames' = WithTop(c) /\ alive' = alive /\ UNCHANGED <<tables, live>>
    BY <1>10, <2>1 DEF VmOp
  <2> HIDE DEF c
  <2> QED BY <1>1, <2>2, <2>3, TopChangeKept
<1>11. ASSUME NEW w \in SUBSET Handles, NEW p \in BOOLEAN, w \subseteq alive',
              frames' = WithTop([Top EXCEPT !.words = w, !.polled = p]),
              alive \subseteq alive', UNCHANGED <<tables, live>>
       PROVE  Kept'
  <2> DEFINE c == [Top EXCEPT !.words = w, !.polled = p]
  <2>1. c \in FrameType /\ Holds(c) \subseteq w \cup Holds(Top)
    BY <1>1 DEF FrameType, Holds
  <2>2. frames' = WithTop(c)
    BY <1>11
  <2> HIDE DEF c
  <2> QED BY <1>1, <1>11, <2>1, <2>2, TopChangeKept
<1>12. CASE Alloc
  <2>1. PICK h \in Handles \ alive :
          /\ alive' = alive \cup {h}
          /\ frames' = WithTop([Top EXCEPT !.words = @ \cup {h}, !.polled = FALSE])
    BY <1>12 DEF Alloc
  <2> DEFINE w == Top.words \cup {h}
  <2>2. w \in SUBSET Handles /\ w \subseteq alive'
    BY <1>1, <2>1 DEF FrameType, Holds
  <2>3. [Top EXCEPT !.words = @ \cup {h}, !.polled = FALSE]
          = [Top EXCEPT !.words = w, !.polled = FALSE]
    OBVIOUS
  <2>4. UNCHANGED <<tables, live>>
    BY <1>12 DEF Alloc
  <2> HIDE DEF w
  <2> QED BY <1>11, <2>1, <2>2, <2>3, <2>4
<1>13. CASE HostForget
  <2>1. frames' = WithTop([Top EXCEPT !.words = {}, !.polled = Top.polled]) /\ Top.polled \in BOOLEAN
    BY <1>13, SamePolled DEF HostForget
  <2>2. alive' = alive /\ UNCHANGED <<tables, live>>
    BY <1>13 DEF HostForget
  <2>3. {} \in SUBSET Handles /\ {} \subseteq alive'
    OBVIOUS
  <2> QED BY <1>11, <2>1, <2>2, <2>3
<1>14. CASE ReadArguments
  <2>1. PICK h \in Holds(frames[Len(frames) - 1]) :
          frames' = WithTop([Top EXCEPT !.words = @ \cup {h}])
    BY <1>14 DEF ReadArguments
  <2>2. Len(frames) - 1 \in 1 .. Len(frames)
    <3>1. \A n \in Nat \ {0} : n # 1 => n - 1 \in 1 .. n
      OBVIOUS
    <3> QED BY <3>1, <1>14, TopStands DEF ReadArguments
  <2>3. h \in alive
    BY <2>2 DEF Kept
  <2> DEFINE w == Top.words \cup {h}
  <2>4. w \in SUBSET Handles /\ w \subseteq alive
    BY <1>1, <2>3 DEF FrameType, Holds, TypeOK
  <2>5. [Top EXCEPT !.words = @ \cup {h}] = [Top EXCEPT !.words = w]
    OBVIOUS
  <2>6. alive' = alive /\ UNCHANGED <<tables, live>>
    BY <1>14 DEF ReadArguments
  <2> HIDE DEF w
  <2>7. frames' = WithTop([Top EXCEPT !.words = w, !.polled = Top.polled]) /\ Top.polled \in BOOLEAN
    BY <2>1, <2>4, <2>5, SamePolled
  <2> QED BY <1>11, <2>4, <2>6, <2>7
<1>15. CASE Access
  <2>1. PICK h \in Handles :
          \/ /\ h \in Holds(Top)
             /\ tables' = [tables EXCEPT ![Top.interp] = @ \cup {h}] /\ UNCHANGED frames
          \/ /\ h \in tables[Top.interp]
             /\ frames' = WithTop([Top EXCEPT !.words = @ \cup {h}]) /\ UNCHANGED tables
          \/ /\ h \in tables[Top.interp]
             /\ tables' = [tables EXCEPT ![Top.interp] = @ \ {h}] /\ UNCHANGED frames
          \/ /\ h \in Top.words
             /\ frames' = WithTop([Top EXCEPT !.words = @ \ {h}]) /\ UNCHANGED tables
    BY <1>15 DEF Access
  <2>2. UNCHANGED <<live, alive>>
    BY <1>15 DEF Access
  <2>3. Top.interp \in Interps /\ Top.words \subseteq Handles /\ Top.words \subseteq alive
    BY <1>1 DEF FrameType, Holds
  <2>4. ASSUME NEW s \in SUBSET alive, h \in Holds(Top) \/ h \in tables[Top.interp],
               tables' = [tables EXCEPT ![Top.interp] = s], UNCHANGED frames
        PROVE  Kept'
    <3>1. tables \in [Interps -> SUBSET Handles]
      BY <1>1 DEF TypeOK
    <3>2. Top.interp \in live
      <4>1. Top.kind # "host"
        BY <1>15 DEF Access
      <4> QED BY <4>1, TopStands
    <3>3. \A i \in Interps : tables'[i] = IF i = Top.interp THEN s ELSE tables[i]
      BY <2>4, <3>1
    <3>4. \A i \in Interps : tables'[i] \subseteq alive
      BY <3>3 DEF Kept
    <3>5. \A i \in Interps \ live : tables'[i] = {}
      BY <3>2, <3>3 DEF Kept
    <3>6. \A k \in 1 .. Len(frames) : Holds(frames[k]) \subseteq alive
      BY DEF Kept
    <3> QED BY <2>2, <2>4, <3>4, <3>5, <3>6 DEF Kept
  <2>5. ASSUME NEW w \in SUBSET alive, frames' = WithTop([Top EXCEPT !.words = w]),
               UNCHANGED tables
        PROVE  Kept'
    <3>1. w \in SUBSET Handles
      BY <1>1 DEF TypeOK
    <3>2. frames' = WithTop([Top EXCEPT !.words = w, !.polled = Top.polled]) /\ Top.polled \in BOOLEAN
      BY <2>5, <3>1, SamePolled
    <3> QED BY <1>11, <2>2, <2>5, <3>1, <3>2
  <2>6. tables[Top.interp] \subseteq alive
    BY <2>3 DEF Kept
  <2>7. ASSUME h \in Holds(Top), tables' = [tables EXCEPT ![Top.interp] = @ \cup {h}], UNCHANGED frames
        PROVE  Kept'
    <3>1. tables[Top.interp] \cup {h} \in SUBSET alive
      BY <1>1, <2>6, <2>7
    <3> QED BY <2>4, <2>7, <3>1
  <2>8. ASSUME h \in tables[Top.interp], tables' = [tables EXCEPT ![Top.interp] = @ \ {h}], UNCHANGED frames
        PROVE  Kept'
    <3>1. tables[Top.interp] \ {h} \in SUBSET alive
      BY <2>6
    <3> QED BY <2>4, <2>8, <3>1
  <2>9. ASSUME h \in tables[Top.interp], frames' = WithTop([Top EXCEPT !.words = @ \cup {h}]), UNCHANGED tables
        PROVE  Kept'
    <3>1. Top.words \cup {h} \in SUBSET alive
      BY <2>3, <2>6, <2>9
    <3> QED BY <2>5, <2>9, <3>1
  <2>10. ASSUME frames' = WithTop([Top EXCEPT !.words = @ \ {h}]), UNCHANGED tables
         PROVE  Kept'
    <3>1. Top.words \ {h} \in SUBSET alive
      BY <2>3
    <3> QED BY <2>5, <2>10, <3>1
  <2> QED BY <2>1, <2>7, <2>8, <2>9, <2>10
<1>16. CASE Unwind
  <2>1. UNCHANGED <<tables, live, alive>>
    BY <1>16 DEF Unwind
  <2>2. CASE Len(frames) = 1
    BY <1>16, <2>1, <2>2 DEF Unwind, Kept
  <2>3. CASE Len(frames) # 1
    <3>1. \A n \in Nat \ {0} : n # 1 => n > 1
      OBVIOUS
    <3>2. Len(frames) > 1 /\ frames' = Below /\ {} \in SUBSET Holds(Top)
      BY <1>16, <2>3, <3>1, TopStands DEF Unwind
    <3>3. /\ Len(frames') = Len(frames) - 1
          /\ \A k \in 1 .. Len(frames) - 1 : Holds(frames'[k]) \subseteq alive
      BY <3>2, PopHolds
    <3> QED BY <2>1, <3>3 DEF Kept
  <2> QED BY <2>2, <2>3
<1>17. CASE HostApply
  <2>1. PICK i \in live, spilled \in BOOLEAN, v \in SUBSET Top.words :
          frames' = Pushed([Top EXCEPT !.words = @ \ v],
            [Frame("direct", i, IF spilled THEN {} ELSE v) EXCEPT
               !.boxed = IF spilled THEN v ELSE {}, !.owned = spilled,
               !.polled = TRUE])
    BY <1>17 DEF HostApply
  <2> DEFINE w == Top.words \ v
             c == [Top EXCEPT !.words = w]
             g == Frame("direct", i, IF spilled THEN {} ELSE v)
             f == [g EXCEPT !.boxed = IF spilled THEN v ELSE {}, !.owned = spilled,
                            !.polled = TRUE]
  <2>2. i \in Interps /\ v \subseteq Handles /\ w \subseteq Top.words /\ v \subseteq Holds(Top)
    BY <1>1 DEF TypeOK, FrameType, Holds
  <2>3. frames' = Pushed(c, f)
    BY <2>1
  <2>4. c \in FrameType /\ Holds(c) \subseteq Holds(Top)
    <3> HIDE DEF w
    <3> QED BY <1>1, <2>2 DEF FrameType, Holds
  <2>5. g \in FrameType /\ g.words \subseteq v
    <3>1. g.words \subseteq v
      BY DEF Frame
    <3> QED BY <2>2, <3>1, FrameTypes DEF Kinds
  <2> HIDE DEF c, g
  <2>6. f \in FrameType /\ Holds(f) \subseteq Holds(Top)
    BY <1>1, <2>2, <2>5 DEF FrameType, Holds
  <2>7. UNCHANGED Rest
    BY <1>17 DEF HostApply, Rest
  <2> HIDE DEF f
  <2> QED BY <2>3, <2>4, <2>6, <2>7, PushKept
<1>18. CASE Panic
  BY <1>18 DEF Panic, Kept
<1>19. CASE NewInterp
  BY <1>19 DEF NewInterp, Kept
<1>20. CASE DropInterp
  <2>1. tables \in [Interps -> SUBSET Handles]
    BY <1>1 DEF TypeOK
  <2> QED BY <1>20, <2>1 DEF DropInterp, Kept
<1> QED BY <1>2, <1>3, <1>4, <1>5, <1>6, <1>7, <1>8, <1>9, <1>10, <1>12, <1>13, <1>14, <1>15,
           <1>16, <1>17, <1>18, <1>19, <1>20, PollKept, ReturnKept DEF Next

\* No collection, wherever it is served from, sweeps a node that the host, an
\* activation or a live Interp still holds: what the counters let through is
\* exactly what the scanned words and the enumerated containers cover.  A host must
\* keep the contract of aot/runtime.rs: its own Vec of arguments is in neither.
THEOREM NothingIsLost ==
  ASSUME HostContract
  PROVE  Spec => []NothingLost
<1>1. Init => Requested /\ Kept
  <2> SUFFICES ASSUME Init PROVE Requested /\ Kept
    OBVIOUS
  <2>1. PICK i \in Interps : frames = <<Frame("host", i, {})>>
    BY DEF Init
  <2>2. tables = [j \in Interps |-> {}] /\ pending = FALSE
    BY DEF Init
  <2>3. Holds(Frame("host", i, {})) = {}
    BY DEF Frame, Holds
  <2>4. \A k \in 1 .. Len(frames) : Holds(frames[k]) = {}
    <3> DEFINE f == Frame("host", i, {})
    <3>1. Holds(f) = {} /\ frames = <<f>>
      BY <2>1, <2>3
    <3> HIDE DEF f
    <3> QED BY <3>1
  <2> QED BY <2>2, <2>4 DEF Requested, Kept
<1>2. SInv /\ Requested /\ Kept /\ [Next]_vars => Requested' /\ Kept'
  BY RequestedKeeps, StepKept
<1>3. SInv /\ Kept => NothingLost
  <2> SUFFICES ASSUME SInv, Kept PROVE NothingLost
    OBVIOUS
  <2>1. live \subseteq Interps /\ DOMAIN frames = 1 .. Len(frames)
    BY TopType DEF SInv, TypeOK
  <2> QED BY <2>1 DEF Kept, NothingLost
<1> QED BY <1>1, <1>2, <1>3, Invariance, PTL DEF Spec
=============================================================================
