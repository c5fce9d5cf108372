--------------------------- MODULE VmFramesProofs ---------------------------
(***************************************************************************)
(* Well-formed code keeps the frames of exec apart on the shared stack and *)
(* never makes it meet an internal error, whatever the callees answer.     *)
(***************************************************************************)
EXTENDS VmFrames, SequenceTheorems, TLAPS

(* ---- sequences ------------------------------------------------------------------- *)

LEMMA IsSeqIntro ==
  ASSUME NEW S, NEW s \in Seq(S)
  PROVE  IsSeq(s)
<1>1. s \in [1 .. Len(s) -> S] /\ Len(s) \in Nat
  BY LenProperties
<1>2. s \in [1 .. Len(s) -> {s[k] : k \in DOMAIN s}]
  BY <1>1
<1> QED
  BY <1>1, <1>2, SeqDef DEF IsSeq

LEMMA IsSeqElim ==
  ASSUME NEW s, IsSeq(s)
  PROVE  /\ Len(s) \in Nat
         /\ DOMAIN s = 1 .. Len(s)
         /\ s \in Seq({s[k] : k \in 1 .. Len(s)})
  BY LenProperties DEF IsSeq

LEMMA SeqOver ==
  ASSUME NEW s, IsSeq(s), NEW S, \A k \in 1 .. Len(s) : s[k] \in S
  PROVE  s \in Seq(S)
<1> DEFINE T == {s[k] : k \in 1 .. Len(s)}
<1>1. s \in Seq(T)
  BY IsSeqElim
<1>2. T \subseteq S
  OBVIOUS
<1> HIDE DEF T
<1> QED
  BY <1>1, <1>2, SeqMonotonic

LEMMA Pushed ==
  ASSUME NEW s, NEW v, IsSeq(s)
  PROVE  /\ IsSeq(Append(s, v))
         /\ Len(Append(s, v)) = Len(s) + 1
         /\ \A k \in 1 .. Len(s) : Append(s, v)[k] = s[k]
         /\ Append(s, v)[Len(s) + 1] = v
<1> DEFINE S == {s[k] : k \in 1 .. Len(s)} \cup {v}
<1>1. \A k \in 1 .. Len(s) : s[k] \in S
  OBVIOUS
<1>2. v \in S
  OBVIOUS
<1>3. Len(s) \in Nat
  BY IsSeqElim
<1> HIDE DEF S
<1>4. s \in Seq(S)
  BY <1>1, SeqOver
<1>5. Append(s, v) \in Seq(S)
  BY <1>2, <1>4, AppendProperties
<1>6. IsSeq(Append(s, v))
  BY <1>5, IsSeqIntro
<1>7. /\ Len(Append(s, v)) = Len(s) + 1
      /\ \A k \in 1 .. Len(s) : Append(s, v)[k] = s[k]
      /\ Append(s, v)[Len(s) + 1] = v
  BY <1>2, <1>4, AppendProperties
<1> QED
  BY <1>6, <1>7

LEMMA Part ==
  ASSUME NEW s, NEW a \in Nat, NEW b \in Nat, IsSeq(s), 1 <= a, a <= b + 1, b <= Len(s)
  PROVE  /\ IsSeq(SubSeq(s, a, b))
         /\ Len(SubSeq(s, a, b)) = b + 1 - a
         /\ \A k \in 1 .. b + 1 - a : SubSeq(s, a, b)[k] = s[a + k - 1]
<1> DEFINE S == {s[k] : k \in 1 .. Len(s)}
<1>1. Len(s) \in Nat
  BY IsSeqElim
<1>2. \A k \in a .. b : s[k] \in S
  BY <1>1
<1> HIDE DEF S
<1>3. a \in Int /\ b \in Int
  OBVIOUS
<1>4. /\ SubSeq(s, a, b) \in Seq(S)
      /\ Len(SubSeq(s, a, b)) = IF a <= b THEN b - a + 1 ELSE 0
      /\ \A i \in 1 .. b - a + 1 : SubSeq(s, a, b)[i] = s[a + i - 1]
  BY <1>2, <1>3, SubSeqProperties
<1>5. IsSeq(SubSeq(s, a, b))
  BY <1>4, IsSeqIntro
<1>6. Len(SubSeq(s, a, b)) = b + 1 - a
  BY <1>4
<1>7. b - a + 1 = b + 1 - a
  OBVIOUS
<1> QED
  BY <1>4, <1>5, <1>6, <1>7

LEMMA Cut ==
  ASSUME NEW s, NEW n \in Nat, IsSeq(s), n <= Len(s)
  PROVE  /\ IsSeq(SubSeq(s, 1, n))
         /\ Len(SubSeq(s, 1, n)) = n
         /\ \A k \in 1 .. n : SubSeq(s, 1, n)[k] = s[k]
<1>1. 1 \in Nat /\ 1 <= n + 1 /\ n + 1 - 1 = n /\ \A k \in 1 .. n : 1 + k - 1 = k
  OBVIOUS
<1> QED
  BY <1>1, Part

LEMMA Joined ==
  ASSUME NEW s, NEW t, IsSeq(s), IsSeq(t)
  PROVE  /\ IsSeq(s \o t)
         /\ Len(s \o t) = Len(s) + Len(t)
         /\ \A k \in 1 .. Len(s) : (s \o t)[k] = s[k]
<1> DEFINE S == {s[k] : k \in 1 .. Len(s)} \cup {t[k] : k \in 1 .. Len(t)}
<1>1. /\ \A k \in 1 .. Len(s) : s[k] \in S
      /\ \A k \in 1 .. Len(t) : t[k] \in S
  OBVIOUS
<1>2. Len(s) \in Nat /\ Len(t) \in Nat
  BY IsSeqElim
<1> HIDE DEF S
<1>3. s \in Seq(S) /\ t \in Seq(S)
  BY <1>1, SeqOver
<1>4. /\ s \o t \in Seq(S)
      /\ Len(s \o t) = Len(s) + Len(t)
      /\ \A i \in 1 .. Len(s) + Len(t) :
           (s \o t)[i] = IF i <= Len(s) THEN s[i] ELSE t[i - Len(s)]
  BY <1>3, ConcatProperties
<1>5. IsSeq(s \o t)
  BY <1>4, IsSeqIntro
<1>6. \A k \in 1 .. Len(s) : (s \o t)[k] = s[k]
  BY <1>2, <1>4
<1> QED
  BY <1>4, <1>5, <1>6

LEMMA Overwritten ==
  ASSUME NEW s, NEW v, IsSeq(s), NEW j \in 1 .. Len(s)
  PROVE  /\ IsSeq([s EXCEPT ![j] = v])
         /\ Len([s EXCEPT ![j] = v]) = Len(s)
         /\ \A k \in 1 .. Len(s) : k # j => [s EXCEPT ![j] = v][k] = s[k]
<1> DEFINE S == {s[k] : k \in 1 .. Len(s)} \cup {v}
<1>1. \A k \in 1 .. Len(s) : s[k] \in S
  OBVIOUS
<1>2. v \in S
  OBVIOUS
<1> HIDE DEF S
<1>3. s \in Seq(S)
  BY <1>1, SeqOver
<1>4. /\ [s EXCEPT ![j] = v] \in Seq(S)
      /\ Len([s EXCEPT ![j] = v]) = Len(s)
      /\ \A k \in 1 .. Len(s) : [s EXCEPT ![j] = v][k] = IF k = j THEN v ELSE s[k]
  BY <1>2, <1>3, ExceptSeq
<1>5. IsSeq([s EXCEPT ![j] = v])
  BY <1>4, IsSeqIntro
<1> QED
  BY <1>4, <1>5

LEMMA ResizedSeq ==
  ASSUME NEW s, NEW n \in Nat, IsSeq(s)
  PROVE  /\ IsSeq(Resized(s, n))
         /\ Len(Resized(s, n)) = n
         /\ \A k \in 1 .. n : k <= Len(s) => Resized(s, n)[k] = s[k]
<1> DEFINE S == {s[k] : k \in 1 .. Len(s)} \cup {Nil}
<1>1. Len(s) \in Nat
  BY IsSeqElim
<1>2. \A k \in 1 .. n : (IF k <= Len(s) THEN s[k] ELSE Nil) \in S
  BY <1>1
<1> HIDE DEF S
<1>3. Resized(s, n) \in [1 .. n -> S]
  BY <1>2 DEF Resized
<1>4. Resized(s, n) \in Seq(S)
  BY <1>3, SeqDef
<1>5. Len(Resized(s, n)) = n
  BY <1>3, <1>4, LenProperties
<1>6. IsSeq(Resized(s, n))
  BY <1>4, IsSeqIntro
<1>7. \A k \in 1 .. n : k <= Len(s) => Resized(s, n)[k] = s[k]
  BY DEF Resized
<1> QED
  BY <1>5, <1>6, <1>7

LEMMA SamePrefix ==
  ASSUME NEW s, NEW t, NEW n \in Nat, IsSeq(s), IsSeq(t), n <= Len(s), n <= Len(t),
         \A k \in 1 .. n : s[k] = t[k]
  PROVE  SubSeq(s, 1, n) = SubSeq(t, 1, n)
<1> DEFINE S == {s[k] : k \in 1 .. n}
<1>1. \A k \in 1 .. n : s[k] \in S
  OBVIOUS
<1> HIDE DEF S
<1>2. /\ IsSeq(SubSeq(s, 1, n)) /\ Len(SubSeq(s, 1, n)) = n
      /\ \A k \in 1 .. n : SubSeq(s, 1, n)[k] = s[k]
  BY Cut
<1>3. /\ IsSeq(SubSeq(t, 1, n)) /\ Len(SubSeq(t, 1, n)) = n
      /\ \A k \in 1 .. n : SubSeq(t, 1, n)[k] = t[k]
  BY Cut
<1>4. SubSeq(s, 1, n) \in Seq(S)
  BY <1>1, <1>2, SeqOver
<1>5. SubSeq(t, 1, n) \in Seq(S)
  BY <1>1, <1>3, SeqOver
<1> QED
  BY <1>2, <1>3, <1>4, <1>5, SeqEqual

(* ---- registers --------------------------------------------------------------------- *)

Fetched(m) == [m EXCEPT !.pc = @ + 1]

\* Two states of the machine in one frame.
SameFrame(m, n) ==
  /\ n.bf = m.bf /\ n.upvals = m.upvals /\ n.base = m.base /\ n.ret = m.ret
  /\ n.frames = m.frames /\ n.halted = m.halted

\* What may change within a frame.
Becomes(m, n, stack, pc, w) ==
  /\ IsMachine(n) /\ SameFrame(m, n) /\ n.stack = stack /\ n.pc = pc /\ n.w = w

LEMMA FetchedIs ==
  ASSUME NEW m, IsMachine(m)
  PROVE  Becomes(m, Fetched(m), m.stack, m.pc + 1, m.w)
BY DEF IsMachine, Fetched, Becomes, SameFrame

LEMMA WithStack ==
  ASSUME NEW m, NEW s, IsMachine(m)
  PROVE  Becomes(m, [m EXCEPT !.stack = s], s, m.pc, m.w)
BY DEF IsMachine, Becomes, SameFrame

LEMMA WithPc ==
  ASSUME NEW m, NEW pc, IsMachine(m)
  PROVE  Becomes(m, [m EXCEPT !.pc = pc], m.stack, pc, m.w)
BY DEF IsMachine, Becomes, SameFrame

LEMMA WithWorld ==
  ASSUME NEW m, NEW w, IsMachine(m)
  PROVE  Becomes(m, [m EXCEPT !.w = w], m.stack, m.pc, w)
BY DEF IsMachine, Becomes, SameFrame

LEMMA PushingIs ==
  ASSUME NEW m, NEW v, IsMachine(m)
  PROVE  Becomes(m, Pushing(m, v), Append(m.stack, v), m.pc, m.w)
BY DEF IsMachine, Pushing, Becomes, SameFrame

LEMMA BecomesInTurn ==
  ASSUME NEW m, NEW n, NEW o, NEW s, NEW t, NEW pc, NEW qc, NEW v, NEW w,
         Becomes(m, n, s, pc, v), Becomes(n, o, t, qc, w)
  PROVE  Becomes(m, o, t, qc, w)
BY DEF Becomes, SameFrame

LEMMA WithFlag ==
  ASSUME NEW m, NEW b, IsMachine(m)
  PROVE  IsMachine([m EXCEPT !.halted = b]) /\ [m EXCEPT !.halted = b].halted = b
BY DEF IsMachine

LEMMA HaltedIs ==
  ASSUME NEW m, NEW r, IsMachine(m)
  PROVE  IsMachine(Halted(m, r)) /\ Halted(m, r).halted /\ Halted(m, r).w = r.w
<1> DEFINE n == [m EXCEPT !.halted = TRUE]
           o == [n EXCEPT !.result = r]
<1>1. IsMachine(n) /\ n.halted
  BY WithFlag
<1>2. IsMachine(o) /\ o.halted
  <2> HIDE DEF n
  <2> QED
    BY <1>1 DEF IsMachine
<1>3. Halted(m, r) = [o EXCEPT !.w = r.w]
  BY DEF Halted
<1> HIDE DEF n, o
<1> QED
  BY <1>2, <1>3 DEF IsMachine

(* ---- a sound machine ------------------------------------------------------------------ *)

Height(m) == Heights(m.bf.code)[m.pc]

LEMMA SoundRegisters ==
  ASSUME NEW m, Sound(m)
  PROVE  /\ m.base \in Nat /\ m.bf.n \in Nat /\ Floor(m) \in Nat /\ m.base <= Floor(m)
         /\ Len(m.bf.code) \in Nat
         /\ m.pc \in 0 .. Len(m.bf.code) - 1
         /\ Height(m) \in Nat
         /\ OpFits(m.pc, Heights(m.bf.code), m.bf, m.upvals)
         /\ IsSeq(m.stack)
         /\ Depth(m) = Floor(m) + Height(m)
<1>1. WellFormed(m.bf, m.upvals)
  BY DEF Sound, Resumable
<1>2. m.base \in Nat /\ m.bf.n \in Nat /\ Floor(m) \in Nat /\ m.base <= Floor(m)
  BY <1>1 DEF Sound, WellFormed, Floor
<1>3. Len(m.bf.code) \in Nat
  BY <1>1, IsSeqElim DEF WellFormed
<1>4. m.pc \in 0 .. Len(m.bf.code) - 1 /\ Height(m) >= 0
  BY DEF Sound, Resumable, Height
<1>5. Height(m) \in Nat
  BY <1>1, <1>3, <1>4 DEF WellFormed, Height
<1>6. OpFits(m.pc, Heights(m.bf.code), m.bf, m.upvals)
  BY <1>1, <1>4 DEF WellFormed, Height
<1> QED
  BY <1>2, <1>3, <1>4, <1>5, <1>6 DEF Sound, LaidOut, Height

\* A frame's locals start right above the slot its result goes to.
LEMMA SoundBase ==
  ASSUME NEW m, Sound(m)
  PROVE  /\ m.base = m.ret + 1
         /\ m.ret = Outermost \/ m.ret \in Nat
         /\ m.ret = Outermost <=> Len(m.frames) = 0
<1>1. Len(m.frames) \in Nat
  BY IsSeqElim DEF Sound
<1>2. CASE Len(m.frames) = 0
  BY <1>2 DEF Sound, LaidOut, RetOf, BaseOf, Outermost
<1>3. CASE Len(m.frames) > 0
  <2> DEFINE k == Len(m.frames)
             f == m.frames[k]
  <2>1. k \in 1 .. Len(m.frames)
    BY <1>1, <1>3
  <2>2. Suspended(m, k) /\ FrameOK(f)
    BY <2>1 DEF Sound, LaidOut
  <2>3. m.ret = f.base + f.bf.n + Heights(f.bf.code)[f.pc] - 1 /\ m.base = m.ret + 1
    BY <2>1, <2>2 DEF Suspended, RetOf, BaseOf
  <2>4. WellFormed(f.bf, f.upvals) /\ f.pc \in 0 .. Len(f.bf.code) - 1
        /\ Heights(f.bf.code)[f.pc] >= 1 /\ f.base \in Nat
    BY <2>2 DEF FrameOK, Resumable
  <2>5. Len(f.bf.code) \in Nat
    BY <2>4, IsSeqElim DEF WellFormed
  <2>6. f.bf.n \in Nat /\ Heights(f.bf.code)[f.pc] \in Int
    BY <2>4, <2>5 DEF WellFormed
  <2>7. m.ret \in Nat
    <3>1. \A a, b \in Nat, c \in Int : c >= 1 => a + b + c - 1 \in Nat
      OBVIOUS
    <3> HIDE DEF f
    <3> QED
      BY <2>3, <2>4, <2>6, <3>1
  <2> QED
    BY <1>3, <2>3, <2>7 DEF Outermost
<1> QED
  BY <1>1, <1>2, <1>3

\* What a turn must keep of a sound machine.
Untouched(m, n) ==
  m.ret # Outermost => Truncated(n, m.ret) = Truncated(m, m.ret)

Good(m, n) ==
  IsMachine(n) /\ ~n.w.broken /\ (~n.halted => Sound(n) /\ Untouched(m, n))

LEMMA UntouchedBelow ==
  ASSUME NEW m, NEW n, Sound(m), IsSeq(n.stack), m.ret <= Len(n.stack),
         \A k \in 1 .. m.base - 1 : n.stack[k] = m.stack[k]
  PROVE  Untouched(m, n)
<1> SUFFICES ASSUME m.ret # Outermost PROVE Truncated(n, m.ret) = Truncated(m, m.ret)
  BY DEF Untouched
<1>1. m.ret \in Nat /\ m.base = m.ret + 1
  BY SoundBase
<1>2. IsSeq(m.stack) /\ m.ret <= Len(m.stack)
  BY <1>1, SoundRegisters DEF Depth
<1>3. \A k \in 1 .. m.ret : n.stack[k] = m.stack[k]
  BY <1>1
<1> QED
  BY <1>1, <1>2, <1>3, SamePrefix DEF Truncated

\* In its frame the machine is sound wherever the heights say it is.
LEMMA StaysSound ==
  ASSUME NEW m, NEW n, Sound(m), SameFrame(m, n), IsSeq(n.stack),
         n.pc \in 0 .. Len(m.bf.code) - 1, Heights(m.bf.code)[n.pc] >= 0,
         Len(n.stack) = Floor(m) + Heights(m.bf.code)[n.pc]
  PROVE  Sound(n)
<1>1. Resumable(n.bf, n.upvals, n.pc, 0)
  BY DEF Sound, Resumable, SameFrame
<1>2. \A k : RetOf(n, k) = RetOf(m, k) /\ BaseOf(n, k) = BaseOf(m, k)
  BY DEF RetOf, BaseOf, SameFrame
<1>3. \A k \in 1 .. Len(n.frames) : Suspended(n, k)
  BY <1>2 DEF Sound, LaidOut, Suspended, SameFrame
<1>4. LaidOut(n)
  BY <1>2, <1>3 DEF Sound, LaidOut, SameFrame, Depth, Floor
<1> QED
  BY <1>1, <1>4 DEF Sound, SameFrame

\* An op that goes on in its frame changes the depth by its effect.
LEMMA OpEffect ==
  ASSUME NEW m, Sound(m), NEW to \in 0 .. Len(m.bf.code), Flows(m.bf.code, m.pc, to)
  PROVE  /\ to \in 0 .. Len(m.bf.code) - 1
         /\ Heights(m.bf.code)[to] = Height(m) + Effect(NextOp(m))
<1>1. OpFits(m.pc, Heights(m.bf.code), m.bf, m.upvals) /\ Len(m.bf.code) \in Nat
  BY SoundRegisters
<1> QED
  BY <1>1 DEF OpFits, Height, NextOp

LEMMA EffectBound ==
  ASSUME NEW m, Sound(m), NextOp(m).op \notin {"Return", "TailCall", "SelfTailCall"}
  PROVE  /\ Effect(NextOp(m)) \in Int
         /\ Height(m) + Effect(NextOp(m)) >= 0
<1> DEFINE i == NextOp(m)
<1>1. OpFits(m.pc, Heights(m.bf.code), m.bf, m.upvals) /\ Height(m) \in Nat
  BY SoundRegisters
<1>2. OperandsFit(i, m.bf, m.upvals) /\ Takes(i) <= Height(m)
  BY <1>1 DEF OpFits, Height, NextOp
<1>3. CASE i.op \in {"LoadConst", "LoadLocal", "LoadUpval", "LoadGlobal", "Jump"}
  BY <1>1, <1>3 DEF Effect
<1>4. CASE i.op \in {"StoreLocal", "Pop", "JumpFalse"}
  BY <1>1, <1>2, <1>4 DEF Effect, Takes, NeedsOperands
<1>5. CASE i.op = "Call"
  BY <1>1, <1>2, <1>5 DEF Effect, Takes, OperandsFit
<1>6. CASE i.op = "MakeClosure"
  BY <1>1, <1>2, <1>6 DEF Effect, Takes, NeedsOperands, OperandsFit
<1>7. CASE i.op = "Prim"
  BY <1>1, <1>2, <1>7 DEF Effect, Takes, NeedsOperands, OperandsFit
<1> QED
  BY <1>2, <1>3, <1>4, <1>5, <1>6, <1>7 DEF OperandsFit

LEMMA GoesOn ==
  ASSUME NEW m, NEW n, NEW s, NEW to \in 0 .. Len(m.bf.code), NEW w,
         Sound(m), ~w.broken,
         NextOp(m).op \notin {"Return", "TailCall", "SelfTailCall"},
         Flows(m.bf.code, m.pc, to),
         Becomes(m, n, s, to, w),
         IsSeq(s), Len(s) = Depth(m) + Effect(NextOp(m)),
         \A k \in 1 .. m.base - 1 : s[k] = m.stack[k]
  PROVE  Good(m, n)
<1>1. /\ to \in 0 .. Len(m.bf.code) - 1
      /\ Heights(m.bf.code)[to] = Height(m) + Effect(NextOp(m))
  BY OpEffect
<1>2. /\ Effect(NextOp(m)) \in Int
      /\ Height(m) + Effect(NextOp(m)) >= 0
  BY EffectBound
<1>3. /\ Depth(m) = Floor(m) + Height(m) /\ Floor(m) \in Nat /\ Height(m) \in Nat
      /\ m.base <= Floor(m) /\ m.base \in Nat
  BY SoundRegisters
<1>4. Len(s) = Floor(m) + Heights(m.bf.code)[to]
  BY <1>1, <1>2, <1>3
<1>5. IsMachine(n) /\ SameFrame(m, n) /\ n.stack = s /\ n.pc = to /\ n.w = w
  BY DEF Becomes
<1>6. Sound(n)
  BY <1>1, <1>2, <1>4, <1>5, StaysSound
<1>7. m.ret <= Len(s)
  <2>1. m.base = m.ret + 1 /\ m.ret \in Int
    BY SoundBase DEF Outermost
  <2>2. Heights(m.bf.code)[to] \in Nat
    BY <1>1, <1>2, <1>3
  <2> QED
    BY <1>3, <1>4, <2>1, <2>2
<1>8. Untouched(m, n)
  BY <1>5, <1>7, UntouchedBelow
<1> QED
  BY <1>5, <1>6, <1>8 DEF Good

LEMMA Stops ==
  ASSUME NEW m, NEW n, NEW r, IsMachine(m), ~r.w.broken
  PROVE  Good(n, Halted(m, r))
BY HaltedIs DEF Good

(* ---- the ops that stay in their frame --------------------------------------------------- *)

Ready(m) == IsMachine(m) /\ ~m.halted /\ ~m.w.broken /\ Sound(m)

\* The checks of exec never fail on well-formed code.
LEMMA WellFed ==
  ASSUME NEW m, Ready(m)
  PROVE  ~(m.pc >= Len(m.bf.code) \/ Malformed(Fetched(m), NextOp(m)))
<1> DEFINE i == NextOp(m)
<1>1. /\ OpFits(m.pc, Heights(m.bf.code), m.bf, m.upvals)
      /\ m.pc \in 0 .. Len(m.bf.code) - 1 /\ Len(m.bf.code) \in Nat
      /\ Depth(m) = Floor(m) + Height(m) /\ Floor(m) \in Nat /\ Height(m) \in Nat
      /\ m.bf.n \in Nat
  BY SoundRegisters DEF Ready
<1>2. OperandsFit(i, m.bf, m.upvals) /\ Takes(i) <= Height(m)
  BY <1>1 DEF OpFits, Height, NextOp
<1>3. Len(m.upvals) \in Nat
  BY IsSeqElim DEF Ready, Sound, Resumable, WellFormed
<1>4. /\ Depth(Fetched(m)) = Depth(m) /\ Floor(Fetched(m)) = Floor(m)
      /\ Fetched(m).bf = m.bf /\ Fetched(m).upvals = m.upvals
  BY FetchedIs DEF Ready, Becomes, SameFrame, Depth, Floor
<1>5. i.op \in {"Call", "TailCall"} => i.n \in Nat /\ i.n + 1 <= Height(m)
  BY <1>2 DEF OperandsFit, Takes
<1>6. i.op \notin {"Call", "TailCall"} => NeedsOperands(i) <= Height(m)
  BY <1>2 DEF Takes
<1>7. i.op \in {"Call", "TailCall"} => NeedsOperands(i) = 0
  BY DEF NeedsOperands
<1>8. NeedsOperands(i) \in Nat
  BY <1>2 DEF NeedsOperands, OperandsFit
<1>9. ~(NeedsOperands(i) > 0 /\ Depth(m) < Floor(m) + NeedsOperands(i))
  BY <1>1, <1>6, <1>7, <1>8
<1>10. ~(i.op \in {"Call", "TailCall"} /\ Depth(m) < i.n + 1)
  BY <1>1, <1>5
<1>11. ~(i.op \in {"LoadLocal", "StoreLocal"} /\ i.n >= m.bf.n)
  BY <1>1, <1>2 DEF OperandsFit
<1>12. ~(i.op = "LoadUpval" /\ i.n >= Len(m.upvals))
  BY <1>2, <1>3 DEF OperandsFit
<1>13. ~(i.op = "SelfTailCall" /\ i.n > m.bf.n)
  BY <1>1, <1>2 DEF OperandsFit
<1>14. ~Malformed(Fetched(m), i)
  BY <1>4, <1>9, <1>10, <1>11, <1>12, <1>13 DEF Malformed
<1> QED
  BY <1>1, <1>14

\* The op after this one.
LEMMA NextInFrame ==
  ASSUME NEW m, Sound(m),
         NextOp(m).op \notin {"Jump", "Return", "TailCall", "SelfTailCall"}
  PROVE  m.pc + 1 \in 0 .. Len(m.bf.code) /\ Flows(m.bf.code, m.pc, m.pc + 1)
BY SoundRegisters DEF Flows, NextOp

LEMMA ReadyIs ==
  ASSUME NEW m, Ready(m)
  PROVE  /\ IsMachine(m) /\ ~m.halted /\ ~m.w.broken /\ Sound(m)
         /\ IsMachine(Fetched(m))
         /\ Becomes(m, Fetched(m), m.stack, m.pc + 1, m.w)
         /\ IsSeq(m.stack) /\ Len(m.stack) \in Nat /\ Len(m.stack) = Depth(m)
         /\ Depth(Fetched(m)) = Depth(m)
BY FetchedIs, SoundRegisters, IsSeqElim DEF Ready, Becomes, Depth

LEMMA Loads ==
  ASSUME NEW m, NEW v, Ready(m),
         NextOp(m).op \in {"LoadConst", "LoadLocal", "LoadUpval", "LoadGlobal"}
  PROVE  Good(m, Pushing(Fetched(m), v))
<1> DEFINE n == Pushing(Fetched(m), v)
           s == Append(m.stack, v)
<1>1. Becomes(m, n, s, m.pc + 1, m.w)
  BY ReadyIs, PushingIs, BecomesInTurn DEF Becomes
<1>2. IsSeq(s) /\ Len(s) = Depth(m) + 1 /\ \A k \in 1 .. Len(m.stack) : s[k] = m.stack[k]
  BY ReadyIs, Pushed
<1>3. Effect(NextOp(m)) = 1
  BY DEF Effect
<1>4. m.pc + 1 \in 0 .. Len(m.bf.code) /\ Flows(m.bf.code, m.pc, m.pc + 1)
  BY ReadyIs, NextInFrame
<1>5. m.base - 1 <= Len(m.stack) /\ m.base \in Nat
  BY ReadyIs, SoundRegisters
<1>6. \A k \in 1 .. m.base - 1 : s[k] = m.stack[k]
  BY <1>2, <1>5, ReadyIs
<1>7. NextOp(m).op \notin {"Return", "TailCall", "SelfTailCall"}
  OBVIOUS
<1> HIDE DEF n, s
<1>8. Good(m, n)
  BY <1>1, <1>2, <1>3, <1>4, <1>6, <1>7, ReadyIs, GoesOn
<1> QED
  BY <1>8 DEF n

\* Operands that go.
LEMMA Drops ==
  ASSUME NEW m, NEW k \in Nat, Ready(m), k <= Height(m)
  PROVE  LET n == Fetched(m)
             s == Dropped(n, k)
         IN /\ Becomes(m, [n EXCEPT !.stack = s], s, m.pc + 1, m.w)
            /\ IsMachine([n EXCEPT !.stack = s])
            /\ IsSeq(s) /\ Len(s) = Depth(m) - k
            /\ \A j \in 1 .. Depth(m) - k : s[j] = m.stack[j]
            /\ m.base - 1 <= Depth(m) - k /\ Floor(m) <= Depth(m) - k
<1> DEFINE n == Fetched(m)
           s == Dropped(n, k)
<1>1. Becomes(m, n, m.stack, m.pc + 1, m.w) /\ IsMachine(n)
  BY ReadyIs
<1>2. s = SubSeq(m.stack, 1, Depth(m) - k)
  BY <1>1, ReadyIs DEF Dropped, Truncated, Becomes
<1>3. Becomes(n, [n EXCEPT !.stack = s], s, n.pc, n.w)
  BY <1>1, WithStack
<1>4. n.pc = m.pc + 1 /\ n.w = m.w
  BY <1>1 DEF Becomes
<1>5. /\ Depth(m) = Floor(m) + Height(m) /\ Floor(m) \in Nat /\ Height(m) \in Nat
      /\ m.base <= Floor(m) /\ m.base \in Nat
  BY SoundRegisters, ReadyIs
<1>6. Depth(m) - k \in Nat /\ Depth(m) - k <= Len(m.stack)
  BY <1>5, ReadyIs
<1>7. IsSeq(s) /\ Len(s) = Depth(m) - k /\ \A j \in 1 .. Depth(m) - k : s[j] = m.stack[j]
  BY <1>2, <1>6, ReadyIs, Cut
<1>8. m.base - 1 <= Depth(m) - k /\ Floor(m) <= Depth(m) - k
  BY <1>5
<1> HIDE DEF n, s
<1>9. Becomes(m, [n EXCEPT !.stack = s], s, m.pc + 1, m.w)
  BY <1>1, <1>3, <1>4, BecomesInTurn
<1>10. IsMachine([n EXCEPT !.stack = s])
  BY <1>9 DEF Becomes
<1> QED
  BY <1>7, <1>8, <1>9, <1>10 DEF n, s

\* An op that takes k operands and leaves one.
LEMMA TakesAndLeaves ==
  ASSUME NEW m, NEW k \in Nat, NEW n, NEW v, NEW w, Ready(m), k <= Height(m), ~w.broken,
         Becomes(m, n, Dropped(Fetched(m), k), m.pc + 1, w),
         NextOp(m).op \notin {"Jump", "Return", "TailCall", "SelfTailCall"},
         Effect(NextOp(m)) = 1 - k
  PROVE  Good(m, Pushing(n, v))
<1> DEFINE t == Dropped(Fetched(m), k)
           s == Append(t, v)
<1>1. /\ IsSeq(t) /\ Len(t) = Depth(m) - k
      /\ \A j \in 1 .. Depth(m) - k : t[j] = m.stack[j]
      /\ m.base - 1 <= Depth(m) - k
  BY Drops
<1>2. n.stack = t /\ n.pc = m.pc + 1 /\ n.w = w /\ IsMachine(n)
  BY DEF Becomes
<1>3. Becomes(n, Pushing(n, v), s, m.pc + 1, w)
  BY <1>2, PushingIs
<1>4. IsSeq(s) /\ Len(s) = Len(t) + 1 /\ \A j \in 1 .. Len(t) : s[j] = t[j]
  BY <1>1, Pushed
<1>5. m.pc + 1 \in 0 .. Len(m.bf.code) /\ Flows(m.bf.code, m.pc, m.pc + 1)
  BY ReadyIs, NextInFrame
<1>6. Depth(m) \in Nat /\ m.base \in Nat
  BY ReadyIs, SoundRegisters
<1> HIDE DEF t, s
<1>7. Becomes(m, Pushing(n, v), s, m.pc + 1, w)
  BY <1>3, BecomesInTurn DEF t
<1>8. Len(s) = Depth(m) + Effect(NextOp(m))
  BY <1>1, <1>4, <1>6
<1>9. \A j \in 1 .. m.base - 1 : s[j] = m.stack[j]
  BY <1>1, <1>4, <1>6
<1>10. NextOp(m).op \notin {"Return", "TailCall", "SelfTailCall"}
  OBVIOUS
<1> QED
  BY <1>4, <1>5, <1>7, <1>8, <1>9, <1>10, ReadyIs, GoesOn

\* An op that takes one operand and goes on at to.
LEMMA TakesOne ==
  ASSUME NEW m, NEW n, NEW to \in 0 .. Len(m.bf.code), Ready(m),
         Becomes(m, n, Dropped(Fetched(m), 1), to, m.w),
         Flows(m.bf.code, m.pc, to), NextOp(m).op \in {"Pop", "JumpFalse"}
  PROVE  Good(m, n)
<1> DEFINE t == Dropped(Fetched(m), 1)
<1>1. 1 <= Height(m)
  BY ReadyIs, SoundRegisters DEF OpFits, Height, NextOp, Takes, NeedsOperands
<1>2. /\ IsSeq(t) /\ Len(t) = Depth(m) - 1
      /\ \A j \in 1 .. Depth(m) - 1 : t[j] = m.stack[j]
      /\ m.base - 1 <= Depth(m) - 1
  BY <1>1, Drops
<1>3. Effect(NextOp(m)) = -1
  BY DEF Effect
<1>4. Depth(m) \in Nat /\ m.base \in Nat
  BY ReadyIs, SoundRegisters
<1> HIDE DEF t
<1>5. Len(t) = Depth(m) + Effect(NextOp(m))
  BY <1>2, <1>3, <1>4
<1>6. \A j \in 1 .. m.base - 1 : t[j] = m.stack[j]
  BY <1>2, <1>4
<1>7. NextOp(m).op \notin {"Return", "TailCall", "SelfTailCall"}
  OBVIOUS
<1>8. Becomes(m, n, t, to, m.w)
  BY DEF t
<1> QED
  BY <1>2, <1>5, <1>6, <1>7, <1>8, ReadyIs, GoesOn

\* The ops, one by one.
LEMMA LoadOps ==
  ASSUME NEW m, NEW a, Ready(m),
         NextOp(m).op \in {"LoadConst", "LoadLocal", "LoadUpval", "LoadGlobal"}
  PROVE  Good(m, Step(m, a))
<1> DEFINE i == NextOp(m)
           n == Fetched(m)
<1>1. \A v : Good(m, Pushing(n, v))
  BY Loads
<1>2. Good(m, Fails(n, n.w))
  <2>1. ~Error(n.w).w.broken
    BY ReadyIs DEF Becomes, Error
  <2> QED
    BY <2>1, ReadyIs, Stops DEF Fails
<1>3. CASE i.op = "LoadConst"
  <2>1. Step(m, a) = Pushing(n, i.v)
    BY <1>3, WellFed DEF Step, NextOp, Fetched
  <2> QED
    BY <1>1, <2>1
<1>4. CASE i.op = "LoadLocal"
  <2>1. Step(m, a) = Pushing(n, Peek(n, n.base + i.n))
    BY <1>4, WellFed DEF Step, NextOp, Fetched
  <2> QED
    BY <1>1, <2>1
<1>5. CASE i.op = "LoadUpval"
  <2>1. Step(m, a) = Pushing(n, n.upvals[i.n + 1])
    BY <1>5, WellFed DEF Step, NextOp, Fetched
  <2> QED
    BY <1>1, <2>1
<1>6. CASE i.op = "LoadGlobal"
  <2>1. Step(m, a) = IF i.s \in DOMAIN n.w.fns THEN Pushing(n, n.w.fns[i.s])
                     ELSE Fails(n, n.w)
    BY <1>6, WellFed DEF Step, NextOp, Fetched
  <2> QED
    BY <1>1, <1>2, <2>1
<1> QED
  BY <1>3, <1>4, <1>5, <1>6

LEMMA PopOp ==
  ASSUME NEW m, NEW a, Ready(m), NextOp(m).op = "Pop"
  PROVE  Good(m, Step(m, a))
<1> DEFINE n == Fetched(m)
           o == [n EXCEPT !.stack = Dropped(n, 1)]
<1>1. Step(m, a) = o
  BY WellFed DEF Step, NextOp, Fetched
<1>2. 1 <= Height(m)
  BY ReadyIs, SoundRegisters DEF OpFits, Height, NextOp, Takes, NeedsOperands
<1>3. Becomes(m, o, Dropped(n, 1), m.pc + 1, m.w)
  BY <1>2, Drops
<1>4. m.pc + 1 \in 0 .. Len(m.bf.code) /\ Flows(m.bf.code, m.pc, m.pc + 1)
  BY ReadyIs, NextInFrame
<1> HIDE DEF n, o
<1>5. Good(m, o)
  BY <1>3, <1>4, TakesOne DEF n
<1> QED
  BY <1>1, <1>5

LEMMA WithSlot ==
  ASSUME NEW m, NEW j, NEW v, IsMachine(m)
  PROVE  Becomes(m, [m EXCEPT !.stack[j] = v], [m.stack EXCEPT ![j] = v], m.pc, m.w)
BY DEF IsMachine, Becomes, SameFrame

LEMMA StoreLocalOp ==
  ASSUME NEW m, NEW a, Ready(m), NextOp(m).op = "StoreLocal"
  PROVE  Good(m, Step(m, a))
<1> DEFINE n == Fetched(m)
           t == Dropped(n, 1)
           o == [n EXCEPT !.stack = t]
           j == n.base + NextOp(m).n + 1
           s == [t EXCEPT ![j] = TopOf(n)]
           q == [o EXCEPT !.stack[j] = TopOf(n)]
<1>1. Step(m, a) = q
  BY WellFed DEF Step, NextOp, Fetched
<1>2. 1 <= Height(m) /\ NextOp(m).n \in 0 .. m.bf.n - 1
  BY ReadyIs, SoundRegisters DEF OpFits, OperandsFit, Height, NextOp, Takes, NeedsOperands
<1>3. /\ Becomes(m, o, t, m.pc + 1, m.w) /\ IsMachine(o)
      /\ IsSeq(t) /\ Len(t) = Depth(m) - 1
      /\ \A k \in 1 .. Depth(m) - 1 : t[k] = m.stack[k]
      /\ m.base - 1 <= Depth(m) - 1 /\ Floor(m) <= Depth(m) - 1
  BY <1>2, Drops
<1>4. n.base = m.base
  BY ReadyIs DEF Becomes, SameFrame
<1>5. Depth(m) \in Nat /\ m.base \in Nat /\ m.bf.n \in Nat
  BY ReadyIs, SoundRegisters
<1>6. j \in m.base + 1 .. Floor(m)
  BY <1>2, <1>4, <1>5 DEF Floor
<1> HIDE DEF j
<1>7. j \in 1 .. Len(t) /\ \A k \in 1 .. m.base - 1 : k \in 1 .. Len(t) /\ k # j
  BY <1>3, <1>5, <1>6 DEF Floor
<1> HIDE DEF t
<1>8. /\ IsSeq(s) /\ Len(s) = Len(t)
      /\ \A k \in 1 .. Len(t) : k # j => s[k] = t[k]
  <2> DEFINE top == TopOf(n)
  <2>1. IsSeq(t)
    BY <1>3
  <2>2. s = [t EXCEPT ![j] = top]
    OBVIOUS
  <2> HIDE DEF top, s
  <2>3. /\ IsSeq([t EXCEPT ![j] = top])
        /\ Len([t EXCEPT ![j] = top]) = Len(t)
        /\ \A k \in 1 .. Len(t) : k # j => [t EXCEPT ![j] = top][k] = t[k]
    BY <1>7, <2>1, Overwritten
  <2> QED
    BY <2>2, <2>3
<1>9. o.stack = t /\ o.pc = m.pc + 1 /\ o.w = m.w
  BY <1>3 DEF Becomes
<1> HIDE DEF o
<1>10. Becomes(o, q, s, m.pc + 1, m.w)
  BY <1>3, <1>9, WithSlot
<1> HIDE DEF q, s
<1>11. Becomes(m, q, s, m.pc + 1, m.w)
  BY <1>3, <1>10, BecomesInTurn
<1>12. m.pc + 1 \in 0 .. Len(m.bf.code) /\ Flows(m.bf.code, m.pc, m.pc + 1)
  BY ReadyIs, NextInFrame
<1>13. Effect(NextOp(m)) = -1
  BY DEF Effect
<1>14. Len(s) = Depth(m) + Effect(NextOp(m))
  BY <1>3, <1>5, <1>8, <1>13
<1>15. \A k \in 1 .. m.base - 1 : s[k] = m.stack[k]
  BY <1>3, <1>7, <1>8
<1>16. NextOp(m).op \notin {"Return", "TailCall", "SelfTailCall"}
  OBVIOUS
<1>17. Good(m, q)
  BY <1>8, <1>11, <1>12, <1>14, <1>15, <1>16, ReadyIs, GoesOn
<1> QED
  BY <1>1, <1>17

\* Where a jump goes.
LEMMA JumpTarget ==
  ASSUME NEW m, Ready(m), NextOp(m).op \in {"Jump", "JumpFalse"}
  PROVE  /\ m.pc + 1 + NextOp(m).n \in 0 .. Len(m.bf.code)
         /\ Flows(m.bf.code, m.pc, m.pc + 1 + NextOp(m).n)
<1>1. /\ OpFits(m.pc, Heights(m.bf.code), m.bf, m.upvals)
      /\ m.pc \in 0 .. Len(m.bf.code) - 1 /\ Len(m.bf.code) \in Nat
  BY ReadyIs, SoundRegisters
<1>2. NextOp(m).n \in Nat /\ m.pc + 1 + NextOp(m).n < Len(m.bf.code)
  BY <1>1 DEF OpFits, OperandsFit, NextOp
<1>3. Flows(m.bf.code, m.pc, m.pc + 1 + NextOp(m).n)
  BY DEF Flows, NextOp
<1> QED
  BY <1>1, <1>2, <1>3

LEMMA JumpOps ==
  ASSUME NEW m, NEW a, Ready(m), NextOp(m).op \in {"Jump", "JumpFalse"}
  PROVE  Good(m, Step(m, a))
<1> DEFINE i == NextOp(m)
           n == Fetched(m)
           t == Dropped(n, 1)
           o == [n EXCEPT !.stack = t]
           to == m.pc + 1 + i.n
<1>1. to \in 0 .. Len(m.bf.code) /\ Flows(m.bf.code, m.pc, to)
  BY JumpTarget
<1>2. n.pc = m.pc + 1 /\ n.w = m.w /\ n.stack = m.stack /\ IsMachine(n)
      /\ Becomes(m, n, m.stack, m.pc + 1, m.w)
  BY ReadyIs DEF Becomes
<1>3. CASE i.op = "Jump"
  <2> DEFINE q == [n EXCEPT !.pc = to]
  <2>1. Step(m, a) = [n EXCEPT !.pc = @ + i.n]
    BY <1>3, WellFed DEF Step, NextOp, Fetched
  <2>2. Step(m, a) = q
    BY <1>2, <2>1
  <2>3. Becomes(n, q, m.stack, to, m.w)
    BY <1>2, WithPc
  <2> HIDE DEF q, n, to
  <2>4. Becomes(m, q, m.stack, to, m.w)
    BY <1>2, <2>3, BecomesInTurn
  <2>5. Effect(NextOp(m)) = 0
    BY <1>3 DEF Effect
  <2>6. Len(m.stack) = Depth(m) + Effect(NextOp(m))
    BY <2>5, ReadyIs
  <2>7. NextOp(m).op \notin {"Return", "TailCall", "SelfTailCall"}
    BY <1>3
  <2>8. Good(m, q)
    BY <1>1, <2>4, <2>6, <2>7, ReadyIs, GoesOn
  <2> QED
    BY <2>2, <2>8
<1>4. CASE i.op = "JumpFalse"
  <2> DEFINE q == [o EXCEPT !.pc = to]
             top == TopOf(n)
  <2>1. Step(m, a) = IF Truth(top) = "neither" THEN Fails(n, n.w)
                     ELSE IF Truth(top) = "true" THEN o ELSE [o EXCEPT !.pc = @ + i.n]
    BY <1>4, WellFed DEF Step, NextOp, Fetched
  <2>2. 1 <= Height(m)
    BY <1>4, ReadyIs, SoundRegisters DEF OpFits, Height, NextOp, Takes, NeedsOperands
  <2>3. Becomes(m, o, t, m.pc + 1, m.w) /\ IsMachine(o)
    BY <2>2, Drops
  <2>4. o.pc = m.pc + 1 /\ o.w = m.w /\ o.stack = t
    BY <2>3 DEF Becomes
  <2>5. m.pc + 1 \in 0 .. Len(m.bf.code) /\ Flows(m.bf.code, m.pc, m.pc + 1)
    BY <1>4, ReadyIs, NextInFrame
  <2> HIDE DEF o, top
  <2>6. [o EXCEPT !.pc = @ + i.n] = q
    BY <2>4
  <2>7. Becomes(o, q, t, to, m.w)
    BY <2>3, <2>4, WithPc
  <2> HIDE DEF q, t, to
  <2>8. Becomes(m, q, t, to, m.w)
    BY <2>3, <2>7, BecomesInTurn
  <2>9. Good(m, o)
    BY <1>4, <2>3, <2>5, TakesOne DEF t
  <2>10. Good(m, q)
    BY <1>1, <1>4, <2>8, TakesOne DEF t
  <2>11. Good(m, Fails(n, n.w))
    <3>1. ~Error(n.w).w.broken
      BY ReadyIs, <1>2 DEF Error
    <3> QED
      BY <1>2, <3>1, Stops DEF Fails
  <2> QED
    BY <2>1, <2>6, <2>9, <2>10, <2>11
<1> QED
  BY <1>3, <1>4

LEMMA MakeClosureOp ==
  ASSUME NEW m, NEW a, Ready(m), NextOp(m).op = "MakeClosure"
  PROVE  Good(m, Step(m, a))
<1> DEFINE i == NextOp(m)
           n == Fetched(m)
           o == [n EXCEPT !.stack = Dropped(n, i.n)]
           v == Closure(i.bf.arity, <<>>,
                        [kind |-> "bytecode", bf |-> i.bf, upvals |-> Operands(n, i.n)])
<1>1. Step(m, a) = Pushing(o, v)
  BY WellFed DEF Step, NextOp, Fetched
<1>2. i.n \in Nat /\ i.n <= Height(m)
  BY ReadyIs, SoundRegisters DEF OpFits, OperandsFit, Height, NextOp, Takes, NeedsOperands
<1>3. Becomes(m, o, Dropped(n, i.n), m.pc + 1, m.w)
  BY <1>2, Drops
<1>4. Effect(i) = 1 - i.n
  BY DEF Effect
<1>5. ~m.w.broken
  BY ReadyIs
<1>6. NextOp(m).op \notin {"Jump", "Return", "TailCall", "SelfTailCall"}
  OBVIOUS
<1> HIDE DEF o, v
<1>7. Good(m, Pushing(o, v))
  BY <1>2, <1>3, <1>4, <1>5, <1>6, TakesAndLeaves
<1> QED
  BY <1>1, <1>7

LEMMA PrimKeepsWorld ==
  ASSUME NEW name, NEW args, NEW w, name \in {"+", "=", "vector?"}
  PROVE  PrimResult(name, args, w).w = w
BY DEF PrimResult, Ok, Error

LEMMA PrimOp ==
  ASSUME NEW m, NEW a, Ready(m), NextOp(m).op = "Prim"
  PROVE  Good(m, Step(m, a))
<1> DEFINE i == NextOp(m)
           n == Fetched(m)
           o == [n EXCEPT !.stack = Dropped(n, i.arity)]
           r == PrimResult(i.name, Operands(n, i.arity), n.w)
<1>1. Step(m, a) = IF r.ok THEN Pushing(o, r.v) ELSE Fails(n, r.w)
  BY WellFed DEF Step, NextOp, Fetched
<1>2. /\ i.arity \in Nat /\ i.arity <= Height(m)
      /\ i.name \in {"+", "=", "vector?"}
  <2>1. OperandsFit(i, m.bf, m.upvals) /\ Takes(i) <= Height(m)
    BY ReadyIs, SoundRegisters DEF OpFits, Height, NextOp
  <2>2. <<i.name, i.arity>> \in {<<"+", 2>>, <<"=", 2>>, <<"vector?", 1>>}
    BY <2>1 DEF OperandsFit
  <2>3. Takes(i) = i.arity
    BY DEF Takes, NeedsOperands
  <2> HIDE DEF i
  <2> QED
    BY <2>1, <2>2, <2>3
<1>3. Becomes(m, o, Dropped(n, i.arity), m.pc + 1, m.w)
  BY <1>2, Drops
<1>4. Effect(i) = 1 - i.arity
  BY DEF Effect
<1>5. ~m.w.broken /\ n.w = m.w /\ IsMachine(n)
  BY ReadyIs DEF Becomes
<1>6. NextOp(m).op \notin {"Jump", "Return", "TailCall", "SelfTailCall"}
  OBVIOUS
<1>7. r.w = n.w
  BY <1>2, PrimKeepsWorld
<1> HIDE DEF o, r
<1>8. Good(m, Pushing(o, r.v))
  BY <1>2, <1>3, <1>4, <1>5, <1>6, TakesAndLeaves
<1>9. Good(m, Fails(n, r.w))
  <2>1. ~Error(r.w).w.broken
    BY <1>5, <1>7 DEF Error
  <2> QED
    BY <1>5, <2>1, Stops DEF Fails
<1> QED
  BY <1>1, <1>8, <1>9

(* ---- the ops that change frames ----------------------------------------------------------- *)

\* The registers that leaving a frame brings back.
LEMMA ReturningIs ==
  ASSUME NEW m, NEW v, IsMachine(m), m.ret # Outermost
  PROVE  LET n == Returning(m, v)
             caller == m.frames[Len(m.frames)]
         IN /\ IsMachine(n) /\ n.halted = m.halted /\ n.w = m.w
            /\ n.stack = Append(Truncated(m, m.ret), v)
            /\ n.frames = SubSeq(m.frames, 1, Len(m.frames) - 1)
            /\ n.bf = caller.bf /\ n.base = caller.base /\ n.pc = caller.pc
            /\ n.upvals = caller.upvals /\ n.ret = caller.ret
<1> DEFINE caller == m.frames[Len(m.frames)]
           r == [bf |-> caller.bf, upvals |-> caller.upvals, base |-> caller.base,
                 pc |-> caller.pc, ret |-> caller.ret,
                 stack |-> Append(Truncated(m, m.ret), v),
                 frames |-> SubSeq(m.frames, 1, Len(m.frames) - 1),
                 w |-> m.w, halted |-> m.halted, result |-> m.result]
<1>1. Returning(m, v) = r
  BY DEF Returning, IsMachine
<1> HIDE DEF caller
<1> QED
  BY <1>1 DEF IsMachine, caller

\* Leaving a frame, from a state that still has the callers' slots.
LEMMA Leaves ==
  ASSUME NEW m, NEW n, NEW s, NEW pc, NEW w, NEW v,
         Ready(m), Becomes(m, n, s, pc, w), ~w.broken,
         IsSeq(s), m.base - 1 <= Len(s),
         \A k \in 1 .. m.base - 1 : s[k] = m.stack[k]
  PROVE  Good(m, Returning(n, v))
<1>1. /\ IsMachine(n) /\ n.ret = m.ret /\ n.frames = m.frames /\ ~n.halted
      /\ n.stack = s /\ n.w = w
  BY ReadyIs DEF Becomes, SameFrame
<1>2. CASE m.ret = Outermost
  <2>1. Returning(n, v) = Halted(n, Ok(v, n.w))
    BY <1>1, <1>2 DEF Returning
  <2>2. ~Ok(v, n.w).w.broken
    BY <1>1 DEF Ok
  <2> QED
    BY <1>1, <2>1, <2>2, Stops
<1>3. CASE m.ret # Outermost
  <2> DEFINE o == Returning(n, v)
             last == Len(m.frames)
             f == m.frames[last]
             t == SubSeq(s, 1, m.ret)
  <2>1. /\ m.base = m.ret + 1 /\ m.ret \in Nat /\ last # 0
    BY <1>3, ReadyIs, SoundBase
  <2>2. IsSeq(m.frames) /\ last \in Nat
    BY ReadyIs, IsSeqElim DEF Sound
  <2>3. last \in 1 .. Len(m.frames)
    BY <2>1, <2>2
  <2>4. Suspended(m, last) /\ FrameOK(f)
    BY <2>3, ReadyIs DEF Sound, LaidOut
  <2>5. /\ IsMachine(o) /\ ~o.halted /\ o.w = w /\ o.stack = Append(t, v)
        /\ o.frames = SubSeq(m.frames, 1, last - 1)
        /\ o.bf = f.bf /\ o.base = f.base /\ o.pc = f.pc
        /\ o.upvals = f.upvals /\ o.ret = f.ret
    <3>1. n.ret # Outermost /\ n.frames[Len(n.frames)] = f
      BY <1>1, <1>3
    <3>2. /\ IsMachine(o) /\ o.halted = n.halted /\ o.w = n.w
          /\ o.stack = Append(Truncated(n, n.ret), v)
          /\ o.frames = SubSeq(n.frames, 1, Len(n.frames) - 1)
          /\ o.bf = f.bf /\ o.base = f.base /\ o.pc = f.pc
          /\ o.upvals = f.upvals /\ o.ret = f.ret
      BY <1>1, <3>1, ReturningIs
    <3>3. Truncated(n, n.ret) = t
      BY <1>1 DEF Truncated
    <3> HIDE DEF o, f, t
    <3> QED
      BY <1>1, <3>2, <3>3
  <2>6. m.ret <= Len(s)
    BY <2>1
  <2>7. IsSeq(t) /\ Len(t) = m.ret /\ \A k \in 1 .. m.ret : t[k] = s[k]
    BY <2>1, <2>6, Cut
  <2> HIDE DEF o, t
  <2>8. IsSeq(o.stack) /\ Len(o.stack) = m.ret + 1 /\ \A k \in 1 .. m.ret : o.stack[k] = t[k]
    BY <2>5, <2>7, Pushed
  <2>9. last - 1 \in Nat /\ last - 1 <= Len(m.frames)
    BY <2>2, <2>3
  <2>10. /\ IsSeq(o.frames) /\ Len(o.frames) = last - 1
         /\ \A k \in 1 .. last - 1 : o.frames[k] = m.frames[k]
    BY <2>2, <2>5, <2>9, Cut
  <2>11. m.ret = f.base + f.bf.n + Heights(f.bf.code)[f.pc] - 1
    BY <2>4 DEF Suspended, RetOf
  <2>12. /\ f.base \in Nat /\ f.ret \in Int /\ Resumable(f.bf, f.upvals, f.pc, 0)
         /\ f.bf.n \in Nat /\ Heights(f.bf.code)[f.pc] \in Int
    <3>1. /\ f.base \in Nat /\ f.ret \in Int /\ WellFormed(f.bf, f.upvals)
          /\ f.pc \in 0 .. Len(f.bf.code) - 1 /\ Heights(f.bf.code)[f.pc] >= 1
      BY <2>4 DEF FrameOK, Resumable
    <3>2. Len(f.bf.code) \in Nat
      BY <3>1, IsSeqElim DEF WellFormed
    <3>3. f.bf.n \in Nat /\ Heights(f.bf.code)[f.pc] \in Int
      BY <3>1, <3>2 DEF WellFormed
    <3>4. Heights(f.bf.code)[f.pc] >= 0
      BY <3>1, <3>3
    <3> QED
      BY <3>1, <3>3, <3>4 DEF Resumable
  <2>13. Depth(o) = Floor(o) + Heights(o.bf.code)[o.pc]
    <3> DEFINE h == Heights(f.bf.code)[f.pc]
    <3>1. \A r, b, c \in Nat, e \in Int : r = b + c + e - 1 => r + 1 = b + c + e
      OBVIOUS
    <3>2. f.base \in Nat /\ f.bf.n \in Nat /\ h \in Int /\ m.ret \in Nat
          /\ m.ret = f.base + f.bf.n + h - 1
      BY <2>1, <2>11, <2>12
    <3> HIDE DEF h, f
    <3>3. m.ret + 1 = f.base + f.bf.n + h
      BY <3>1, <3>2
    <3> QED
      BY <2>5, <2>8, <3>3 DEF Depth, Floor, h
  <2>14. \A k \in 0 .. last - 1 : RetOf(o, k) = RetOf(m, k) /\ BaseOf(o, k) = BaseOf(m, k)
    <3> TAKE k \in 0 .. last - 1
    <3>1. k # Len(m.frames) /\ k \in Nat
      BY <2>2
    <3>2. CASE k = last - 1
      <4>1. k + 1 = last /\ k = Len(o.frames)
        BY <2>2, <2>10, <3>2
      <4> QED
        BY <2>5, <3>1, <4>1 DEF RetOf, BaseOf
    <3>3. CASE k # last - 1
      <4>1. k + 1 \in 1 .. last - 1 /\ k # Len(o.frames)
        BY <2>2, <2>10, <3>3
      <4>2. o.frames[k + 1] = m.frames[k + 1]
        BY <2>10, <4>1
      <4> QED
        BY <3>1, <4>1, <4>2 DEF RetOf, BaseOf
    <3> QED
      BY <3>2, <3>3
  <2>15. \A k \in 1 .. Len(o.frames) : FrameOK(o.frames[k]) /\ Suspended(o, k)
    <3> TAKE k \in 1 .. Len(o.frames)
    <3>1. k \in 1 .. Len(m.frames) /\ k \in 0 .. last - 1 /\ o.frames[k] = m.frames[k]
      BY <2>2, <2>10
    <3>2. FrameOK(m.frames[k]) /\ Suspended(m, k)
      BY <3>1, ReadyIs DEF Sound, LaidOut
    <3> QED
      BY <2>14, <3>1, <3>2 DEF Suspended
  <2>16. 0 \in 0 .. last - 1
    BY <2>2, <2>3
  <2>17. LaidOut(o)
    BY <2>13, <2>14, <2>15, <2>16, ReadyIs DEF LaidOut, Sound
  <2>18. Sound(o)
    BY <2>5, <2>8, <2>10, <2>12, <2>15, <2>17 DEF Sound
  <2>19. Untouched(m, o)
    <3>1. m.ret <= Len(o.stack)
      BY <2>1, <2>8
    <3>2. \A k \in 1 .. m.base - 1 : o.stack[k] = m.stack[k]
      BY <2>1, <2>7, <2>8
    <3> QED
      BY <2>8, <3>1, <3>2, ReadyIs, UntouchedBelow
  <2>20. Good(m, o)
    BY <2>5, <2>18, <2>19 DEF Good
  <2> QED
    BY <2>20 DEF o
<1> QED
  BY <1>2, <1>3

LEMMA ReturnOp ==
  ASSUME NEW m, NEW a, Ready(m), NextOp(m).op = "Return"
  PROVE  Good(m, Step(m, a))
<1> DEFINE n == Fetched(m)
           v == IF Depth(n) > Floor(n) THEN TopOf(n) ELSE Nil
<1>1. Step(m, a) = Returning(n, v)
  BY WellFed DEF Step, NextOp, Fetched
<1>2. Becomes(m, n, m.stack, m.pc + 1, m.w) /\ IsSeq(m.stack) /\ ~m.w.broken
  BY ReadyIs
<1>3. m.base - 1 <= Len(m.stack)
  BY ReadyIs, SoundRegisters
<1> HIDE DEF n, v
<1>4. Good(m, Returning(n, v))
  BY <1>2, <1>3, Leaves
<1> QED
  BY <1>1, <1>4

\* What a call finds on the stack.
LEMMA CallOperands ==
  ASSUME NEW m, Ready(m), NextOp(m).op \in {"Call", "TailCall"}
  PROVE  LET k == NextOp(m).n
         IN /\ k \in Nat /\ k + 1 <= Height(m) /\ AtCall(m)
            /\ Depth(m) \in Nat /\ k <= Depth(m) /\ Floor(m) <= Depth(m) - k - 1
            /\ m.base <= Floor(m) /\ m.base \in Nat /\ Floor(m) \in Nat
<1> DEFINE k == NextOp(m).n
<1>1. OperandsFit(NextOp(m), m.bf, m.upvals) /\ Takes(NextOp(m)) <= Height(m)
  BY ReadyIs, SoundRegisters DEF OpFits, Height, NextOp
<1>2. k \in Nat /\ k + 1 <= Height(m)
  BY <1>1 DEF OperandsFit, Takes
<1>3. /\ Depth(m) = Floor(m) + Height(m) /\ Floor(m) \in Nat /\ Height(m) \in Nat
      /\ m.base <= Floor(m) /\ m.base \in Nat
      /\ m.pc \in 0 .. Len(m.bf.code) - 1 /\ Len(m.bf.code) \in Nat
  BY SoundRegisters, ReadyIs
<1>4. Depth(m) \in Nat /\ k <= Depth(m) /\ Floor(m) <= Depth(m) - k - 1 /\ Depth(m) >= k + 1
  BY <1>2, <1>3
<1>5. AtCall(m)
  BY <1>3, <1>4, ReadyIs DEF AtCall
<1> QED
  BY <1>2, <1>3, <1>4, <1>5

\* A callee that answers from elsewhere.
LEMMA AnsweredGood ==
  ASSUME NEW m, NEW a, NEW tail \in BOOLEAN, Ready(m), ~a.w.broken,
         NextOp(m).op = IF tail THEN "TailCall" ELSE "Call"
  PROVE  LET n == Fetched(m)
         IN Good(m, Answered(n, [n EXCEPT !.stack = Dropped(n, NextOp(m).n + 1)], a, tail))
<1> DEFINE n == Fetched(m)
           k == NextOp(m).n + 1
           t == Dropped(n, k)
           below == [n EXCEPT !.stack = t]
           after == [below EXCEPT !.w = a.w]
<1>1. NextOp(m).op \in {"Call", "TailCall"}
  OBVIOUS
<1>2. k \in Nat /\ k <= Height(m) /\ NextOp(m).n \in Nat
  BY <1>1, CallOperands
<1>3. /\ Becomes(m, below, t, m.pc + 1, m.w) /\ IsMachine(below)
      /\ IsSeq(t) /\ Len(t) = Depth(m) - k
      /\ \A j \in 1 .. Depth(m) - k : t[j] = m.stack[j]
      /\ m.base - 1 <= Depth(m) - k
  BY <1>2, Drops
<1>4. below.stack = t /\ below.pc = m.pc + 1
  BY <1>3 DEF Becomes
<1> HIDE DEF below
<1>5. Becomes(below, after, t, m.pc + 1, a.w)
  BY <1>3, <1>4, WithWorld
<1> HIDE DEF after
<1>6. Becomes(m, after, t, m.pc + 1, a.w)
  BY <1>3, <1>5, BecomesInTurn
<1>7. Good(m, Fails(n, a.w))
  <2>1. ~Error(a.w).w.broken
    BY DEF Error
  <2> QED
    BY <2>1, ReadyIs, Stops DEF Fails
<1>8. CASE tail
  <2>1. Depth(m) \in Nat /\ m.base \in Nat
    BY ReadyIs, SoundRegisters
  <2>2. m.base - 1 <= Len(t) /\ \A j \in 1 .. m.base - 1 : t[j] = m.stack[j]
    BY <1>2, <1>3, <2>1
  <2> HIDE DEF t
  <2>3. Good(m, Returning(after, a.v))
    BY <1>3, <1>6, <2>2, Leaves
  <2> QED
    BY <1>7, <1>8, <2>3 DEF Answered, after, below, t
<1>9. CASE ~tail
  <2>1. NextOp(m).op = "Call"
    BY <1>9
  <2>2. Effect(NextOp(m)) = 1 - k
    BY <1>2, <2>1 DEF Effect
  <2>3. NextOp(m).op \notin {"Jump", "Return", "TailCall", "SelfTailCall"}
    BY <2>1
  <2> HIDE DEF k
  <2>4. Good(m, Pushing(after, a.v))
    BY <1>2, <1>6, <2>2, <2>3, TakesAndLeaves
  <2> QED
    BY <1>7, <1>9, <2>4 DEF Answered, after, below, k
<1> QED
  BY <1>8, <1>9

\* Code that is entered starts at its first op with empty hands.
LEMMA EntryPoint ==
  ASSUME NEW bf, NEW upvals, WellFormed(bf, upvals)
  PROVE  /\ Resumable(bf, upvals, 0, 0) /\ Heights(bf.code)[0] = 0
         /\ bf.n \in Nat /\ bf.arity \in Nat /\ bf.arity <= bf.n
<1>1. Len(bf.code) \in Nat
  BY IsSeqElim DEF WellFormed
<1>2. Len(bf.code) > 0 /\ Heights(bf.code)[0] = 0
  BY DEF WellFormed
<1>3. 0 \in 0 .. Len(bf.code) - 1
  BY <1>1, <1>2
<1>4. Resumable(bf, upvals, 0, 0)
  BY <1>2, <1>3 DEF Resumable
<1> QED
  BY <1>2, <1>4 DEF WellFormed

LEMMA EnteringIs ==
  ASSUME NEW m, NEW k, NEW code, IsMachine(m)
  PROVE  LET n == Entering(m, k, code)
         IN /\ IsMachine(n) /\ n.halted = m.halted /\ n.w = m.w
            /\ n.stack = Resized(m.stack, Depth(m) - k + code.bf.n)
            /\ n.frames = Append(m.frames, [bf |-> m.bf, base |-> m.base, pc |-> m.pc,
                                            upvals |-> m.upvals, ret |-> m.ret])
            /\ n.bf = code.bf /\ n.upvals = code.upvals /\ n.pc = 0
            /\ n.base = Depth(m) - k /\ n.ret = Depth(m) - k - 1
<1> DEFINE frames == Append(m.frames, [bf |-> m.bf, base |-> m.base, pc |-> m.pc,
                                       upvals |-> m.upvals, ret |-> m.ret])
           stack == Resized(m.stack, Depth(m) - k + code.bf.n)
           base == Depth(m) - k
           ret == Depth(m) - k - 1
           r == [bf |-> code.bf, upvals |-> code.upvals, base |-> base, pc |-> 0,
                 ret |-> ret, stack |-> stack, frames |-> frames, w |-> m.w,
                 halted |-> m.halted, result |-> m.result]
<1>1. Entering(m, k, code) =
        [m EXCEPT !.frames = frames, !.stack = stack, !.bf = code.bf,
                  !.upvals = code.upvals, !.pc = 0, !.base = base, !.ret = ret]
  BY DEF Entering, IsMachine
<1> HIDE DEF frames, stack, base, ret
<1>2. Entering(m, k, code) = r
  BY <1>1 DEF IsMachine
<1> HIDE DEF r
<1>3. IsMachine(r)
  BY DEF IsMachine, r
<1> QED
  BY <1>2, <1>3 DEF r, frames, stack, base, ret

LEMMA ReplacingIs ==
  ASSUME NEW m, NEW k, NEW code, IsMachine(m)
  PROVE  LET n == Replacing(m, k, code)
         IN /\ IsMachine(n) /\ n.halted = m.halted /\ n.w = m.w
            /\ n.stack = Resized(Truncated(m, m.base) \o Operands(m, k), m.base + code.bf.n)
            /\ n.frames = m.frames /\ n.base = m.base /\ n.ret = m.ret
            /\ n.bf = code.bf /\ n.upvals = code.upvals /\ n.pc = 0
<1> DEFINE stack == Resized(Truncated(m, m.base) \o Operands(m, k), m.base + code.bf.n)
           r == [bf |-> code.bf, upvals |-> code.upvals, base |-> m.base, pc |-> 0,
                 ret |-> m.ret, stack |-> stack, frames |-> m.frames, w |-> m.w,
                 halted |-> m.halted, result |-> m.result]
<1>1. Replacing(m, k, code) =
        [m EXCEPT !.stack = stack, !.bf = code.bf, !.upvals = code.upvals, !.pc = 0]
  BY DEF Replacing
<1> HIDE DEF stack
<1>2. Replacing(m, k, code) = r
  BY <1>1 DEF IsMachine
<1> HIDE DEF r
<1>3. IsMachine(r)
  BY DEF IsMachine, r
<1> QED
  BY <1>2, <1>3 DEF r, stack

\* What a call moves.
LEMMA OperandsAre ==
  ASSUME NEW m, NEW k \in Nat, IsSeq(m.stack), k <= Depth(m)
  PROVE  IsSeq(Operands(m, k)) /\ Len(Operands(m, k)) = k
<1> DEFINE a == Depth(m) - k + 1
           b == Depth(m)
<1>1. b = Len(m.stack) /\ b \in Nat
  BY IsSeqElim DEF Depth
<1>2. a \in Nat /\ 1 <= a /\ a <= b + 1 /\ b <= Len(m.stack) /\ b + 1 - a = k
  BY <1>1
<1> HIDE DEF a, b
<1>3. IsSeq(SubSeq(m.stack, a, b)) /\ Len(SubSeq(m.stack, a, b)) = b + 1 - a
  BY <1>1, <1>2, Part
<1> QED
  BY <1>2, <1>3 DEF Operands, a, b

\* A call of compiled code: the caller is suspended above its operands.
LEMMA EnteredGood ==
  ASSUME NEW m, NEW code, Ready(m), NextOp(m).op = "Call",
         WellFormed(code.bf, code.upvals)
  PROVE  Good(m, Entering(Fetched(m), NextOp(m).n, code))
<1> DEFINE i == NextOp(m)
           k == i.n
           n == Fetched(m)
           o == Entering(n, k, code)
           size == Depth(m) - k + code.bf.n
           f == [bf |-> m.bf, base |-> m.base, pc |-> m.pc + 1, upvals |-> m.upvals,
                 ret |-> m.ret]
           last == Len(m.frames)
<1>1. /\ k \in Nat /\ k + 1 <= Height(m) /\ Depth(m) \in Nat /\ k <= Depth(m)
      /\ Floor(m) <= Depth(m) - k - 1 /\ m.base <= Floor(m) /\ m.base \in Nat
      /\ Floor(m) \in Nat
  BY CallOperands
<1>2. /\ Becomes(m, n, m.stack, m.pc + 1, m.w) /\ IsMachine(n) /\ IsSeq(m.stack)
      /\ Len(m.stack) = Depth(m) /\ Depth(n) = Depth(m) /\ ~m.halted /\ ~m.w.broken
      /\ Sound(m)
  BY ReadyIs
<1>3. /\ IsMachine(o) /\ ~o.halted /\ o.w = m.w /\ o.stack = Resized(m.stack, size)
      /\ o.frames = Append(m.frames, f)
      /\ o.bf = code.bf /\ o.upvals = code.upvals /\ o.pc = 0
      /\ o.base = Depth(m) - k /\ o.ret = Depth(m) - k - 1
  <2>1. /\ n.bf = m.bf /\ n.base = m.base /\ n.pc = m.pc + 1 /\ n.upvals = m.upvals
        /\ n.ret = m.ret /\ n.frames = m.frames /\ n.stack = m.stack /\ n.w = m.w
        /\ n.halted = m.halted
    BY <1>2 DEF Becomes, SameFrame
  <2>2. /\ IsMachine(o) /\ o.halted = n.halted /\ o.w = n.w
        /\ o.stack = Resized(n.stack, Depth(n) - k + code.bf.n)
        /\ o.frames = Append(n.frames, [bf |-> n.bf, base |-> n.base, pc |-> n.pc,
                                        upvals |-> n.upvals, ret |-> n.ret])
        /\ o.bf = code.bf /\ o.upvals = code.upvals /\ o.pc = 0
        /\ o.base = Depth(n) - k /\ o.ret = Depth(n) - k - 1
    BY <1>2, EnteringIs
  <2> HIDE DEF o, n
  <2> QED
    BY <1>2, <2>1, <2>2
<1>4. /\ Resumable(code.bf, code.upvals, 0, 0) /\ Heights(code.bf.code)[0] = 0
      /\ code.bf.n \in Nat
  BY EntryPoint
<1>5. size \in Nat /\ Depth(m) - k <= size /\ Depth(m) - k \in Nat
  BY <1>1, <1>4
<1>6. /\ IsSeq(o.stack) /\ Len(o.stack) = size
      /\ \A j \in 1 .. Depth(m) - k : o.stack[j] = m.stack[j]
  <2>1. /\ IsSeq(Resized(m.stack, size)) /\ Len(Resized(m.stack, size)) = size
        /\ \A j \in 1 .. size : j <= Len(m.stack) => Resized(m.stack, size)[j] = m.stack[j]
    BY <1>2, <1>5, ResizedSeq
  <2> HIDE DEF o, size
  <2> QED
    BY <1>1, <1>2, <1>3, <1>5, <2>1
<1>7. IsSeq(m.frames) /\ last \in Nat
  BY <1>2, IsSeqElim DEF Sound
<1>8. /\ IsSeq(o.frames) /\ Len(o.frames) = last + 1
      /\ \A j \in 1 .. last : o.frames[j] = m.frames[j]
      /\ o.frames[last + 1] = f
  <2> HIDE DEF o, f
  <2> QED
    BY <1>3, <1>7, Pushed
\* the suspended caller
<1>9. /\ m.pc + 1 \in 0 .. Len(m.bf.code) - 1
      /\ Heights(m.bf.code)[m.pc + 1] = Height(m) - k
  <2>1. NextOp(m).op \notin {"Jump", "Return", "TailCall", "SelfTailCall"}
    OBVIOUS
  <2>2. m.pc + 1 \in 0 .. Len(m.bf.code) /\ Flows(m.bf.code, m.pc, m.pc + 1)
    BY <1>2, <2>1, NextInFrame
  <2>3. Effect(NextOp(m)) = -k
    BY DEF Effect
  <2>4. Height(m) \in Nat
    BY <1>2, SoundRegisters
  <2> HIDE DEF k
  <2> QED
    BY <1>1, <1>2, <2>2, <2>3, <2>4, OpEffect
<1>10. /\ Height(m) \in Nat /\ m.bf.n \in Nat /\ Floor(m) = m.base + m.bf.n
       /\ Depth(m) = Floor(m) + Height(m) /\ m.ret \in Int
  BY <1>2, SoundRegisters DEF Floor, Sound
<1>11. FrameOK(f)
  <2>1. Resumable(m.bf, m.upvals, m.pc + 1, 1)
    <3>1. Heights(m.bf.code)[m.pc + 1] >= 1
      BY <1>1, <1>9, <1>10
    <3> QED
      BY <1>2, <1>9, <3>1 DEF Sound, Resumable
  <2> QED
    BY <1>1, <1>10, <2>1 DEF FrameOK
<1> HIDE DEF o
<1>12. Suspended(o, last + 1)
  <2>1. RetOf(o, last + 1) = o.ret /\ BaseOf(o, last + 1) = o.base
    BY <1>8 DEF RetOf, BaseOf
  <2>2. o.ret = m.base + m.bf.n + Heights(m.bf.code)[m.pc + 1] - 1
    BY <1>1, <1>3, <1>9, <1>10
  <2>3. o.base = o.ret + 1
    BY <1>1, <1>3
  <2> QED
    BY <1>8, <2>1, <2>2, <2>3 DEF Suspended
<1>13. \A j \in 0 .. last : RetOf(o, j) = RetOf(m, j) /\ BaseOf(o, j) = BaseOf(m, j)
  <2> TAKE j \in 0 .. last
  <2>1. j # Len(o.frames) /\ j \in Nat
    BY <1>7, <1>8
  <2>2. CASE j = last
    <3>1. o.frames[j + 1] = f
      BY <1>8, <2>2
    <3> QED
      BY <2>1, <2>2, <3>1 DEF RetOf, BaseOf
  <2>3. CASE j # last
    <3>1. j + 1 \in 1 .. last
      BY <1>7, <2>3
    <3>2. o.frames[j + 1] = m.frames[j + 1]
      BY <1>8, <3>1
    <3> QED
      BY <2>1, <2>3, <3>2 DEF RetOf, BaseOf
  <2> QED
    BY <2>2, <2>3
<1>14. \A j \in 1 .. Len(o.frames) : FrameOK(o.frames[j]) /\ Suspended(o, j)
  <2> TAKE j \in 1 .. Len(o.frames)
  <2>1. CASE j = last + 1
    BY <1>8, <1>11, <1>12, <2>1
  <2>2. CASE j # last + 1
    <3>1. j \in 1 .. last /\ j \in 0 .. last
      BY <1>7, <1>8, <2>2
    <3>2. FrameOK(m.frames[j]) /\ Suspended(m, j) /\ o.frames[j] = m.frames[j]
      BY <1>2, <1>8, <3>1 DEF Sound, LaidOut
    <3> QED
      BY <1>13, <3>1, <3>2 DEF Suspended
  <2> QED
    BY <2>1, <2>2
<1>15. Depth(o) = Floor(o) + Heights(o.bf.code)[o.pc]
  BY <1>1, <1>3, <1>4, <1>6 DEF Depth, Floor
<1>16. LaidOut(o)
  <2>1. 0 \in 0 .. last
    BY <1>7
  <2> QED
    BY <1>2, <1>13, <1>14, <1>15, <2>1 DEF LaidOut, Sound
<1>17. Sound(o)
  <2>1. o.base \in Nat /\ o.ret \in Int
    BY <1>1, <1>3
  <2> QED
    BY <1>3, <1>4, <1>6, <1>8, <1>14, <1>16, <2>1 DEF Sound
<1>18. Untouched(m, o)
  <2>1. \A j \in 1 .. m.base - 1 : o.stack[j] = m.stack[j]
    BY <1>1, <1>6
  <2>2. m.ret <= Len(o.stack)
    <3>1. m.base = m.ret + 1
      BY <1>2, SoundBase
    <3> HIDE DEF size
    <3> QED
      BY <1>1, <1>5, <1>6, <1>10, <3>1
  <2> QED
    BY <1>2, <1>6, <2>1, <2>2, UntouchedBelow
<1> QED
  BY <1>2, <1>3, <1>17, <1>18 DEF Good, o

\* A tail call of compiled code: the arguments move down over the frame.
LEMMA ReplacedGood ==
  ASSUME NEW m, NEW code, Ready(m), NextOp(m).op = "TailCall",
         WellFormed(code.bf, code.upvals)
  PROVE  Good(m, Replacing(Fetched(m), NextOp(m).n, code))
<1> DEFINE k == NextOp(m).n
           n == Fetched(m)
           o == Replacing(n, k, code)
           size == m.base + code.bf.n
           low == Truncated(m, m.base)
           s == low \o Operands(m, k)
<1>1. /\ k \in Nat /\ Depth(m) \in Nat /\ k <= Depth(m)
      /\ Floor(m) <= Depth(m) - k - 1 /\ m.base <= Floor(m) /\ m.base \in Nat
      /\ Floor(m) \in Nat
  BY CallOperands
<1>2. /\ Becomes(m, n, m.stack, m.pc + 1, m.w) /\ IsMachine(n) /\ IsSeq(m.stack)
      /\ Len(m.stack) = Depth(m) /\ ~m.halted /\ ~m.w.broken /\ Sound(m)
  BY ReadyIs
<1>3. /\ IsMachine(o) /\ ~o.halted /\ o.w = m.w /\ o.stack = Resized(s, size)
      /\ o.frames = m.frames /\ o.base = m.base /\ o.ret = m.ret
      /\ o.bf = code.bf /\ o.upvals = code.upvals /\ o.pc = 0
  <2>1. /\ n.base = m.base /\ n.ret = m.ret /\ n.frames = m.frames /\ n.w = m.w
        /\ n.halted = m.halted /\ n.stack = m.stack
    BY <1>2 DEF Becomes, SameFrame
  <2>2. Truncated(n, n.base) = low /\ Operands(n, k) = Operands(m, k)
    BY <2>1 DEF Truncated, Operands, Depth
  <2>3. /\ IsMachine(o) /\ o.halted = n.halted /\ o.w = n.w
        /\ o.stack = Resized(Truncated(n, n.base) \o Operands(n, k), n.base + code.bf.n)
        /\ o.frames = n.frames /\ o.base = n.base /\ o.ret = n.ret
        /\ o.bf = code.bf /\ o.upvals = code.upvals /\ o.pc = 0
    BY <1>2, ReplacingIs
  <2> HIDE DEF o, n, low
  <2> QED
    BY <1>2, <2>1, <2>2, <2>3
<1>4. /\ Resumable(code.bf, code.upvals, 0, 0) /\ Heights(code.bf.code)[0] = 0
      /\ code.bf.n \in Nat
  BY EntryPoint
<1>5. size \in Nat /\ m.base <= size
  BY <1>1, <1>4
<1>6. IsSeq(low) /\ Len(low) = m.base /\ \A j \in 1 .. m.base : low[j] = m.stack[j]
  <2>1. m.base <= Len(m.stack)
    BY <1>1, <1>2
  <2> QED
    BY <1>1, <1>2, <2>1, Cut DEF Truncated
<1>7. IsSeq(Operands(m, k)) /\ Len(Operands(m, k)) = k
  BY OperandsAre, <1>1, <1>2
<1> HIDE DEF o, low, size
<1>8. /\ IsSeq(s) /\ Len(s) = m.base + k /\ \A j \in 1 .. m.base : s[j] = m.stack[j]
  BY <1>6, <1>7, Joined
<1> HIDE DEF s
<1>9. /\ IsSeq(o.stack) /\ Len(o.stack) = size
      /\ \A j \in 1 .. m.base : o.stack[j] = m.stack[j]
  <2>1. /\ IsSeq(Resized(s, size)) /\ Len(Resized(s, size)) = size
        /\ \A j \in 1 .. size : j <= Len(s) => Resized(s, size)[j] = s[j]
    BY <1>5, <1>8, ResizedSeq
  <2> QED
    BY <1>1, <1>3, <1>5, <1>8, <2>1
<1>10. \A j : RetOf(o, j) = RetOf(m, j) /\ BaseOf(o, j) = BaseOf(m, j)
  BY <1>3 DEF RetOf, BaseOf
<1>11. \A j \in 1 .. Len(o.frames) : Suspended(o, j)
  BY <1>2, <1>3, <1>10 DEF Sound, LaidOut, Suspended
<1>12. Depth(o) = Floor(o) + Heights(o.bf.code)[o.pc]
  BY <1>1, <1>3, <1>4, <1>9 DEF Depth, Floor, size
<1>13. LaidOut(o)
  BY <1>2, <1>10, <1>11, <1>12 DEF LaidOut, Sound
<1>14. Sound(o)
  BY <1>2, <1>3, <1>4, <1>9, <1>13 DEF Sound
<1>15. Untouched(m, o)
  <2>1. \A j \in 1 .. m.base - 1 : o.stack[j] = m.stack[j]
    BY <1>1, <1>9
  <2>2. m.ret <= Len(o.stack)
    <3>1. m.base = m.ret + 1 /\ m.ret \in Int
      BY <1>2, SoundBase DEF Outermost
    <3> QED
      BY <1>1, <1>5, <1>9, <3>1
  <2> QED
    BY <1>2, <1>9, <2>1, <2>2, UntouchedBelow
<1> QED
  BY <1>2, <1>3, <1>14, <1>15 DEF Good, o

LEMMA CallOp ==
  ASSUME NEW m, NEW a, Ready(m), Contract(m, a), NextOp(m).op \in {"Call", "TailCall"}
  PROVE  Good(m, Step(m, a))
<1> DEFINE i == NextOp(m)
           k == i.n
           n == Fetched(m)
           tail == i.op = "TailCall"
           callee == Peek(m, Depth(m) - k - 1)
           compiled == Exact(callee, k) /\ callee.code.kind = "bytecode"
           below == [n EXCEPT !.stack = Dropped(n, k + 1)]
<1>1. Step(m, a) = Calling(n, k, tail, a)
  BY WellFed DEF Step, NextOp, Fetched
<1>2. AtCall(m)
  BY CallOperands
<1>3. IF compiled THEN WellFormed(callee.code.bf, callee.code.upvals) ELSE ~a.w.broken
  BY <1>2 DEF Contract
<1>4. callee = Peek(n, Depth(n) - k - 1)
  BY ReadyIs DEF Becomes, Peek
<1>5. Calling(n, k, tail, a) =
        IF ~compiled THEN Answered(n, below, a, tail)
        ELSE IF tail THEN Replacing(n, k, callee.code) ELSE Entering(n, k, callee.code)
  <2> HIDE DEF n, k, tail, callee, below
  <2> QED
    BY <1>4 DEF Calling, below, callee
<1>6. CASE ~compiled
  <2>1. ~a.w.broken
    BY <1>3, <1>6
  <2>2. tail \in BOOLEAN /\ i.op = IF tail THEN "TailCall" ELSE "Call"
    OBVIOUS
  <2>3. Good(m, Answered(n, below, a, tail))
    BY <2>1, <2>2, AnsweredGood
  <2> HIDE DEF n, below, tail, compiled
  <2> QED
    BY <1>1, <1>5, <1>6, <2>3
<1>7. CASE compiled /\ tail
  <2>1. Good(m, Replacing(n, k, callee.code))
    BY <1>3, <1>7, ReplacedGood
  <2> HIDE DEF n, below, tail, compiled
  <2> QED
    BY <1>1, <1>5, <1>7, <2>1
<1>8. CASE compiled /\ ~tail
  <2>1. i.op = "Call"
    BY <1>8
  <2>2. Good(m, Entering(n, k, callee.code))
    BY <1>3, <1>8, <2>1, EnteredGood
  <2> HIDE DEF n, below, tail, compiled
  <2> QED
    BY <1>1, <1>5, <1>8, <2>2
<1> QED
  BY <1>6, <1>7, <1>8

\* A self tail call rewrites the arguments and drops what else the frame holds.
LEMMA SelfTailCallOp ==
  ASSUME NEW m, NEW a, Ready(m), NextOp(m).op = "SelfTailCall"
  PROVE  Good(m, Step(m, a))
<1> DEFINE k == NextOp(m).n
           n == Fetched(m)
           low == Truncated(m, m.base)
           args == Operands(m, k)
           rest == SubSeq(m.stack, m.base + k + 1, Floor(m))
           s == low \o args \o rest
           lower == [n EXCEPT !.stack = s]
           o == [lower EXCEPT !.pc = 0]
<1>1. Step(m, a) = Looping(n, k)
  BY WellFed DEF Step, NextOp, Fetched
<1>2. /\ Becomes(m, n, m.stack, m.pc + 1, m.w) /\ IsMachine(n) /\ IsSeq(m.stack)
      /\ Len(m.stack) = Depth(m) /\ ~m.halted /\ ~m.w.broken /\ Sound(m)
  BY ReadyIs
<1>3. Looping(n, k) = o
  <2>1. n.base = m.base /\ n.stack = m.stack /\ n.bf = m.bf
    BY <1>2 DEF Becomes, SameFrame
  <2>2. /\ Truncated(n, n.base) = low /\ Operands(n, k) = args
        /\ SubSeq(n.stack, n.base + k + 1, Floor(n)) = rest
    BY <2>1 DEF Truncated, Operands, Depth, Floor
  <2>3. Looping(n, k) = [n EXCEPT !.stack = s, !.pc = 0]
    <3> HIDE DEF n, k, low, args, rest
    <3> QED
      BY <2>2 DEF Looping
  <2> HIDE DEF n, k, s
  <2> QED
    BY <2>3
<1>4. /\ k \in 0 .. m.bf.n /\ k <= Height(m) /\ m.bf.n \in Nat
      /\ m.base \in Nat /\ Floor(m) = m.base + m.bf.n /\ Floor(m) \in Nat
      /\ Depth(m) = Floor(m) + Height(m) /\ Height(m) \in Nat /\ Depth(m) \in Nat
  <2>1. /\ OpFits(m.pc, Heights(m.bf.code), m.bf, m.upvals) /\ Height(m) \in Nat
        /\ m.bf.n \in Nat /\ m.base \in Nat /\ Floor(m) \in Nat
        /\ Depth(m) = Floor(m) + Height(m)
    BY <1>2, SoundRegisters
  <2>2. OperandsFit(NextOp(m), m.bf, m.upvals) /\ Takes(NextOp(m)) <= Height(m)
    BY <2>1 DEF OpFits, Height, NextOp
  <2>3. k \in 0 .. m.bf.n
    BY <2>2 DEF OperandsFit
  <2>4. k <= Height(m)
    BY <2>2 DEF Takes, NeedsOperands
  <2>5. Floor(m) = m.base + m.bf.n
    BY DEF Floor
  <2>6. Depth(m) \in Nat
    BY <2>1
  <2> QED
    BY <2>1, <2>3, <2>4, <2>5, <2>6
<1> HIDE DEF k
<1>5. IsSeq(low) /\ Len(low) = m.base /\ \A j \in 1 .. m.base : low[j] = m.stack[j]
  <2>1. m.base <= Len(m.stack)
    BY <1>2, <1>4
  <2> QED
    BY <1>2, <1>4, <2>1, Cut DEF Truncated
<1>6. IsSeq(args) /\ Len(args) = k
  <2>1. k \in Nat /\ k <= Depth(m)
    BY <1>4
  <2> QED
    BY <1>2, <2>1, OperandsAre
<1>7. IsSeq(rest) /\ Len(rest) = m.bf.n - k
  <2> DEFINE from == m.base + k + 1
  <2>1. /\ from \in Nat /\ Floor(m) \in Nat /\ 1 <= from /\ from <= Floor(m) + 1
        /\ Floor(m) <= Len(m.stack) /\ Floor(m) + 1 - from = m.bf.n - k
    <3>1. from \in Nat /\ 1 <= from /\ from <= Floor(m) + 1
      BY <1>4
    <3>2. Floor(m) <= Len(m.stack)
      BY <1>2, <1>4
    <3>3. \A b, c, d \in Nat : b + c + 1 - (b + d + 1) = c - d
      OBVIOUS
    <3>4. Floor(m) + 1 - from = m.bf.n - k
      BY <1>4, <3>3
    <3> QED
      BY <1>4, <3>1, <3>2, <3>4
  <2> HIDE DEF from
  <2>2. IsSeq(SubSeq(m.stack, from, Floor(m)))
        /\ Len(SubSeq(m.stack, from, Floor(m))) = Floor(m) + 1 - from
    BY <1>2, <2>1, Part
  <2> QED
    BY <2>1, <2>2 DEF from
<1> HIDE DEF low, args, rest
<1>8. /\ IsSeq(low \o args) /\ Len(low \o args) = m.base + k
      /\ \A j \in 1 .. m.base : (low \o args)[j] = m.stack[j]
  BY <1>5, <1>6, Joined
<1>9. /\ IsSeq(s) /\ Len(s) = Floor(m)
      /\ \A j \in 1 .. m.base : s[j] = m.stack[j]
  <2> DEFINE t == low \o args
  <2> HIDE DEF t
  <2>1. /\ IsSeq(t \o rest) /\ Len(t \o rest) = Len(t) + Len(rest)
        /\ \A j \in 1 .. Len(t) : (t \o rest)[j] = t[j]
    BY <1>7, <1>8, Joined DEF t
  <2>2. Len(t) = m.base + k /\ \A j \in 1 .. m.base : t[j] = m.stack[j]
    BY <1>8 DEF t
  <2>3. s = t \o rest
    BY DEF t
  <2>4. Len(s) = Floor(m)
    <3>1. \A b, c, d \in Nat : b + d + (c - d) = b + c
      OBVIOUS
    <3>2. Len(t \o rest) = m.base + k + (m.bf.n - k)
      BY <1>7, <2>1, <2>2
    <3> QED
      BY <1>4, <2>3, <3>1, <3>2
  <2>5. \A j \in 1 .. m.base : j \in 1 .. Len(t)
    BY <1>4, <2>2
  <2> QED
    BY <2>1, <2>2, <2>3, <2>4, <2>5
<1> HIDE DEF s
<1>10. Becomes(m, o, s, 0, m.w)
  <2>1. Becomes(n, lower, s, n.pc, n.w) /\ n.w = m.w
    BY <1>2, WithStack DEF Becomes
  <2>2. IsMachine(lower) /\ lower.stack = s /\ lower.w = m.w
    BY <2>1 DEF Becomes
  <2> HIDE DEF lower
  <2>3. Becomes(lower, o, s, 0, m.w)
    BY <2>2, WithPc
  <2> HIDE DEF n, o
  <2> QED
    BY <1>2, <2>1, <2>3, BecomesInTurn
<1> HIDE DEF o
<1>11. IsMachine(o) /\ SameFrame(m, o) /\ o.stack = s /\ o.pc = 0 /\ o.w = m.w
  BY <1>10 DEF Becomes
<1>12. Sound(o)
  <2>1. WellFormed(m.bf, m.upvals)
    BY <1>2 DEF Sound, Resumable
  <2>2. Heights(m.bf.code)[0] = 0 /\ 0 \in 0 .. Len(m.bf.code) - 1
    BY <2>1, EntryPoint DEF Resumable
  <2>3. Len(o.stack) = Floor(m) + Heights(m.bf.code)[o.pc]
    BY <1>4, <1>9, <1>11, <2>2
  <2>4. Heights(m.bf.code)[o.pc] >= 0 /\ o.pc \in 0 .. Len(m.bf.code) - 1
    BY <1>11, <2>2
  <2> QED
    BY <1>2, <1>9, <1>11, <2>3, <2>4, StaysSound
<1>13. Untouched(m, o)
  <2>1. \A j \in 1 .. m.base - 1 : o.stack[j] = m.stack[j]
    BY <1>4, <1>9, <1>11
  <2>2. m.ret <= Len(o.stack)
    <3>1. m.base = m.ret + 1 /\ m.ret \in Int
      BY <1>2, SoundBase DEF Outermost
    <3> QED
      BY <1>4, <1>9, <1>11, <3>1
  <2> QED
    BY <1>2, <1>9, <1>11, <2>1, <2>2, UntouchedBelow
<1> QED
  BY <1>1, <1>2, <1>3, <1>11, <1>12, <1>13 DEF Good

(* ---- the activation ------------------------------------------------------------------------ *)

LEMMA StepGood ==
  ASSUME NEW m, NEW a, Ready(m), Contract(m, a)
  PROVE  Good(m, Step(m, a))
<1> DEFINE op == NextOp(m).op
<1>1. OperandsFit(NextOp(m), m.bf, m.upvals)
  BY ReadyIs, SoundRegisters DEF OpFits, NextOp
<1>2. op \in {"LoadConst", "LoadLocal", "LoadUpval", "LoadGlobal", "StoreLocal", "Pop",
              "Jump", "JumpFalse", "MakeClosure", "Prim", "Return", "Call", "TailCall",
              "SelfTailCall"}
  BY <1>1 DEF OperandsFit
<1>3. CASE op \in {"LoadConst", "LoadLocal", "LoadUpval", "LoadGlobal"}
  BY <1>3, LoadOps
<1>4. CASE op = "StoreLocal"
  BY <1>4, StoreLocalOp
<1>5. CASE op = "Pop"
  BY <1>5, PopOp
<1>6. CASE op \in {"Jump", "JumpFalse"}
  BY <1>6, JumpOps
<1>7. CASE op = "MakeClosure"
  BY <1>7, MakeClosureOp
<1>8. CASE op = "Prim"
  BY <1>8, PrimOp
<1>9. CASE op = "Return"
  BY <1>9, ReturnOp
<1>10. CASE op \in {"Call", "TailCall"}
  BY <1>10, CallOp
<1>11. CASE op = "SelfTailCall"
  BY <1>11, SelfTailCallOp
<1> QED
  BY <1>2, <1>3, <1>4, <1>5, <1>6, <1>7, <1>8, <1>9, <1>10, <1>11

LEMMA Blank ==
  ASSUME NEW n \in Nat
  PROVE  IsSeq([k \in 1 .. n |-> Nil]) /\ Len([k \in 1 .. n |-> Nil]) = n
<1> DEFINE s == [k \in 1 .. n |-> Nil]
<1>1. s \in [1 .. n -> {Nil}]
  OBVIOUS
<1> HIDE DEF s
<1>2. s \in Seq({Nil})
  BY <1>1, SeqDef
<1>3. Len(s) = n
  BY <1>1, <1>2, LenProperties
<1>4. IsSeq(s)
  BY <1>2, IsSeqIntro
<1> QED
  BY <1>3, <1>4 DEF s

\* exec starts in order.
LEMMA BeginsSound ==
  ASSUME Begins
  PROVE  Inv
<1> DEFINE m == machine
           args == SubSeq(m.stack, 1, m.bf.arity)
           blank == [k \in 1 .. m.bf.n - Len(args) |-> Nil]
<1>1. CASE m.halted
  BY <1>1 DEF Begins, Inv, NeverBroken
<1>2. CASE ~m.halted
  <2>1. /\ ~m.w.broken /\ WellFormed(m.bf, m.upvals) /\ IsSeq(m.stack)
        /\ Depth(m) >= m.bf.arity /\ m = Machine(m.bf, m.upvals, args, m.w)
    BY <1>2 DEF Begins
  <2>2. /\ m.base = 0 /\ m.pc = 0 /\ m.ret = Outermost /\ m.stack = args \o blank
        /\ m.frames = <<>> /\ IsMachine(m)
    <3> DEFINE r == [bf |-> m.bf, upvals |-> m.upvals, base |-> 0, pc |-> 0,
                     ret |-> Outermost, stack |-> args \o blank, frames |-> <<>>,
                     w |-> m.w, halted |-> FALSE, result |-> Ok(Nil, m.w)]
    <3>1. m = r
      BY <2>1 DEF Machine
    <3>2. r.base = 0 /\ r.pc = 0 /\ r.ret = Outermost /\ r.stack = args \o blank
          /\ r.frames = <<>>
      OBVIOUS
    <3>3. IsMachine(r)
      BY DEF IsMachine
    <3> HIDE DEF r, args, blank
    <3> QED
      BY <3>1, <3>2, <3>3
  <2>3. /\ Resumable(m.bf, m.upvals, 0, 0) /\ Heights(m.bf.code)[0] = 0
        /\ m.bf.n \in Nat /\ m.bf.arity \in Nat /\ m.bf.arity <= m.bf.n
    BY <2>1, EntryPoint
  <2>4. IsSeq(args) /\ Len(args) = m.bf.arity
    BY <2>1, <2>3, Cut DEF Depth
  <2>5. IsSeq(blank) /\ Len(blank) = m.bf.n - m.bf.arity
    <3>1. m.bf.n - Len(args) \in Nat
      BY <2>3, <2>4
    <3> HIDE DEF args
    <3> QED
      BY <2>4, <3>1, Blank
  <2> HIDE DEF args, blank
  <2>6. Len(m.stack) = m.bf.n
    <3>1. Len(args \o blank) = Len(args) + Len(blank)
      BY <2>4, <2>5, Joined
    <3>2. \A b, c \in Nat : b + (c - b) = c
      OBVIOUS
    <3> HIDE DEF m
    <3> QED
      BY <2>2, <2>3, <2>4, <2>5, <3>1, <3>2
  <2>7. IsSeq(m.frames) /\ Len(m.frames) = 0
    <3>1. <<>> \in Seq({}) /\ Len(<<>>) = 0
      OBVIOUS
    <3>2. IsSeq(<<>>)
      BY <3>1, IsSeqIntro
    <3> QED
      BY <2>2, <3>1, <3>2
  <2>8. LaidOut(m)
    <3>1. Depth(m) = Floor(m) + Heights(m.bf.code)[m.pc]
      BY <2>2, <2>3, <2>6 DEF Depth, Floor
    <3>2. RetOf(m, 0) = Outermost /\ BaseOf(m, 0) = 0
      BY <2>2, <2>7 DEF RetOf, BaseOf
    <3> QED
      BY <2>7, <3>1, <3>2 DEF LaidOut
  <2>9. Sound(m)
    BY <2>1, <2>2, <2>3, <2>7, <2>8 DEF Sound, Outermost
  <2> QED
    BY <2>1, <2>2, <2>9 DEF Inv, NeverBroken
<1> QED
  BY <1>1, <1>2

\* A turn keeps everything in order and leaves the callers' slots alone.
LEMMA TurnsSound ==
  ASSUME Inv, Turns
  PROVE  Inv' /\ (~machine'.halted => Untouched(machine, machine'))
<1>1. PICK answer : Contract(machine, answer) /\ Turn(answer)
  BY DEF Turns
<1>2. ~machine.halted /\ machine' = Step(machine, answer)
  BY <1>1 DEF Turn
<1>3. Ready(machine)
  BY <1>2 DEF Inv, NeverBroken, Ready
<1>4. Good(machine, machine')
  BY <1>1, <1>2, <1>3, StepGood
<1> QED
  BY <1>4 DEF Good, Inv, NeverBroken

\* The inductive invariant: the machine is sound whenever exec has not answered.
THEOREM ExecSound == Exec => []Inv
<1>1. Begins => Inv
  BY BeginsSound
<1>2. Inv /\ [Turns]_machine => Inv'
  <2>1. ASSUME Inv, Turns PROVE Inv'
    BY <2>1, TurnsSound
  <2>2. ASSUME Inv, UNCHANGED machine PROVE Inv'
    BY <2>2 DEF Inv, NeverBroken, IsMachine, Sound, LaidOut, Depth, Floor, RetOf, BaseOf,
                Suspended
  <2> QED
    BY <2>1, <2>2
<1> QED
  BY <1>1, <1>2, PTL DEF Exec

\* vm/exec.rs: on well-formed code and with callees that answer in order, exec meets
\* none of its internal errors, whatever the values and the functions are.
THEOREM WellFormedNeverBroken == Exec => []NeverBroken
<1>1. Inv => NeverBroken
  BY DEF Inv
<1> QED
  BY <1>1, ExecSound, PTL

\* vm/exec.rs, the shared operand stack: every frame has its locals and exactly the
\* operands its code put there, right above the frame that called it, and its result
\* goes to the slot of the callee.
THEOREM FramesApart == Exec => []StackLaidOut
<1>1. Inv => StackLaidOut
  BY DEF Inv, StackLaidOut, Sound
<1> QED
  BY <1>1, ExecSound, PTL

\* No op of a running frame, its calls, tail calls and return included, changes a
\* stack slot of the frames that wait for it.
THEOREM CallersKept == Exec => CallersUntouched
<1>1. Inv /\ [Turns]_machine =>
        [~machine'.halted /\ machine.ret # Outermost
           => Truncated(machine', machine.ret) = Truncated(machine, machine.ret)]_machine
  <2>1. ASSUME Inv, Turns, ~machine'.halted, machine.ret # Outermost
        PROVE  Truncated(machine', machine.ret) = Truncated(machine, machine.ret)
    BY <2>1, TurnsSound DEF Untouched
  <2> QED
    BY <2>1
<1> QED
  BY <1>1, ExecSound, PTL DEF Exec, CallersUntouched

=============================================================================
