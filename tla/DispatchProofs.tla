--------------------------- MODULE DispatchProofs ---------------------------
(***************************************************************************)
(* Proofs about Dispatch: the direct table is a mirror of the function     *)
(* cells, and calls by either kind of caller implement the one function    *)
(* table of FunctionTable.  The invariant has one part beside the mirror:  *)
(* install_jit fills a slot without writing the cell, so the cell of its   *)
(* leaf must still hold the kernel's function by then.  On top of it, the  *)
(* functions of the property store are settled whenever the store is used, *)
(* and the native overrides prevail in both tables.                        *)
(***************************************************************************)
EXTENDS Dispatch, SequenceTheorems, TLAPS

Tables == [functions : Fns, direct : Slots]

\* A filled slot means what its cell means, and takes the arguments that
\* compiled code was generated to pass.
Coherent(t) ==
  \A n \in Names : t.direct[n] # NoSlot =>
    /\ t.functions[n] # Undefined
    /\ t.direct[n].of = t.functions[n].of
    /\ t.direct[n].arity = t.functions[n].arity
    /\ t.direct[n].arity = ArityOf[n]

\* The two marks are no functions.
LEMMA Marks == Undefined \notin Fn /\ NoSlot \notin Fn
BY DispatchAssumption

(* ---- the table operations ------------------------------------------------ *)

\* Bodies makes a function for each of its names, with the name's arity.
LEMMA BodiesType ==
  ASSUME NEW S \in SUBSET Names, NEW of \in Meanings, NEW code \in Code
  PROVE  /\ Bodies(S, of, code) \in [S -> Fn]
         /\ \A n \in S : /\ Bodies(S, of, code)[n].arity = ArityOf[n]
                         /\ Bodies(S, of, code)[n].of = of
<1>1. \A n \in Names : ArityOf[n] \in Nat
  BY DispatchAssumption
<1>2. \A n \in S : [of |-> of, arity |-> ArityOf[n], code |-> code] \in Fn
  BY <1>1 DEF Fn
<1> QED BY <1>2 DEF Bodies

\* defun binds the cells and leaves the direct table a mirror.
LEMMA DefunKeeps ==
  ASSUME NEW t \in Tables, NEW S \in SUBSET Names, NEW F \in [S -> Fn], Coherent(t)
  PROVE  /\ Defun(t, F) \in Tables
         /\ Coherent(Defun(t, F))
         /\ \A n \in Names : Defun(t, F).functions[n]
                               = IF n \in S THEN F[n] ELSE t.functions[n]
BY DEF Defun, Over, ClearedSlots, Coherent, Tables, Fns, Slots

\* So does register_native.
LEMMA RegisterNativeKeeps ==
  ASSUME NEW t \in Tables, NEW S \in SUBSET Names, NEW F \in [S -> Fn], Coherent(t)
  PROVE  /\ RegisterNative(t, F) \in Tables
         /\ Coherent(RegisterNative(t, F))
         /\ \A n \in Names : RegisterNative(t, F).functions[n]
                               = IF n \in S THEN F[n] ELSE t.functions[n]
BY DEF RegisterNative, Over, ClearedSlots, Coherent, Tables, Fns, Slots

\* register_aot_direct keeps the mirror if the cells already hold functions that
\* mean the same.
LEMMA AotDirectKeeps ==
  ASSUME NEW t \in Tables, NEW S \in SUBSET Names, NEW F \in [S -> Fn], Coherent(t),
         \A n \in S : /\ t.functions[n] # Undefined
                      /\ F[n].of = t.functions[n].of
                      /\ F[n].arity = t.functions[n].arity
                      /\ F[n].arity = ArityOf[n]
  PROVE  /\ RegisterAotDirect(t, F) \in Tables
         /\ Coherent(RegisterAotDirect(t, F))
         /\ RegisterAotDirect(t, F).functions = t.functions
<1> DEFINE r == RegisterAotDirect(t, F)
<1>1. /\ r.functions = t.functions
      /\ \A n \in Names : r.direct[n] = IF n \in S THEN F[n] ELSE t.direct[n]
      /\ r \in Tables
  BY DEF RegisterAotDirect, Over, Tables, Fns, Slots
<1>2. Coherent(r)
  BY <1>1 DEF Coherent
<1> QED BY <1>1, <1>2

\* override_kernel keeps the mirror for functions of the generated arity.
LEMMA OverrideKeeps ==
  ASSUME NEW t \in Tables, NEW S \in SUBSET Names, NEW F \in [S -> Fn], Coherent(t),
         \A n \in S : F[n].arity = ArityOf[n]
  PROVE  /\ OverrideKernel(t, F) \in Tables
         /\ Coherent(OverrideKernel(t, F))
         /\ \A n \in Names : OverrideKernel(t, F).functions[n]
                               = IF n \in S THEN F[n] ELSE t.functions[n]
<1> DEFINE r == RegisterNative(t, F)
<1>1. /\ r \in Tables /\ Coherent(r)
      /\ \A n \in Names : r.functions[n] = IF n \in S THEN F[n] ELSE t.functions[n]
  BY RegisterNativeKeeps
<1>2. \A n \in S : r.functions[n] # Undefined /\ r.functions[n] = F[n]
  <2> SUFFICES ASSUME NEW n \in S PROVE r.functions[n] # Undefined /\ r.functions[n] = F[n]
    OBVIOUS
  <2>1. r.functions[n] = F[n] /\ F[n] \in Fn
    BY <1>1
  <2> QED BY <2>1, Marks
<1> HIDE DEF r
<1>3. /\ RegisterAotDirect(r, F) \in Tables
      /\ Coherent(RegisterAotDirect(r, F))
      /\ RegisterAotDirect(r, F).functions = r.functions
  BY <1>1, <1>2, AotDirectKeeps
<1> QED BY <1>1, <1>3 DEF OverrideKernel, r

(* ---- the invariant ---------------------------------------------------------- *)

\* The cell of the JIT's leaf holds the kernel's function, once its file is
\* loaded and until install_jit has run.
LeafIsKernel ==
  ~config.slice /\ step <= 6 /\ (\E i \in 1 .. loaded : JitLeaf \in Files[i]) =>
    /\ tables.functions[JitLeaf] # Undefined
    /\ tables.functions[JitLeaf].of = "kernel"
    /\ tables.functions[JitLeaf].arity = ArityOf[JitLeaf]

FilesFirst == step > 1 => loaded = Len(Files)

IInv == TypeOK /\ Coherent(tables) /\ LeafIsKernel /\ FilesFirst

\* Where the steps of the boot sequences stand.
LEMMA BootSteps ==
  ASSUME config \in Configs, step \in Nat \ {0}, NEW s, At(s)
  PROVE  /\ s = "files" => step = 1
         /\ s # "files" => step > 1
         /\ s = "early" => config.slice /\ step = 2
         /\ s = "initialise" => step = IF config.slice THEN 3 ELSE 2
         /\ s = "metadata" => step = IF config.slice THEN 4 ELSE 3
         /\ s = "aot" => step = IF config.slice THEN 5 ELSE 4
         /\ s = "overrides" => step = IF config.slice THEN 6 ELSE 5
         /\ s = "jit" => ~config.slice /\ step = 6
         /\ s = "cache" => ~config.slice /\ step = 7
         /\ s = "post" => ~config.slice /\ step = 8
<1>1. CASE config.slice
  <2> DEFINE b == <<"files", "early", "initialise", "metadata", "aot", "overrides">>
  <2>1. /\ b[1] = "files" /\ b[2] = "early" /\ b[3] = "initialise"
        /\ b[4] = "metadata" /\ b[5] = "aot" /\ b[6] = "overrides"
    OBVIOUS
  <2>2. step \in 1 .. 6 /\ s = b[step]
    BY <1>1 DEF At, Boot
  <2>3. step = 1 \/ step = 2 \/ step = 3 \/ step = 4 \/ step = 5 \/ step = 6
    BY <2>2
  <2> HIDE DEF b
  <2> QED BY <1>1, <2>1, <2>2, <2>3
<1>2. CASE ~config.slice
  <2> DEFINE b == <<"files", "initialise", "metadata", "aot", "overrides", "jit", "cache", "post">>
  <2>1. /\ b[1] = "files" /\ b[2] = "initialise" /\ b[3] = "metadata" /\ b[4] = "aot"
        /\ b[5] = "overrides" /\ b[6] = "jit" /\ b[7] = "cache" /\ b[8] = "post"
    OBVIOUS
  <2>2. step \in 1 .. 8 /\ s = b[step]
    BY <1>2 DEF At, Boot
  <2>3. \/ step = 1 \/ step = 2 \/ step = 3 \/ step = 4
        \/ step = 5 \/ step = 6 \/ step = 7 \/ step = 8
    BY <2>2
  <2> HIDE DEF b
  <2> QED BY <1>2, <2>1, <2>2, <2>3
<1> QED BY <1>1, <1>2

\* The kernel runs only after install_jit, and after the overrides.
LEMMA RunningIsLate ==
  ASSUME step \in Nat, Running
  PROVE  step > 6
BY DEF Running, Boot

LEMMA InitHolds == Init => IInv
<1> SUFFICES ASSUME Init PROVE IInv
  OBVIOUS
<1>1. Bodies(Primitives, "native", "native") \in [Primitives -> Fn]
  BY BodiesType, DispatchAssumption DEF Meanings, Code
<1>2. tables \in Tables
  BY <1>1, DispatchAssumption DEF Init, Over, Tables, Fns, Slots
<1>3. Coherent(tables)
  BY DEF Init, Coherent
<1>4. Len(Files) \in Nat
  BY DispatchAssumption, LenProperties
<1>5. LeafIsKernel /\ FilesFirst
  BY DEF Init, LeafIsKernel, FilesFirst
<1> QED BY <1>2, <1>3, <1>4, <1>5 DEF IInv, TypeOK, Init, Tables

(* ---- every step keeps it ------------------------------------------------------ *)

\* register_early_overrides keeps the mirror and the JIT's leaf.
LEMMA EarlyKeeps ==
  ASSUME NEW t \in Tables, Coherent(t)
  PROVE  /\ EarlyOverrides(t) \in Tables /\ Coherent(EarlyOverrides(t))
         /\ EarlyOverrides(t).functions[JitLeaf] = t.functions[JitLeaf]
         /\ \A n \in Names : EarlyOverrides(t).functions[n]
                               = IF n \in EarlyNames THEN Bodies(EarlyNames, "native", "native")[n]
                                 ELSE t.functions[n]
<1> DEFINE F == Bodies(EarlyNames, "native", "native")
<1>1. EarlyNames \in SUBSET Names /\ JitLeaf \notin EarlyNames /\ JitLeaf \in Names
  BY DispatchAssumption DEF EarlyNames, KernelNames
<1>2. F \in [EarlyNames -> Fn] /\ \A n \in EarlyNames : F[n].arity = ArityOf[n]
  BY <1>1, BodiesType DEF Meanings, Code
<1> HIDE DEF F
<1> QED BY <1>1, <1>2, OverrideKeeps DEF EarlyOverrides, F

\* Actions that write no table and do not boot change nothing the invariant reads.
LEMMA QuietStep ==
  ASSUME IInv, UNCHANGED <<tables, config, step, loaded>>
  PROVE  IInv'
BY DEF IInv, TypeOK, Coherent, LeafIsKernel, FilesFirst

\* The running kernel may write the tables in any way that keeps the mirror.
LEMMA RunningStep ==
  ASSUME IInv, Running, UNCHANGED <<config, step, loaded>>,
         tables' \in Tables, Coherent(tables')
  PROVE  IInv'
<1>1. step > 6
  BY RunningIsLate DEF IInv, TypeOK
<1> QED BY <1>1 DEF IInv, TypeOK, Tables, Coherent, LeafIsKernel, FilesFirst

\* A step of boot after the files may write any cells but the JIT's leaf, and
\* rewrite that to the kernel's function.
LEMMA BootStep ==
  ASSUME IInv, Advance, UNCHANGED <<config, loaded>>,
         NEW s, s # "files", At(s),
         tables' \in Tables, Coherent(tables'),
         \/ step > 5
         \/ tables'.functions[JitLeaf] = tables.functions[JitLeaf]
         \/ tables'.functions[JitLeaf] = [of |-> "kernel", arity |-> ArityOf[JitLeaf],
                                          code |-> "native"]
  PROVE  IInv'
<1>1. step \in Nat \ {0} /\ step > 1 /\ step' = step + 1
  BY BootSteps DEF IInv, TypeOK, Advance
<1>2. Coherent(tables)'
  BY DEF Coherent
<1>3. LeafIsKernel'
  <2>1. CASE step > 5
    BY <2>1, <1>1 DEF LeafIsKernel
  <2>2. CASE tables'.functions[JitLeaf] = tables.functions[JitLeaf]
    BY <2>2, <1>1 DEF IInv, LeafIsKernel
  <2>3. CASE tables'.functions[JitLeaf] = [of |-> "kernel", arity |-> ArityOf[JitLeaf],
                                           code |-> "native"]
    <3>1. JitLeaf \in Names /\ tables'.functions \in Fns
      BY DispatchAssumption DEF KernelNames, Tables
    <3>2. ArityOf[JitLeaf] \in Nat
      BY <3>1, DispatchAssumption
    <3>3. tables'.functions[JitLeaf] \in Fn
      BY <2>3, <3>2 DEF Fn, Meanings, Code
    <3> QED BY <2>3, <3>3, Marks DEF LeafIsKernel
  <2> QED BY <2>1, <2>2, <2>3
<1>4. FilesFirst'
  BY <1>1 DEF IInv, FilesFirst
<1> QED BY <1>1, <1>2, <1>3, <1>4 DEF IInv, TypeOK, Tables

LEMMA LoadFileKeeps == IInv /\ LoadFile => IInv'
<1> SUFFICES ASSUME IInv, LoadFile PROVE IInv'
  OBVIOUS
<1> DEFINE S == Files[loaded + 1]
           t == Defun(tables, Bodies(S, "kernel", "lambda"))
<1>1. /\ loaded \in Nat /\ loaded + 1 \in DOMAIN Files /\ loaded' = loaded + 1
      /\ S \in SUBSET Names /\ Len(Files) \in Nat
  BY DispatchAssumption, LenProperties, ElementOfSeq DEF IInv, TypeOK, LoadFile
<1>2. /\ t \in Tables /\ Coherent(t)
      /\ \A n \in Names : t.functions[n] = IF n \in S THEN Bodies(S, "kernel", "lambda")[n]
                                             ELSE tables.functions[n]
  <2>1. Bodies(S, "kernel", "lambda") \in [S -> Fn]
    BY <1>1, BodiesType DEF Meanings, Code
  <2>2. tables \in Tables /\ Coherent(tables)
    BY DEF IInv, TypeOK, Tables
  <2> HIDE DEF S
  <2> QED BY <1>1, <2>1, <2>2, DefunKeeps
<1>3. /\ tables' \in Tables /\ Coherent(tables')
      /\ tables'.functions[JitLeaf] = t.functions[JitLeaf]
  <2>1. tables' = t \/ tables' = EarlyOverrides(t)
    BY DEF LoadFile
  <2> QED BY <1>2, <2>1, EarlyKeeps
<1>4. step = 1 /\ step' \in Nat \ {0} /\ UNCHANGED config
      /\ (step' > 1 => loaded' = Len(Files))
  <2>1. step = 1 /\ step \in Nat \ {0}
    BY BootSteps DEF IInv, TypeOK, LoadFile
  <2> QED BY <1>1, <2>1 DEF LoadFile, Advance
<1>5. LeafIsKernel'
  <2> SUFFICES ASSUME ~config.slice, NEW i \in 1 .. loaded + 1, JitLeaf \in Files[i]
               PROVE  /\ tables'.functions[JitLeaf] # Undefined
                      /\ tables'.functions[JitLeaf].of = "kernel"
                      /\ tables'.functions[JitLeaf].arity = ArityOf[JitLeaf]
    BY <1>1, <1>4 DEF LeafIsKernel
  <2>1. JitLeaf \in Names
    BY DispatchAssumption DEF KernelNames
  <2>2. CASE JitLeaf \in S
    <3>1. /\ t.functions[JitLeaf] \in Fn
          /\ t.functions[JitLeaf].of = "kernel"
          /\ t.functions[JitLeaf].arity = ArityOf[JitLeaf]
      BY <1>1, <1>2, <2>1, <2>2, BodiesType DEF Meanings, Code
    <3> QED BY <3>1, <1>3, Marks
  <2>3. CASE JitLeaf \notin S
    <3>1. i \in 1 .. loaded
      BY <1>1, <2>3
    <3>2. /\ tables.functions[JitLeaf] # Undefined
          /\ tables.functions[JitLeaf].of = "kernel"
          /\ tables.functions[JitLeaf].arity = ArityOf[JitLeaf]
      BY <3>1, <1>4 DEF IInv, LeafIsKernel
    <3>3. tables'.functions[JitLeaf] = tables.functions[JitLeaf]
      BY <2>1, <2>3, <1>2, <1>3
    <3> QED BY <3>2, <3>3
  <2> QED BY <2>2, <2>3
<1>6. Coherent(tables)' /\ FilesFirst'
  BY <1>3, <1>4 DEF Coherent, FilesFirst
<1> QED BY <1>1, <1>3, <1>4, <1>5, <1>6 DEF IInv, TypeOK, Tables, LoadFile

LEMMA InstallJitKeeps == IInv /\ InstallJit => IInv'
<1> SUFFICES ASSUME IInv, InstallJit PROVE IInv'
  OBVIOUS
<1>1. PICK demo \in {{}, {JitDemo}} :
        tables' = IF config.jit
                  THEN RegisterAotDirect(
                         Defun(RegisterAotDirect(tables, Bodies({JitLeaf}, "kernel", "jit")),
                               Bodies({JitDemo}, "demo", "lambda")),
                         Bodies(demo, "demo", "jit"))
                  ELSE tables
  BY DEF InstallJit
<1>2. /\ tables \in Tables /\ Coherent(tables)
      /\ step = 6 /\ ~config.slice
  BY BootSteps DEF IInv, TypeOK, Tables, InstallJit
<1>3. /\ JitLeaf \in Names /\ JitDemo \in Names /\ demo \subseteq {JitDemo}
  BY DispatchAssumption DEF KernelNames
<1> DEFINE L == Bodies({JitLeaf}, "kernel", "jit")
           D == Bodies({JitDemo}, "demo", "lambda")
           J == Bodies(demo, "demo", "jit")
           t1 == RegisterAotDirect(tables, L)
           t2 == Defun(t1, D)
           t3 == RegisterAotDirect(t2, J)
<1>4. /\ L \in [{JitLeaf} -> Fn] /\ L[JitLeaf].arity = ArityOf[JitLeaf]
      /\ L[JitLeaf].of = "kernel"
  BY <1>3, BodiesType DEF Meanings, Code
<1>5. /\ D \in [{JitDemo} -> Fn] /\ D[JitDemo].arity = ArityOf[JitDemo]
      /\ D[JitDemo].of = "demo"
  BY <1>3, BodiesType DEF Meanings, Code
<1>6. /\ J \in [demo -> Fn]
      /\ \A n \in demo : J[n].arity = ArityOf[n] /\ J[n].of = "demo"
  BY <1>3, BodiesType DEF Meanings, Code
<1>7. /\ tables.functions[JitLeaf] # Undefined
      /\ tables.functions[JitLeaf].of = "kernel"
      /\ tables.functions[JitLeaf].arity = ArityOf[JitLeaf]
  <2>1. loaded = Len(Files) /\ \E i \in 1 .. Len(Files) : JitLeaf \in Files[i]
    BY <1>2, DispatchAssumption, LenProperties DEF IInv, FilesFirst, KernelNames
  <2> QED BY <2>1, <1>2 DEF IInv, LeafIsKernel
<1> HIDE DEF L, D, J
<1>8. t1 \in Tables /\ Coherent(t1)
  BY <1>2, <1>3, <1>4, <1>7, AotDirectKeeps
<1> HIDE DEF t1
<1>9. /\ t2 \in Tables /\ Coherent(t2)
      /\ t2.functions[JitDemo] = D[JitDemo]
  BY <1>3, <1>5, <1>8, DefunKeeps
<1> HIDE DEF t2
<1>10. t3 \in Tables /\ Coherent(t3)
  <2>1. \A n \in demo : n = JitDemo
    BY <1>3
  <2>2. D[JitDemo] # Undefined
    BY <1>5, Marks
  <2>3. \A n \in demo : /\ t2.functions[n] # Undefined
                        /\ J[n].of = t2.functions[n].of
                        /\ J[n].arity = t2.functions[n].arity
                        /\ J[n].arity = ArityOf[n]
    BY <2>1, <2>2, <1>5, <1>6, <1>9
  <2>4. demo \in SUBSET Names
    BY <1>3
  <2> QED BY <2>3, <2>4, <1>6, <1>9, AotDirectKeeps
<1>11. tables' \in Tables /\ Coherent(tables')
  BY <1>1, <1>2, <1>10 DEF L, D, J, t1, t2
<1>12. /\ step > 5 /\ At("jit") /\ Advance /\ UNCHANGED <<config, loaded>>
  BY <1>2 DEF InstallJit
<1> QED BY <1>11, <1>12, BootStep

\* An installer that dual-registers functions of the generated arity is a step of
\* boot, or of the running kernel, that the invariant allows.
LEMMA InstallKeeps ==
  ASSUME IInv, NEW S \in SUBSET Names, NEW of \in Meanings,
         NEW r, r = OverrideKernel(tables, Bodies(S, of, "native"))
  PROVE  /\ r \in Tables /\ Coherent(r)
         /\ JitLeaf \notin S => r.functions[JitLeaf] = tables.functions[JitLeaf]
         /\ JitLeaf \in S =>
              r.functions[JitLeaf] = [of |-> of, arity |-> ArityOf[JitLeaf], code |-> "native"]
<1> DEFINE F == Bodies(S, of, "native")
<1>1. F \in [S -> Fn] /\ \A n \in S : F[n].arity = ArityOf[n]
  BY BodiesType DEF Code
<1>2. JitLeaf \in Names /\ tables \in Tables /\ Coherent(tables)
  BY DispatchAssumption DEF KernelNames, IInv, TypeOK, Tables
<1>3. JitLeaf \in S => F[JitLeaf] = [of |-> of, arity |-> ArityOf[JitLeaf], code |-> "native"]
  BY DEF Bodies
<1> HIDE DEF F
<1> QED BY <1>1, <1>2, <1>3, OverrideKeeps DEF F

LEMMA StepKeeps == IInv /\ [Next]_vars => IInv'
<1> SUFFICES ASSUME IInv, [Next]_vars PROVE IInv'
  OBVIOUS
<1>0. tables \in Tables /\ Coherent(tables) /\ JitLeaf \in Names
  BY DispatchAssumption DEF KernelNames, IInv, TypeOK, Tables
<1>1. CASE LoadFile
  BY <1>1, LoadFileKeeps
<1>2. CASE InstallEarly
  BY <1>2, <1>0, EarlyKeeps, BootStep DEF InstallEarly
<1>3. CASE Initialises
  <2>1. PICK s \in {"initialise", "metadata", "post"} : At(s)
    BY <1>3 DEF Initialises
  <2> QED BY <1>3, <2>1, <1>0, BootStep DEF Initialises
<1>4. CASE InstallAot
  <2>1. KernelNames \ SlowDefuns \in SUBSET Names /\ "kernel" \in Meanings
    BY DispatchAssumption DEF KernelNames, Meanings
  <2>2. /\ tables' \in Tables /\ Coherent(tables')
        /\ \/ tables'.functions[JitLeaf] = tables.functions[JitLeaf]
           \/ tables'.functions[JitLeaf]
                = [of |-> "kernel", arity |-> ArityOf[JitLeaf], code |-> "native"]
    BY <1>4, <1>0, <2>1, InstallKeeps DEF InstallAot
  <2> QED BY <1>4, <2>2, BootStep DEF InstallAot
<1>5. CASE HotOverrides
  <2> DEFINE t == EarlyOverrides(tables)
             F == Bodies(HotNames, "native", "native")
  <2>1. /\ t \in Tables /\ Coherent(t)
        /\ t.functions[JitLeaf] = tables.functions[JitLeaf]
    BY <1>0, EarlyKeeps
  <2>2. HotNames \in SUBSET Names /\ JitLeaf \notin HotNames
    BY DispatchAssumption
  <2>3. F \in [HotNames -> Fn] /\ \A n \in HotNames : F[n].arity = ArityOf[n]
    BY <2>2, BodiesType DEF Meanings, Code
  <2>4. tables' = OverrideKernel(t, F)
    BY <1>5 DEF HotOverrides
  <2> HIDE DEF t, F
  <2>5. /\ tables' \in Tables /\ Coherent(tables')
        /\ tables'.functions[JitLeaf] = tables.functions[JitLeaf]
    BY <1>0, <2>1, <2>2, <2>3, <2>4, OverrideKeeps
  <2> QED BY <1>5, <2>5, BootStep DEF HotOverrides
<1>6. CASE InstallJit
  BY <1>6, InstallJitKeeps
<1>7. CASE InstallCache
  <2>1. step > 5
    BY <1>7, BootSteps DEF InstallCache, IInv, TypeOK
  <2>2. CacheNames \in SUBSET Names /\ "cached" \in Meanings
    BY DispatchAssumption DEF Meanings
  <2>3. tables' \in Tables /\ Coherent(tables')
    BY <1>7, <1>0, <2>2, InstallKeeps DEF InstallCache
  <2> QED BY <1>7, <2>1, <2>3, BootStep DEF InstallCache
<1>8. CASE Rebind
  <2>1. PICK n \in UserNames, k \in 0 .. MaxArgs :
          \/ tables' = Defun(tables, [m \in {n} |->
                               [of |-> "user", arity |-> k, code |-> "lambda"]])
          \/ tables' = RegisterNative(tables, [m \in {n} |->
                               [of |-> "host", arity |-> k, code |-> "native"]])
    BY <1>8 DEF Rebind
  <2>2. {n} \in SUBSET Names /\ k \in Nat
    BY DispatchAssumption
  <2>3. /\ [m \in {n} |-> [of |-> "user", arity |-> k, code |-> "lambda"]] \in [{n} -> Fn]
        /\ [m \in {n} |-> [of |-> "host", arity |-> k, code |-> "native"]] \in [{n} -> Fn]
    BY <2>2 DEF Fn, Meanings, Code
  <2>4. tables' \in Tables /\ Coherent(tables')
    BY <1>0, <2>1, <2>2, <2>3, DefunKeeps, RegisterNativeKeeps
  <2> QED BY <1>8, <2>4, RunningStep DEF Rebind
<1>9. CASE LoadSource
  <2>1. /\ Covered \in SUBSET Names
        /\ Bodies(Covered, "source", "lambda") \in [Covered -> Fn]
    BY DispatchAssumption, BodiesType DEF Meanings, Code
  <2>2. tables' \in Tables /\ Coherent(tables')
    BY <1>9, <1>0, <2>1, DefunKeeps DEF LoadSource
  <2> QED BY <1>9, <2>2, RunningStep DEF LoadSource
<1>10. CASE InstallOverlay
  <2>1. Covered \in SUBSET Names /\ "source" \in Meanings
    BY DispatchAssumption DEF Meanings
  <2>2. tables' \in Tables /\ Coherent(tables')
    <3>1. tables' = OverrideKernel(tables, Bodies(Covered, "source", "native"))
      BY <1>10 DEF InstallOverlay
    <3> QED BY <3>1, <2>1, InstallKeeps
  <2> QED BY <1>10, <2>2, RunningStep DEF InstallOverlay
<1>11. CASE UseProperties
  BY <1>11, QuietStep DEF UseProperties
<1>12. CASE Call
  BY <1>12, QuietStep DEF Call
<1>13. CASE CompiledCall
  BY <1>13, QuietStep DEF CompiledCall
<1>14. CASE SealedCall
  BY <1>14, QuietStep DEF SealedCall
<1>15. CASE UNCHANGED vars
  BY <1>15, QuietStep DEF vars
<1> QED BY <1>1, <1>2, <1>3, <1>4, <1>5, <1>6, <1>7, <1>8, <1>9, <1>10, <1>11, <1>12,
           <1>13, <1>14, <1>15 DEF Next

LEMMA Invariance == Spec => []IInv
<1>1. Init => IInv
  BY InitHolds
<1>2. IInv /\ [Next]_vars => IInv'
  BY StepKeeps
<1> QED BY <1>1, <1>2, PTL DEF Spec

(* ---- theorems --------------------------------------------------------------------- *)

\* Both tables keep their types, whatever is defined, installed or loaded.
THEOREM TypeCorrect == Spec => []TypeOK
<1>1. IInv => TypeOK
  BY DEF IInv
<1> QED BY <1>1, Invariance, PTL

\* The direct table is a mirror of the function cells: no call from compiled code
\* reaches a function that its name is no longer bound to.
THEOREM DirectTableMirrors == Spec => []Mirrors
<1>1. IInv => Mirrors
  <2> SUFFICES ASSUME IInv, NEW n \in Names, tables.direct[n] # NoSlot
               PROVE  /\ tables.functions[n] # Undefined
                      /\ Meaning(tables.direct[n]) = Meaning(tables.functions[n])
    BY DEF Mirrors
  <2>1. tables.direct[n] # Undefined
    BY Marks DEF IInv, TypeOK, Slots
  <2>2. /\ tables.functions[n] # Undefined
        /\ tables.direct[n].of = tables.functions[n].of
        /\ tables.direct[n].arity = tables.functions[n].arity
    BY DEF IInv, Coherent
  <2> QED BY <2>1, <2>2 DEF Meaning
<1> QED BY <1>1, Invariance, PTL

(* ---- refinement ------------------------------------------------------------------- *)

\* What a table of cells means is a function table.
LEMMA TableTyped ==
  ASSUME NEW g \in Fns
  PROVE  [n \in Names |-> Meaning(g[n])]
           \in [Names -> [of : Meanings, arity : Nat] \cup {Undefined}]
<1>1. \A f \in Fn : [of |-> f.of, arity |-> f.arity] \in [of : Meanings, arity : Nat]
  BY DEF Fn
<1>2. \A f \in Fn \cup {Undefined} :
        Meaning(f) \in [of : Meanings, arity : Nat] \cup {Undefined}
  BY <1>1 DEF Meaning
<1> QED BY <1>2 DEF Fns

\* A slot does with the arguments compiled code passes what the cell would.
LEMMA SlotCallsTheCell ==
  ASSUME Coherent(tables), TypeOK, NEW n \in Names
  PROVE  ApplyDirect(n, ArityOf[n]) = Abstract!Applied(Table[n], ArityOf[n])
<1>1. CASE tables.direct[n] = NoSlot
  BY <1>1 DEF ApplyDirect, ApplyNamed
<1>2. CASE tables.direct[n] # NoSlot
  <2> DEFINE f == tables.functions[n]
             d == tables.direct[n]
  <2>1. /\ f # Undefined /\ f \in Fn
        /\ d.of = f.of /\ d.arity = f.arity /\ d.arity = ArityOf[n]
    BY <1>2 DEF Coherent, TypeOK, Fns
  <2>2. Table[n] = [of |-> f.of, arity |-> f.arity]
    BY <2>1 DEF Table, Meaning
  <2>3. Table[n] # Undefined /\ ~(ArityOf[n] < Table[n].arity) /\ Table[n].of = f.of
    <3>1. f.of \in Meanings /\ f.arity \in Nat
      BY <2>1 DEF Fn
    <3>2. Table[n] \in [of : Meanings, arity : Nat]
      BY <2>2, <3>1
    <3>3. Undefined \notin [of : Meanings, arity : Nat]
      BY DispatchAssumption
    <3>4. Table[n] # Undefined
      BY <3>2, <3>3
    <3> HIDE DEF f, d
    <3>5. Table[n].of = f.of /\ Table[n].arity = f.arity
      BY <2>2
    <3>6. f.arity = ArityOf[n]
      BY <2>1
    <3> QED BY <3>1, <3>4, <3>5, <3>6
  <2>4. Abstract!Applied(Table[n], ArityOf[n])
          = [does |-> "runs", of |-> f.of, args |-> ArityOf[n]]
    BY <2>3 DEF Abstract!Applied
  <2>5. ApplyDirect(n, ArityOf[n]) = [does |-> "runs", of |-> f.of, args |-> ArityOf[n]]
    BY <1>2, <2>1 DEF ApplyDirect, CallSlot
  <2> QED BY <2>4, <2>5
<1> QED BY <1>1, <1>2

LEMMA InitRefines == Init => Abstract!Init
<1>1. Init => Table \in [Names -> [of : Meanings, arity : Nat] \cup {Undefined}]
  BY InitHolds, TableTyped DEF IInv, TypeOK, Table
<1> QED BY <1>1 DEF Init, Abstract!Init

LEMMA StepRefines == IInv /\ IInv' /\ [Next]_vars => [Abstract!Next]_(Abstract!vars)
<1> SUFFICES ASSUME IInv, IInv', [Next]_vars PROVE [Abstract!Next]_(Abstract!vars)
  OBVIOUS
<1>1. CASE UNCHANGED outcome
  <2>1. (Table \in [Names -> [of : Meanings, arity : Nat] \cup {Undefined}])'
    <3>1. tables'.functions \in Fns
      BY DEF IInv, TypeOK
    <3>2. [n \in Names |-> Meaning(tables'.functions[n])]
            \in [Names -> [of : Meanings, arity : Nat] \cup {Undefined}]
      BY <3>1, TableTyped
    <3> QED BY <3>2 DEF Table, Meaning
  <2> QED BY <1>1, <2>1 DEF Abstract!Next, Abstract!Bind
<1>2. CASE Call
  <2>1. PICK n \in Names, k \in 0 .. MaxArgs : outcome' = Abstract!Applied(Table[n], k)
    BY <1>2 DEF Call, ApplyNamed
  <2>2. Table' = Table
    BY <1>2 DEF Call, Table
  <2> QED BY <2>1, <2>2 DEF Abstract!Next, Abstract!CallByName
<1>3. CASE CompiledCall
  <2>1. PICK n \in Names : outcome' = ApplyDirect(n, ArityOf[n])
    BY <1>3 DEF CompiledCall
  <2>2. outcome' = Abstract!Applied(Table[n], ArityOf[n])
    BY <2>1, SlotCallsTheCell DEF IInv
  <2>3. ArityOf[n] \in 0 .. MaxArgs
    BY DispatchAssumption
  <2>4. Table' = Table
    BY <1>3 DEF CompiledCall, Table
  <2> QED BY <2>2, <2>3, <2>4 DEF Abstract!Next, Abstract!CallByName
<1> QED BY <1>1, <1>2, <1>3 DEF Next, LoadFile, InstallEarly, Initialises, InstallAot,
           HotOverrides, InstallJit, InstallCache, UseProperties, Rebind, LoadSource,
           InstallOverlay, SealedCall, vars

\* Boot, installers, redefinitions and both kinds of callers implement the function
\* table a program may assume: every call does what the name is bound to then.
THEOREM Refinement == Spec => ImplementsTable
<1>1. Init => Abstract!Init
  BY InitRefines
<1>2. IInv /\ IInv' /\ [Next]_vars => [Abstract!Next]_(Abstract!vars)
  BY StepRefines
<1> QED BY <1>1, <1>2, Invariance, PTL DEF ImplementsTable, Abstract!Spec, Spec

(* ---- the property store ------------------------------------------------------------- *)

Stored == {HashName} \cup StoreNames

LoadedMeaning(n) ==
  IF \E i \in 1 .. loaded : n \in Files[i] THEN [of |-> "kernel", arity |-> ArityOf[n]]
  ELSE IF n \in Primitives THEN [of |-> "native", arity |-> ArityOf[n]]
  ELSE Undefined

\* What a function of the property store must be whenever the store is used.
Settled(n) ==
  IF n \in EarlyNames THEN [of |-> "native", arity |-> ArityOf[n]] ELSE LoadedMeaning(n)

\* The early overrides stand, except before their installation and between the
\* installation of the compiled kernel and that of the overrides.
EarlyStand ==
  IF config.slice THEN step \in 3 .. 5 \/ step > 6
  ELSE loaded >= SysFile /\ step # 5

StoreIsSettled ==
  \A n \in Stored : n \notin EarlyNames \/ EarlyStand => Meaning(tables.functions[n]) = Settled(n)

\* Uses of the store go by the settled functions, but for those of a slice's own forms.
SettledLayout == [n \in Stored |-> Settled(n)]
LayoutsSettled ==
  \A l \in layouts : l.when = "load" \/ (step > 1 /\ l.by = SettledLayout)

SInv == StoreIsSettled /\ LayoutsSettled

LEMMA StoredNames ==
  /\ Stored \subseteq Names /\ EarlyNames \subseteq Stored /\ HashName \in EarlyNames
  /\ ~config.s4x => EarlyNames = {HashName}
BY DispatchAssumption DEF Stored, EarlyNames

\* The meaning of the functions an installer binds.
LEMMA BodiesMean ==
  ASSUME NEW S \in SUBSET Names, NEW of \in Meanings, NEW code \in Code, NEW n \in S
  PROVE  Meaning(Bodies(S, of, code)[n]) = [of |-> of, arity |-> ArityOf[n]]
<1> DEFINE f == Bodies(S, of, code)[n]
<1>1. f \in Fn /\ f.of = of /\ f.arity = ArityOf[n]
  BY BodiesType
<1>2. f # Undefined
  BY <1>1, Marks
<1> QED BY <1>1, <1>2 DEF Meaning

\* A step keeps the store settled if it leaves the cells of the store alone and the
\* early overrides do not come to stand by it.
LEMMA StoreUntouched ==
  ASSUME StoreIsSettled, UNCHANGED <<config, loaded>>,
         \A n \in Stored : tables'.functions[n] = tables.functions[n],
         EarlyStand' => EarlyStand
  PROVE  StoreIsSettled'
BY DEF StoreIsSettled, Settled, LoadedMeaning, EarlyNames

\* Layouts stay settled if the new one, if any, is.
LEMMA LayoutsKept ==
  ASSUME LayoutsSettled, UNCHANGED <<config, loaded>>, step \in Nat \ {0},
         step' = step \/ step' = step + 1,
         \/ UNCHANGED layouts
         \/ step > 1 /\ layouts' = layouts \cup {Use("run", tables)}
                     /\ LayoutOf(tables) = SettledLayout
  PROVE  LayoutsSettled'
<1>1. \A n \in Stored : Settled(n)' = Settled(n)
  BY DEF Settled, LoadedMeaning, EarlyNames
<1>2. SettledLayout' = SettledLayout
  BY <1>1 DEF SettledLayout, Settled, LoadedMeaning, EarlyNames
<1>3. step > 1 => step' > 1
  OBVIOUS
<1>4. Use("run", tables).by = LayoutOf(tables)
  BY DEF Use
<1> QED BY <1>2, <1>3, <1>4 DEF LayoutsSettled

\* A use of the property store goes by the settled functions.
LEMMA LayoutIsSettled ==
  ASSUME StoreIsSettled, EarlyStand
  PROVE  LayoutOf(tables) = SettledLayout
BY StoredNames DEF StoreIsSettled, LayoutOf, SettledLayout, Stored

\* After the files, which include sys.kl, the count of loaded files is final.
LEMMA SysLoaded ==
  ASSUME IInv, step > 1
  PROVE  loaded = Len(Files) /\ loaded \in Nat /\ loaded >= SysFile
BY DispatchAssumption, LenProperties DEF IInv, FilesFirst

LEMMA LoadFileSettles ==
  ASSUME IInv, SInv, LoadFile
  PROVE  SInv'
<1> DEFINE S == Files[loaded + 1]
           t == Defun(tables, Bodies(S, "kernel", "lambda"))
<1>1. /\ loaded \in Nat /\ loaded + 1 \in DOMAIN Files /\ loaded' = loaded + 1
      /\ S \in SUBSET Names /\ UNCHANGED config
      /\ step = 1 /\ step' \in {1, 2} /\ SysFile \in Nat \ {0}
  <2>1. step = 1
    BY BootSteps DEF IInv, TypeOK, LoadFile
  <2> QED BY <2>1, DispatchAssumption, LenProperties, ElementOfSeq
            DEF IInv, TypeOK, LoadFile, Advance
<1>2. /\ t \in Tables /\ Coherent(t)
      /\ \A n \in Names : t.functions[n] = IF n \in S THEN Bodies(S, "kernel", "lambda")[n]
                                             ELSE tables.functions[n]
  <2>1. Bodies(S, "kernel", "lambda") \in [S -> Fn]
    BY <1>1, BodiesType DEF Meanings, Code
  <2>2. tables \in Tables /\ Coherent(tables)
    BY DEF IInv, TypeOK, Tables
  <2> HIDE DEF S
  <2> QED BY <1>1, <2>1, <2>2, DefunKeeps
<1>3. \A n \in S : Meaning(Bodies(S, "kernel", "lambda")[n]) = [of |-> "kernel", arity |-> ArityOf[n]]
  BY <1>1, BodiesMean DEF Meanings, Code
<1>4. tables' = IF ~config.slice /\ loaded + 1 = SysFile THEN EarlyOverrides(t) ELSE t
  BY <1>1 DEF LoadFile
<1> HIDE DEF S, t
<1>5. \A n \in Names \ EarlyNames : tables'.functions[n] = t.functions[n]
  BY <1>2, <1>4, EarlyKeeps
<1>6. ASSUME NEW n \in Stored, n \notin EarlyNames
      PROVE  Meaning(tables'.functions[n]) = Settled(n)'
  <2>1. n \in Names /\ EarlyNames' = EarlyNames /\ Meaning(tables.functions[n]) = LoadedMeaning(n)
    BY <1>1, <1>6, StoredNames DEF SInv, StoreIsSettled, Settled, EarlyNames
  <2>2. CASE n \in S
    <3>1. \E i \in 1 .. loaded' : n \in Files[i]
      BY <2>2, <1>1 DEF S
    <3> QED BY <3>1, <2>1, <2>2, <1>2, <1>3, <1>5, <1>6 DEF Settled, LoadedMeaning
  <2>3. CASE n \notin S
    <3>1. (\E i \in 1 .. loaded' : n \in Files[i]) <=> (\E i \in 1 .. loaded : n \in Files[i])
      BY <2>3, <1>1 DEF S
    <3>2. tables'.functions[n] = tables.functions[n]
      BY <2>1, <2>3, <1>2, <1>5, <1>6
    <3> QED BY <3>1, <3>2, <2>1, <1>6 DEF Settled, LoadedMeaning
  <2> QED BY <2>2, <2>3
<1>7. ASSUME NEW n \in Stored, n \in EarlyNames, EarlyStand'
      PROVE  Meaning(tables'.functions[n]) = Settled(n)'
  <2>1. ~config.slice /\ loaded + 1 >= SysFile
    BY <1>1, <1>7 DEF EarlyStand
  <2>2. n = HashName /\ n \in Names
    BY <1>7, <2>1, StoredNames DEF IInv, TypeOK, Configs
  <2>3. Settled(n)' = [of |-> "native", arity |-> ArityOf[n]]
    BY <1>1, <1>7 DEF Settled, EarlyNames
  <2>4. CASE loaded + 1 = SysFile
    <3>1. tables'.functions[n] = Bodies(EarlyNames, "native", "native")[n]
      BY <2>1, <2>2, <2>4, <1>2, <1>4, <1>7, EarlyKeeps
    <3>2. EarlyNames \in SUBSET Names
      BY StoredNames
    <3> QED BY <3>1, <3>2, <2>3, <1>7, BodiesMean DEF Meanings, Code
  <2>5. CASE loaded >= SysFile
    <3>1. n \notin S
      BY <2>2, <2>5, <1>1, StoreAssumption DEF S
    <3>2. tables'.functions[n] = tables.functions[n]
      BY <3>1, <2>2, <2>5, <1>1, <1>2, <1>4
    <3>3. EarlyStand
      BY <2>1, <2>5, <1>1 DEF EarlyStand
    <3>4. Meaning(tables.functions[n]) = [of |-> "native", arity |-> ArityOf[n]]
      BY <3>3, <1>7 DEF SInv, StoreIsSettled, Settled
    <3> QED BY <3>2, <3>4, <2>3
  <2> QED BY <2>1, <2>4, <2>5, <1>1
<1>8. StoreIsSettled'
  <2>1. EarlyNames' = EarlyNames
    BY <1>1 DEF EarlyNames
  <2> QED BY <2>1, <1>6, <1>7 DEF StoreIsSettled
<1>9. LayoutsSettled'
  <2>1. \A l \in layouts' : l \in layouts \/ l = Use("load", t)
    BY <1>1 DEF LoadFile, t, S
  <2>2. \A l \in layouts : l.when = "load"
    BY <1>1 DEF SInv, LayoutsSettled
  <2> QED BY <2>1, <2>2 DEF LayoutsSettled, Use
<1> QED BY <1>8, <1>9 DEF SInv

\* The early overrides settle the store from any settled state.
LEMMA EarlySettles ==
  ASSUME StoreIsSettled, tables \in Tables, Coherent(tables), UNCHANGED <<config, loaded>>,
         \A n \in Stored : tables'.functions[n] = EarlyOverrides(tables).functions[n]
  PROVE  StoreIsSettled'
<1>1. /\ EarlyNames' = EarlyNames /\ EarlyNames \in SUBSET Names
      /\ \A n \in Stored : n \in Names /\ Settled(n)' = Settled(n)
  BY StoredNames DEF EarlyNames, Settled, LoadedMeaning
<1>2. ASSUME NEW n \in Stored, n \notin EarlyNames
      PROVE  Meaning(tables'.functions[n]) = Settled(n)
  <2>1. tables'.functions[n] = tables.functions[n]
    BY <1>1, <1>2, EarlyKeeps
  <2> QED BY <2>1, <1>2 DEF StoreIsSettled
<1>3. ASSUME NEW n \in EarlyNames, n \in Stored
      PROVE  Meaning(tables'.functions[n]) = Settled(n)
  <2>1. tables'.functions[n] = Bodies(EarlyNames, "native", "native")[n]
    BY <1>1, <1>3, EarlyKeeps
  <2> QED BY <2>1, <1>1, BodiesMean DEF Settled, Meanings, Code
<1> QED BY <1>1, <1>2, <1>3 DEF StoreIsSettled

\* The compiled kernel means what the loaded files do.
LEMMA InstallAotSettles ==
  ASSUME IInv, SInv, InstallAot
  PROVE  StoreIsSettled'
<1> DEFINE S == KernelNames \ SlowDefuns
           F == Bodies(S, "kernel", "native")
<1>1. /\ ~EarlyStand' /\ UNCHANGED <<config, loaded>>
      /\ loaded = Len(Files) /\ Len(Files) \in Nat
  <2>1. step = IF config.slice THEN 5 ELSE 4
    BY BootSteps DEF IInv, TypeOK, InstallAot
  <2> QED BY <2>1, SysLoaded DEF InstallAot, Advance, EarlyStand
<1>2. S \in SUBSET Names /\ F \in [S -> Fn] /\ \A n \in S : F[n].arity = ArityOf[n]
  <2>1. S \in SUBSET Names
    BY DispatchAssumption DEF KernelNames
  <2> HIDE DEF S
  <2> QED BY <2>1, BodiesType DEF Meanings, Code
<1>3. SUFFICES ASSUME NEW n \in Stored, n \notin EarlyNames
               PROVE  Meaning(tables'.functions[n]) = LoadedMeaning(n)
  BY <1>1 DEF StoreIsSettled, Settled, LoadedMeaning, EarlyNames
<1>4. n \in Names /\ Meaning(tables.functions[n]) = LoadedMeaning(n)
  BY <1>3, StoredNames DEF SInv, StoreIsSettled, Settled
<1>5. n \in S => LoadedMeaning(n) = [of |-> "kernel", arity |-> ArityOf[n]]
  <2>1. n \in S => \E i \in 1 .. loaded : n \in Files[i]
    BY <1>1, DispatchAssumption, LenProperties DEF KernelNames
  <2> QED BY <2>1 DEF LoadedMeaning
<1>6. tables \in Tables /\ Coherent(tables)
  BY DEF IInv, TypeOK, Tables
<1>7. n \in S => Meaning(F[n]) = [of |-> "kernel", arity |-> ArityOf[n]]
  <2> HIDE DEF S
  <2> QED BY <1>2, BodiesMean DEF Meanings, Code
<1>8. tables' = OverrideKernel(tables, F) \/ tables' = tables
  BY DEF InstallAot
<1> HIDE DEF S, F
<1>9. tables'.functions[n] = tables.functions[n] \/ (n \in S /\ tables'.functions[n] = F[n])
  <2>1. \A m \in Names : OverrideKernel(tables, F).functions[m]
                           = IF m \in S THEN F[m] ELSE tables.functions[m]
    BY <1>2, <1>6, OverrideKeeps
  <2> QED BY <2>1, <1>4, <1>8
<1> QED BY <1>4, <1>5, <1>7, <1>9

\* Nothing else binds the functions of the store.
LEMMA OthersUntouched ==
  ASSUME IInv, NEW S \in SUBSET Names, S \cap Stored = {}, NEW F \in [S -> Fn]
  PROVE  /\ \A n \in Stored : Defun(tables, F).functions[n] = tables.functions[n]
         /\ \A n \in Stored : RegisterNative(tables, F).functions[n] = tables.functions[n]
         /\ (\A n \in S : F[n].arity = ArityOf[n]) =>
              \A n \in Stored : OverrideKernel(tables, F).functions[n] = tables.functions[n]
<1>1. tables \in Tables /\ Coherent(tables)
  BY DEF IInv, TypeOK, Tables
<1>2. \A n \in Stored : n \in Names /\ n \notin S
  BY StoredNames
<1>3. \A n \in Names : Defun(tables, F).functions[n] = IF n \in S THEN F[n] ELSE tables.functions[n]
  BY <1>1, DefunKeeps
<1>4. \A n \in Names : RegisterNative(tables, F).functions[n]
                         = IF n \in S THEN F[n] ELSE tables.functions[n]
  BY <1>1, RegisterNativeKeeps
<1>5. (\A n \in S : F[n].arity = ArityOf[n]) =>
        \A n \in Names : OverrideKernel(tables, F).functions[n]
                         = IF n \in S THEN F[n] ELSE tables.functions[n]
  BY <1>1, OverrideKeeps
<1> QED BY <1>2, <1>3, <1>4, <1>5

\* Steps of the running kernel that leave the store's functions alone.
LEMMA RunningSettles ==
  ASSUME IInv, SInv, Running, UNCHANGED <<config, step, loaded, layouts>>,
         \A n \in Stored : tables'.functions[n] = tables.functions[n]
  PROVE  SInv'
<1>1. EarlyStand' => EarlyStand
  BY DEF EarlyStand
<1>2. StoreIsSettled'
  BY <1>1, StoreUntouched DEF SInv
<1>3. LayoutsSettled'
  BY LayoutsKept DEF SInv, IInv, TypeOK
<1> QED BY <1>2, <1>3 DEF SInv

\* Steps of boot after the overrides that leave the store's functions alone.
LEMMA LateBootSettles ==
  ASSUME IInv, SInv, step > 5, ~config.slice, Advance, UNCHANGED <<config, loaded, layouts>>,
         \A n \in Stored : tables'.functions[n] = tables.functions[n]
  PROVE  SInv'
<1>1. step \in Nat \ {0} /\ step > 1 /\ step' = step + 1
  <2>1. step \in Nat \ {0}
    BY DEF IInv, TypeOK
  <2> QED BY <2>1 DEF Advance
<1>2. loaded >= SysFile
  BY <1>1, SysLoaded
<1>3. EarlyStand' => EarlyStand
  BY <1>1, <1>2 DEF EarlyStand
<1>4. StoreIsSettled'
  BY <1>3, StoreUntouched DEF SInv
<1>5. LayoutsSettled'
  BY <1>1, LayoutsKept DEF SInv
<1> QED BY <1>4, <1>5 DEF SInv

\* Uses of the property store, in boot or later, come only while the store is settled.
LEMMA UsesSettle ==
  ASSUME IInv, SInv, Initialises \/ UseProperties
  PROVE  SInv'
<1>1. /\ EarlyStand /\ step > 1 /\ step \in Nat \ {0} /\ (EarlyStand' => EarlyStand)
      /\ UNCHANGED <<tables, config, loaded>>
      /\ layouts' = layouts \/ layouts' = layouts \cup {Use("run", tables)}
      /\ step' = step \/ step' = step + 1
  <2>1. CASE UseProperties
    <3>1. step > 6
      BY <2>1, RunningIsLate DEF UseProperties, IInv, TypeOK
    <3> QED BY <2>1, <3>1, SysLoaded DEF UseProperties, EarlyStand, IInv, TypeOK
  <2>2. CASE Initialises
    <3>1. /\ step > 1 /\ step \in Nat \ {0}
          /\ config.slice => step \in {3, 4}
          /\ ~config.slice => step \in {2, 3, 8}
      BY <2>2, BootSteps DEF Initialises, IInv, TypeOK
    <3> QED BY <2>2, <3>1, SysLoaded DEF Initialises, EarlyStand, Advance
  <2> QED BY <2>1, <2>2
<1>2. LayoutOf(tables) = SettledLayout
  BY <1>1, LayoutIsSettled DEF SInv
<1>3. StoreIsSettled'
  BY <1>1, StoreUntouched DEF SInv
<1>4. LayoutsSettled'
  BY <1>1, <1>2, LayoutsKept DEF SInv
<1> QED BY <1>3, <1>4 DEF SInv

LEMMA StepSettles == IInv /\ SInv /\ [Next]_vars => SInv'
<1> SUFFICES ASSUME IInv, SInv, [Next]_vars PROVE SInv'
  OBVIOUS
<1>0. /\ tables \in Tables /\ Coherent(tables)
      /\ step \in Nat \ {0}
      /\ StoreIsSettled /\ LayoutsSettled
  BY DEF IInv, TypeOK, Tables, SInv
<1>1. CASE LoadFile
  BY <1>1, LoadFileSettles
<1>2. CASE InstallEarly
  <2>1. StoreIsSettled'
    BY <1>0, <1>2, EarlySettles DEF InstallEarly
  <2>2. LayoutsSettled'
    BY <1>0, <1>2, LayoutsKept DEF InstallEarly, Advance
  <2> QED BY <2>1, <2>2 DEF SInv
<1>3. CASE Initialises \/ UseProperties
  BY <1>3, UsesSettle
<1>4. CASE InstallAot
  <2>1. StoreIsSettled'
    BY <1>4, InstallAotSettles
  <2>2. LayoutsSettled'
    BY <1>0, <1>4, LayoutsKept DEF InstallAot, Advance
  <2> QED BY <2>1, <2>2 DEF SInv
<1>5. CASE HotOverrides
  <2> DEFINE t == EarlyOverrides(tables)
             F == Bodies(HotNames, "native", "native")
  <2>1. t \in Tables /\ Coherent(t)
    BY <1>0, EarlyKeeps
  <2>2. HotNames \in SUBSET Names /\ HotNames \cap Stored = {}
    BY DispatchAssumption, StoreAssumption DEF Stored
  <2>3. F \in [HotNames -> Fn] /\ \A n \in HotNames : F[n].arity = ArityOf[n]
    BY <2>2, BodiesType DEF Meanings, Code
  <2>4. tables' = OverrideKernel(t, F)
    BY <1>5 DEF HotOverrides
  <2> HIDE DEF t, F
  <2>5. \A n \in Names : tables'.functions[n] = IF n \in HotNames THEN F[n] ELSE t.functions[n]
    BY <2>1, <2>2, <2>3, <2>4, OverrideKeeps
  <2>6. \A n \in Stored : tables'.functions[n] = EarlyOverrides(tables).functions[n]
    BY <2>2, <2>5, StoredNames DEF t
  <2>7. StoreIsSettled'
    BY <1>0, <1>5, <2>6, EarlySettles DEF HotOverrides
  <2>8. LayoutsSettled'
    BY <1>0, <1>5, LayoutsKept DEF HotOverrides, Advance
  <2> QED BY <2>7, <2>8 DEF SInv
<1>6. CASE InstallJit
  <2> DEFINE L == Bodies({JitLeaf}, "kernel", "jit")
             D == Bodies({JitDemo}, "demo", "lambda")
             u == RegisterAotDirect(tables, L)
  <2>1. u.functions = tables.functions
    BY <1>0 DEF RegisterAotDirect, Tables
  <2>2. \A n \in Stored : Defun(u, D).functions[n] = tables.functions[n]
    <3>1. \A n \in Stored : n \in Names /\ n # JitDemo
      BY StoredNames, StoreAssumption DEF Stored
    <3> QED BY <2>1, <3>1 DEF Defun, Over, Bodies
  <2>3. \A n \in Stored : tables'.functions[n] = tables.functions[n]
    <3>1. PICK demo \in {{}, {JitDemo}} :
            tables' = IF config.jit
                      THEN RegisterAotDirect(Defun(u, D), Bodies(demo, "demo", "jit"))
                      ELSE tables
      BY <1>6 DEF InstallJit
    <3>2. RegisterAotDirect(Defun(u, D), Bodies(demo, "demo", "jit")).functions
            = Defun(u, D).functions
      BY DEF RegisterAotDirect, Defun
    <3> QED BY <3>1, <3>2, <2>2
  <2>4. step > 5 /\ ~config.slice
    BY <1>0, <1>6, BootSteps DEF InstallJit, IInv, TypeOK
  <2> QED BY <1>6, <2>3, <2>4, LateBootSettles DEF InstallJit
<1>7. CASE InstallCache
  <2>1. CacheNames \in SUBSET Names /\ CacheNames \cap Stored = {}
    BY DispatchAssumption, StoreAssumption DEF Stored
  <2>2. /\ Bodies(CacheNames, "cached", "native") \in [CacheNames -> Fn]
        /\ \A n \in CacheNames : Bodies(CacheNames, "cached", "native")[n].arity = ArityOf[n]
    BY <2>1, BodiesType DEF Meanings, Code
  <2>3. \A n \in Stored : tables'.functions[n] = tables.functions[n]
    BY <1>7, <2>1, <2>2, OthersUntouched DEF InstallCache
  <2>4. step > 5 /\ ~config.slice
    BY <1>0, <1>7, BootSteps DEF InstallCache, IInv, TypeOK
  <2> QED BY <1>7, <2>3, <2>4, LateBootSettles DEF InstallCache
<1>8. CASE Rebind
  <2>1. PICK n \in UserNames, k \in 0 .. MaxArgs :
          \/ tables' = Defun(tables, [m \in {n} |->
                               [of |-> "user", arity |-> k, code |-> "lambda"]])
          \/ tables' = RegisterNative(tables, [m \in {n} |->
                               [of |-> "host", arity |-> k, code |-> "native"]])
    BY <1>8 DEF Rebind
  <2>2. {n} \in SUBSET Names /\ {n} \cap Stored = {} /\ k \in Nat
    BY DispatchAssumption, StoreAssumption DEF Stored
  <2>3. /\ [m \in {n} |-> [of |-> "user", arity |-> k, code |-> "lambda"]] \in [{n} -> Fn]
        /\ [m \in {n} |-> [of |-> "host", arity |-> k, code |-> "native"]] \in [{n} -> Fn]
    BY <2>2 DEF Fn, Meanings, Code
  <2>4. \A m \in Stored : tables'.functions[m] = tables.functions[m]
    BY <2>1, <2>2, <2>3, OthersUntouched
  <2> QED BY <1>8, <2>4, RunningSettles DEF Rebind
<1>9. CASE LoadSource \/ InstallOverlay
  <2>1. Covered \in SUBSET Names /\ Covered \cap Stored = {}
    BY DispatchAssumption, StoreAssumption DEF Stored
  <2>2. /\ Bodies(Covered, "source", "lambda") \in [Covered -> Fn]
        /\ Bodies(Covered, "source", "native") \in [Covered -> Fn]
        /\ \A n \in Covered : Bodies(Covered, "source", "native")[n].arity = ArityOf[n]
    BY <2>1, BodiesType DEF Meanings, Code
  <2>3. \/ tables' = Defun(tables, Bodies(Covered, "source", "lambda"))
        \/ tables' = OverrideKernel(tables, Bodies(Covered, "source", "native"))
    BY <1>9 DEF LoadSource, InstallOverlay
  <2>4. \A n \in Stored : tables'.functions[n] = tables.functions[n]
    BY <2>1, <2>2, <2>3, OthersUntouched
  <2> QED BY <1>9, <2>4, RunningSettles DEF LoadSource, InstallOverlay
<1>10. CASE Call \/ CompiledCall \/ SealedCall
  BY <1>10, RunningSettles DEF Call, CompiledCall, SealedCall
<1>11. CASE UNCHANGED vars
  <2>1. EarlyStand' => EarlyStand
    BY <1>11 DEF vars, EarlyStand
  <2>2. StoreIsSettled' /\ LayoutsSettled'
    BY <1>0, <1>11, <2>1, StoreUntouched, LayoutsKept DEF vars
  <2> QED BY <2>2 DEF SInv
<1> QED BY <1>1, <1>2, <1>3, <1>4, <1>5, <1>6, <1>7, <1>8, <1>9, <1>10, <1>11 DEF Next

\* Every use of the property store once the kernel's source is loaded, from the first
\* of boot's initialisers to the last of a program, goes by the same hash, put and get,
\* however boot is configured.  What the declarations of an S42 slice put while they
\* load is excepted, as in the property.
THEOREM StoreIsOne == Spec => []PropertiesFindable
<1>1. Init => SInv
  <2> SUFFICES ASSUME Init PROVE SInv
    OBVIOUS
  <2>1. ~EarlyStand
    BY DispatchAssumption, LenProperties DEF Init, EarlyStand
  <2>2. \A n \in Stored : Meaning(tables.functions[n]) = LoadedMeaning(n)
    <3> SUFFICES ASSUME NEW n \in Stored
                 PROVE  Meaning(tables.functions[n]) = LoadedMeaning(n)
      OBVIOUS
    <3>1. n \in Names /\ ~\E i \in 1 .. loaded : n \in Files[i]
      BY StoredNames DEF Init
    <3>2. CASE n \in Primitives
      <4>1. tables.functions[n] = Bodies(Primitives, "native", "native")[n]
        BY <3>1, <3>2 DEF Init, Over, Bodies
      <4>2. Primitives \in SUBSET Names
        BY DispatchAssumption
      <4>3. Meaning(tables.functions[n]) = [of |-> "native", arity |-> ArityOf[n]]
        BY <3>2, <4>1, <4>2, BodiesMean DEF Meanings, Code
      <4> QED BY <3>1, <3>2, <4>3 DEF LoadedMeaning
    <3>3. CASE n \notin Primitives
      BY <3>1, <3>3 DEF Init, Over, Bodies, Meaning, LoadedMeaning
    <3> QED BY <3>2, <3>3
  <2>3. StoreIsSettled
    BY <2>1, <2>2 DEF StoreIsSettled, Settled
  <2> QED BY <2>3 DEF SInv, LayoutsSettled, Init
<1>2. IInv /\ SInv /\ [Next]_vars => SInv'
  BY StepSettles
<1>3. SInv => PropertiesFindable
  BY DEF SInv, LayoutsSettled, PropertiesFindable
<1> QED BY <1>1, <1>2, <1>3, Invariance, PTL DEF Spec

(* ---- the overrides ------------------------------------------------------------------ *)

\* The name n is not back on the kernel's own body, and an override of it that
\* stands in its cell stands in its slot too.
Stands(t, n) ==
  /\ t.functions[n] # Undefined /\ t.functions[n].of # "kernel"
  /\ t.functions[n].code = "native" /\ t.functions[n].of \in {"native", "cached"}
       => t.direct[n] # NoSlot

\* From the step that installs them on, the overrides stand.
OverridesKept ==
  /\ step > (IF config.slice THEN 6 ELSE 5) =>
       \A n \in {HashName} \cup HotNames : Stands(tables, n)
  /\ step > 7 /\ config.cache => \A n \in CacheNames : Stands(tables, n)

\* Dual registration of anything but the kernel's functions makes its names stand
\* and leaves the others alone.
LEMMA OverrideStands ==
  ASSUME NEW t \in Tables, NEW S \in SUBSET Names, NEW F \in [S -> Fn],
         \A n \in S : F[n].of # "kernel"
  PROVE  /\ \A n \in S : Stands(OverrideKernel(t, F), n)
         /\ \A n \in Names : Stands(t, n) => Stands(OverrideKernel(t, F), n)
<1> DEFINE r == OverrideKernel(t, F)
<1>1. \A n \in Names : /\ r.functions[n] = IF n \in S THEN F[n] ELSE t.functions[n]
                       /\ r.direct[n] = IF n \in S THEN F[n] ELSE t.direct[n]
  BY DEF OverrideKernel, RegisterNative, RegisterAotDirect, Over, ClearedSlots, Tables, Fns, Slots
<1>2. \A n \in S : n \in Names /\ F[n] # Undefined /\ F[n] # NoSlot
  BY Marks
<1> HIDE DEF r
<1>3. \A n \in S : Stands(r, n)
  BY <1>1, <1>2 DEF Stands
<1>4. \A n \in Names : n \notin S /\ Stands(t, n) => Stands(r, n)
  BY <1>1 DEF Stands
<1> QED BY <1>3, <1>4 DEF r

\* defun and register_native of a program's own functions are no overrides, and no
\* return to the kernel either.
LEMMA RedefinitionStands ==
  ASSUME NEW t \in Tables, NEW S \in SUBSET Names, NEW F \in [S -> Fn],
         \A n \in S : F[n].of \notin {"kernel", "native", "cached"},
         NEW n \in Names, Stands(t, n)
  PROVE  Stands(Defun(t, F), n) /\ Stands(RegisterNative(t, F), n)
<1>1. \A r \in {Defun(t, F), RegisterNative(t, F)} :
        /\ r.functions[n] = IF n \in S THEN F[n] ELSE t.functions[n]
        /\ n \notin S => r.direct[n] = t.direct[n]
  BY DEF Defun, RegisterNative, Over, ClearedSlots, Tables, Fns, Slots
<1>2. n \in S => F[n] # Undefined
  BY Marks
<1>3. \A r \in {Defun(t, F), RegisterNative(t, F)} : Stands(r, n)
  BY <1>1, <1>2 DEF Stands
<1> QED BY <1>3

\* Filling slots takes no override away.
LEMMA SlotsStand ==
  ASSUME NEW t \in Tables, NEW S \in SUBSET Names, NEW F \in [S -> Fn],
         NEW n \in Names, Stands(t, n)
  PROVE  Stands(RegisterAotDirect(t, F), n)
<1> DEFINE r == RegisterAotDirect(t, F)
<1>1. /\ r.functions = t.functions
      /\ r.direct[n] = IF n \in S THEN F[n] ELSE t.direct[n]
  BY DEF RegisterAotDirect, Over, Tables, Slots
<1>2. n \in S => F[n] # NoSlot
  BY Marks
<1> HIDE DEF r
<1>3. Stands(r, n)
  BY <1>1, <1>2 DEF Stands
<1> QED BY <1>3 DEF r

\* Late steps of the vendored boot, and the running kernel, keep the overrides if every
\* name that stands goes on standing.
LEMMA LateKeeps ==
  ASSUME OverridesKept, UNCHANGED config, step \in Nat \ {0},
         step' = step \/ (step' = step + 1 /\ step > 5 /\ step # 7),
         \A n \in Names : Stands(tables, n) => Stands(tables', n),
         ~config.slice \/ step' = step
  PROVE  OverridesKept'
<1>1. {HashName} \cup HotNames \subseteq Names /\ CacheNames \subseteq Names
  BY DispatchAssumption
<1> QED BY <1>1 DEF OverridesKept

\* A step of boot that leaves the overrides still to be installed.
LEMMA EarlyBootKeeps ==
  ASSUME config \in Configs, UNCHANGED config, step' \in Nat,
         step' <= (IF config.slice THEN 6 ELSE 5)
  PROVE  OverridesKept'
BY DEF OverridesKept, Configs

LEMMA StepKeepsOverrides == IInv /\ OverridesKept /\ [Next]_vars => OverridesKept'
<1> SUFFICES ASSUME IInv, OverridesKept, [Next]_vars PROVE OverridesKept'
  OBVIOUS
<1>0. /\ tables \in Tables /\ Coherent(tables) /\ config \in Configs
      /\ step \in Nat \ {0}
  BY DEF IInv, TypeOK, Tables
<1>1. CASE LoadFile
  <2>1. step = 1
    BY <1>0, <1>1, BootSteps DEF LoadFile
  <2>2. step' \in Nat /\ step' <= 2 /\ UNCHANGED config
    BY <1>1, <2>1 DEF LoadFile, Advance
  <2> QED BY <1>0, <2>2, EarlyBootKeeps
<1>2. CASE InstallEarly
  <2>1. config.slice /\ step = 2
    BY <1>0, <1>2, BootSteps DEF InstallEarly
  <2>2. step' = 3 /\ UNCHANGED config
    BY <1>2, <2>1 DEF InstallEarly, Advance
  <2> QED BY <1>0, <2>1, <2>2, EarlyBootKeeps
<1>3. CASE Initialises
  <2>1. /\ step \in {2, 3, 4} \/ (step = 8 /\ ~config.slice)
        /\ config.slice => step <= 4
        /\ ~config.slice => step <= 3 \/ step = 8
    BY <1>0, <1>3, BootSteps DEF Initialises
  <2>2. step' = step + 1 /\ UNCHANGED <<tables, config>>
    BY <1>3 DEF Initialises, Advance
  <2>3. CASE step = 8
    BY <1>0, <2>1, <2>2, <2>3, LateKeeps
  <2>4. CASE step # 8
    <3>1. step' \in Nat /\ step' <= (IF config.slice THEN 6 ELSE 5)
      BY <2>1, <2>2, <2>4
    <3> QED BY <1>0, <2>2, <3>1, EarlyBootKeeps
  <2> QED BY <2>3, <2>4
<1>4. CASE InstallAot
  <2>1. step = IF config.slice THEN 5 ELSE 4
    BY <1>0, <1>4, BootSteps DEF InstallAot
  <2>2. /\ step' \in Nat /\ step' <= (IF config.slice THEN 6 ELSE 5) /\ UNCHANGED config
    BY <1>4, <2>1 DEF InstallAot, Advance
  <2> QED BY <1>0, <2>2, EarlyBootKeeps
<1>5. CASE HotOverrides
  <2> DEFINE t == EarlyOverrides(tables)
             E == Bodies(EarlyNames, "native", "native")
             F == Bodies(HotNames, "native", "native")
  <2>1. t \in Tables
    BY <1>0, EarlyKeeps
  <2>2. HotNames \in SUBSET Names /\ EarlyNames \in SUBSET Names /\ HashName \in EarlyNames
    BY DispatchAssumption, StoredNames
  <2>3. /\ E \in [EarlyNames -> Fn] /\ \A n \in EarlyNames : E[n].of # "kernel"
        /\ F \in [HotNames -> Fn] /\ \A n \in HotNames : F[n].of # "kernel"
    BY <2>2, BodiesType DEF Meanings, Code
  <2>4. t = OverrideKernel(tables, E) /\ tables' = OverrideKernel(t, F)
    BY <1>5 DEF HotOverrides, EarlyOverrides
  <2> HIDE DEF t, E, F
  <2>5. Stands(t, HashName)
    BY <1>0, <2>2, <2>3, <2>4, OverrideStands
  <2>6. \A n \in {HashName} \cup HotNames : Stands(tables', n)
    BY <2>1, <2>2, <2>3, <2>4, <2>5, OverrideStands
  <2>7. step \in {5, 6} /\ step' = step + 1 /\ UNCHANGED config
    BY <1>0, <1>5, BootSteps DEF HotOverrides, Advance
  <2> QED BY <2>6, <2>7 DEF OverridesKept
<1>6. CASE InstallJit
  <2>1. step = 6 /\ ~config.slice /\ step' = 7 /\ UNCHANGED config
    BY <1>0, <1>6, BootSteps DEF InstallJit, Advance
  <2>2. PICK demo \in {{}, {JitDemo}} :
          tables' = IF config.jit
                    THEN RegisterAotDirect(
                           Defun(RegisterAotDirect(tables, Bodies({JitLeaf}, "kernel", "jit")),
                                 Bodies({JitDemo}, "demo", "lambda")),
                           Bodies(demo, "demo", "jit"))
                    ELSE tables
    BY <1>6 DEF InstallJit
  <2> DEFINE L == Bodies({JitLeaf}, "kernel", "jit")
             D == Bodies({JitDemo}, "demo", "lambda")
             J == Bodies(demo, "demo", "jit")
             t1 == RegisterAotDirect(tables, L)
             t2 == Defun(t1, D)
             t3 == RegisterAotDirect(t2, J)
  <2>3. /\ {JitLeaf} \in SUBSET Names /\ {JitDemo} \in SUBSET Names /\ demo \in SUBSET Names
    BY DispatchAssumption DEF KernelNames
  <2>4. /\ L \in [{JitLeaf} -> Fn] /\ J \in [demo -> Fn]
        /\ D \in [{JitDemo} -> Fn] /\ \A n \in {JitDemo} : D[n].of = "demo"
    BY <2>3, BodiesType DEF Meanings, Code
  <2>5. tables' \in {tables, t3}
    BY <2>2
  <2> HIDE DEF L, D, J
  <2>6. t1 \in Tables
    BY <1>0, <2>3, <2>4 DEF RegisterAotDirect, Over, Tables, Fns, Slots
  <2>7. t2 \in Tables
    <3> HIDE DEF t1
    <3> QED BY <2>3, <2>4, <2>6 DEF Defun, Over, ClearedSlots, Tables, Fns, Slots
  <2>8. \A n \in Names : Stands(tables, n) => Stands(t3, n)
    <3> SUFFICES ASSUME NEW n \in Names, Stands(tables, n) PROVE Stands(t3, n)
      OBVIOUS
    <3>1. Stands(t1, n)
      BY <1>0, <2>3, <2>4, SlotsStand
    <3> HIDE DEF t1
    <3>2. Stands(t2, n)
      BY <2>3, <2>4, <2>6, <3>1, RedefinitionStands
    <3> HIDE DEF t2
    <3> QED BY <2>3, <2>4, <2>7, <3>2, SlotsStand
  <2> HIDE DEF t3
  <2>9. \A n \in Names : Stands(tables, n) => Stands(tables', n)
    BY <2>5, <2>8
  <2> QED BY <1>0, <2>1, <2>9, LateKeeps
<1>7. CASE InstallCache
  <2> DEFINE F == Bodies(CacheNames, "cached", "native")
  <2>1. CacheNames \in SUBSET Names /\ {HashName} \cup HotNames \subseteq Names
    BY DispatchAssumption
  <2>2. F \in [CacheNames -> Fn] /\ \A n \in CacheNames : F[n].of # "kernel"
    BY <2>1, BodiesType DEF Meanings, Code
  <2>3. tables' = IF config.cache THEN OverrideKernel(tables, F) ELSE tables
    BY <1>7 DEF InstallCache
  <2> HIDE DEF F
  <2>4. /\ config.cache => \A n \in CacheNames : Stands(tables', n)
        /\ \A n \in Names : Stands(tables, n) => Stands(tables', n)
    BY <1>0, <2>1, <2>2, <2>3, OverrideStands
  <2>5. step = 7 /\ ~config.slice /\ step' = 8 /\ UNCHANGED config
    BY <1>0, <1>7, BootSteps DEF InstallCache, Advance
  <2> QED BY <2>1, <2>4, <2>5 DEF OverridesKept
<1>8. CASE Rebind
  <2>1. PICK n \in UserNames, k \in 0 .. MaxArgs :
          \/ tables' = Defun(tables, [m \in {n} |->
                               [of |-> "user", arity |-> k, code |-> "lambda"]])
          \/ tables' = RegisterNative(tables, [m \in {n} |->
                               [of |-> "host", arity |-> k, code |-> "native"]])
    BY <1>8 DEF Rebind
  <2> DEFINE U == [m \in {n} |-> [of |-> "user", arity |-> k, code |-> "lambda"]]
             H == [m \in {n} |-> [of |-> "host", arity |-> k, code |-> "native"]]
  <2>2. {n} \in SUBSET Names /\ k \in Nat
    BY DispatchAssumption
  <2>3. /\ U \in [{n} -> Fn] /\ \A m \in {n} : U[m].of = "user"
        /\ H \in [{n} -> Fn] /\ \A m \in {n} : H[m].of = "host"
    BY <2>2 DEF Fn, Meanings, Code
  <2>4. tables' = Defun(tables, U) \/ tables' = RegisterNative(tables, H)
    BY <2>1
  <2> HIDE DEF U, H
  <2>5. \A m \in Names : Stands(tables, m) => Stands(tables', m)
    BY <1>0, <2>2, <2>3, <2>4, RedefinitionStands
  <2> QED BY <1>0, <1>8, <2>5, LateKeeps DEF Rebind
<1>9. CASE LoadSource \/ InstallOverlay
  <2> DEFINE L == Bodies(Covered, "source", "lambda")
             N == Bodies(Covered, "source", "native")
  <2>1. Covered \in SUBSET Names
    BY DispatchAssumption
  <2>2. /\ L \in [Covered -> Fn] /\ \A n \in Covered : L[n].of = "source"
        /\ N \in [Covered -> Fn] /\ \A n \in Covered : N[n].of = "source"
    BY <2>1, BodiesType DEF Meanings, Code
  <2>3. tables' = Defun(tables, L) \/ tables' = OverrideKernel(tables, N)
    BY <1>9 DEF LoadSource, InstallOverlay
  <2> HIDE DEF L, N
  <2>4. \A n \in Names : Stands(tables, n) => Stands(Defun(tables, L), n)
    BY <1>0, <2>1, <2>2, RedefinitionStands
  <2>5. \A n \in Names : Stands(tables, n) => Stands(OverrideKernel(tables, N), n)
    BY <1>0, <2>1, <2>2, OverrideStands
  <2>6. \A n \in Names : Stands(tables, n) => Stands(tables', n)
    BY <2>3, <2>4, <2>5
  <2> QED BY <1>0, <1>9, <2>6, LateKeeps DEF LoadSource, InstallOverlay
<1>10. CASE UseProperties \/ Call \/ CompiledCall \/ SealedCall
  BY <1>0, <1>10, LateKeeps DEF UseProperties, Call, CompiledCall, SealedCall
<1>11. CASE UNCHANGED vars
  BY <1>0, <1>11, LateKeeps DEF vars
<1> QED BY <1>1, <1>2, <1>3, <1>4, <1>5, <1>6, <1>7, <1>8, <1>9, <1>10, <1>11 DEF Next

\* However boot is configured and whatever is defined later, no installer covers a
\* native override or a wrapper of the cache, in either table.
THEOREM OverridesPrevail == Spec => []OverridesStand
<1>1. Init => OverridesKept
  BY DEF Init, OverridesKept
<1>2. IInv /\ OverridesKept /\ [Next]_vars => OverridesKept'
  BY StepKeepsOverrides
<1>3. IInv /\ OverridesKept => OverridesStand
  <2> SUFFICES ASSUME IInv, OverridesKept, Running PROVE OverridesStand
    BY DEF OverridesStand
  <2>1. step \in Nat /\ config \in Configs
    BY DEF IInv, TypeOK
  <2>2. config.slice => step > 6
    BY <2>1, RunningIsLate
  <2>3. ~config.slice => step > 8
    BY <2>1 DEF Running, Boot
  <2>4. config.cache => ~config.slice
    BY <2>1 DEF Configs
  <2>5. \A n \in {HashName} \cup HotNames \cup (IF config.cache THEN CacheNames ELSE {}) :
          Stands(tables, n)
    BY <2>1, <2>2, <2>3, <2>4 DEF OverridesKept
  <2> QED BY <2>5 DEF Stands, OverridesStand
<1> QED BY <1>1, <1>2, <1>3, Invariance, PTL DEF Spec
=============================================================================
