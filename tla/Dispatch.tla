------------------------------ MODULE Dispatch ------------------------------
(***************************************************************************)
(* Calls by name in shen-rust: the function cells of env.rs, the table of  *)
(* raw fn pointers beside them (aot_direct) that compiled code asks first, *)
(* and everybody who writes them: the boot sequence with its installers    *)
(* (interp/boot.rs, primitives.rs, jit/mod.rs, tc_cache.rs), defun, the    *)
(* host's register_native and overlays.                                    *)
(*                                                                         *)
(* A function is a record: "of" names what it computes, whichever engine   *)
(* runs it ("code"); the kernel's own body is the same when tree-walked,   *)
(* compiled to Rust or jitted.                                             *)
(***************************************************************************)
EXTENDS Naturals, Sequences

CONSTANTS
  Names,         \* the function names of the model
  ArityOf,       \* Names -> Nat: their arity in the kernel or the loaded source
  MaxArgs,       \* bound: arguments of an interpreted call
  Files,         \* KERNEL_FILES: the names each file defines, in boot order
  SysFile,       \* position of sys.kl, the file that defines hash
  DeclarationsFile, \* position of declarations.kl, which may fill the property store
  SlowDefuns,    \* KERNEL_SLOW_DEFUNS, which klcompile leaves tree-walked
  Primitives,    \* names register_core binds before any file
  HashName,      \* hash
  StoreNames,    \* put, get, unput
  HotNames,      \* the other names of register_hot_overrides
  CacheNames,    \* load and shen.typecheck
  JitLeaf,       \* shen.length-h
  JitDemo,       \* shen-w1-sumto
  Covered,       \* names of the overlay module
  UserNames,     \* names that programs and the host rebind
  SealExclude,   \* SEAL_EXCLUDE
  CallsInFile,   \* pairs <<f, g>>: f calls g, both defined in one kernel file
  Undefined, NoSlot

Code == {"lambda", "native", "jit"}
Meanings == {"kernel", "native", "cached", "demo", "source", "user", "host"}
Fn == [of : Meanings, arity : Nat, code : Code]
KernelNames == UNION {Files[i] : i \in DOMAIN Files}

ASSUME DispatchAssumption ==
  /\ MaxArgs \in Nat /\ ArityOf \in [Names -> 0 .. MaxArgs]
  /\ Files \in Seq(SUBSET Names) /\ SysFile \in DOMAIN Files
  /\ DeclarationsFile \in DOMAIN Files
  /\ Primitives \subseteq Names /\ HashName \in Names /\ StoreNames \subseteq Names
  /\ HotNames \subseteq Names /\ CacheNames \subseteq Names
  /\ JitLeaf \in KernelNames /\ JitDemo \in Names \ KernelNames
  /\ Covered \subseteq Names /\ UserNames \subseteq Names
  /\ CallsInFile \subseteq Names \X Names
  /\ JitLeaf \notin {HashName} \cup StoreNames \cup HotNames
  /\ Undefined \notin Fn \cup [of : Meanings, arity : Nat] /\ NoSlot \notin Fn

\* No file after sys.kl defines hash again, and nobody else binds the functions of
\* the property store: the kernel refuses to redefine its system functions.
ASSUME StoreAssumption ==
  /\ \A i \in DOMAIN Files : HashName \in Files[i] => i <= SysFile
  /\ ({HashName} \cup StoreNames) \cap
       (HotNames \cup CacheNames \cup Covered \cup UserNames \cup {JitDemo}) = {}

VARIABLES
  tables,    \* [functions: env.functions, direct: Interp::aot_direct]
  config,    \* what the environment asks of this boot
  step,      \* position in the boot sequence; past its end the kernel runs
  loaded,    \* kernel files loaded so far
  layouts,   \* history: when the store was used, by which hash, put and get
  outcome,   \* what the last call by name did
  sealed     \* what the last sealed call ran, and what its name was bound to

vars == <<tables, config, step, loaded, layouts, outcome, sealed>>

(* ---- the two tables --------------------------------------------------- *)

Over(F, g) == [n \in Names |-> IF n \in DOMAIN F THEN F[n] ELSE g[n]]

\* Functions of the names S, all computing `of` by `code`.
Bodies(S, of, code) == [n \in S |-> [of |-> of, arity |-> ArityOf[n], code |-> code]]

ClearedSlotsToCells(F, d) == [n \in Names |-> IF n \in DOMAIN F THEN Undefined ELSE d[n]] \* mutant
ClearedSlots(F, d) == [n \in Names |-> IF n \in DOMAIN F THEN NoSlot ELSE d[n]]

\* defun and register_native bind the cells of F and clear their slots.
DefunKeepsSlot(t, F) == [t EXCEPT !.functions = Over(F, t.functions)]    \* mutant
Defun(t, F) ==
  [functions |-> Over(F, t.functions), direct |-> ClearedSlots(F, t.direct)]

RegisterNativeKeepsSlot(t, F) ==                                         \* mutant
  [t EXCEPT !.functions = Over(F, t.functions)]
RegisterNative(t, F) ==
  [functions |-> Over(F, t.functions), direct |-> ClearedSlots(F, t.direct)]

RegisterAotDirect(t, F) == [t EXCEPT !.direct = Over(F, t.direct)]

\* override_kernel, the AOT installers and the cache: first one, then the other.
OverrideKernel(t, F) == RegisterAotDirect(RegisterNative(t, F), F)

(* ---- calls --------------------------------------------------------------- *)

Meaning(f) == IF f = Undefined THEN Undefined ELSE [of |-> f.of, arity |-> f.arity]
Table == [n \in Names |-> Meaning(tables.functions[n])]

Abstract == INSTANCE FunctionTable WITH table <- Table
ImplementsTable == Abstract!Spec

\* The interpreter, and apply_named: look the cell up, then apply.
ApplyNamed(n, k) == Abstract!Applied(Table[n], k)

\* A slot is called as it is: nobody compares the arguments with the arity.
CallSlot(f, k) ==
  IF k = f.arity THEN [does |-> "runs", of |-> f.of, args |-> k] ELSE [does |-> "fails"]

ApplyDirect(n, k) ==
  IF tables.direct[n] # NoSlot THEN CallSlot(tables.direct[n], k) ELSE ApplyNamed(n, k)

(* ---- boot ------------------------------------------------------------------ *)

\* A slice is one shaken kernel source (boot_from_kl_source).  S4x is the
\* lineage whose property store the native put and get implement; the kernels of
\* its S42 refresh have no shen.initialise, their declarations fill the store
\* while the source is evaluated.
Configs ==
  {c \in [slice : BOOLEAN, s4x : BOOLEAN, fills : BOOLEAN,
          aot : BOOLEAN, jit : BOOLEAN, cache : BOOLEAN] :
     /\ c.s4x => c.slice
     /\ c.fills => c.s4x
     /\ c.slice => ~c.jit /\ ~c.cache}

BootOverridesFirst(c) ==                                                 \* mutant
  IF c.slice THEN <<"files", "early", "initialise", "metadata", "overrides", "aot">>
  ELSE <<"files", "initialise", "metadata", "overrides", "aot", "jit", "cache", "post">>
BootLateHash(c) ==                                                       \* mutant
  IF c.slice THEN <<"files", "initialise", "metadata", "aot", "overrides">>
  ELSE <<"files", "initialise", "metadata", "aot", "overrides", "jit", "cache", "post">>
Boot(c) ==
  IF c.slice THEN <<"files", "early", "initialise", "metadata", "aot", "overrides">>
  ELSE <<"files", "initialise", "metadata", "aot", "overrides", "jit", "cache", "post">>

At(s) == step <= Len(Boot(config)) /\ Boot(config)[step] = s
Running == step > Len(Boot(config))
Advance == step' = step + 1

Init ==
  /\ tables = [functions |-> Over(Bodies(Primitives, "native", "native"),
                                  [n \in Names |-> Undefined]),
               direct |-> [n \in Names |-> NoSlot]]
  /\ config \in Configs
  /\ step = 1 /\ loaded = 0
  /\ layouts = {}
  /\ outcome = [does |-> "nothing"]
  /\ sealed = [ran |-> "nothing", bound |-> "nothing"]

\* register_early_overrides.
EarlyNames == {HashName} \cup (IF config.s4x THEN StoreNames ELSE {})
EarlyOverrides(t) == OverrideKernel(t, Bodies(EarlyNames, "native", "native"))

\* The functions that put and find a property, by bucket and layout.
LayoutOf(t) == [n \in {HashName} \cup StoreNames |-> Meaning(t.functions[n])]
Use(when, t) == [when |-> when, by |-> LayoutOf(t)]

\* A file's forms: its defuns, then what declarations.kl puts by the functions
\* bound so far.  The vendored kernel's sys.kl defines hash over the native one.
LoadFile ==
  /\ At("files") /\ loaded < Len(Files)
  /\ loaded' = loaded + 1
  /\ LET t == Defun(tables, Bodies(Files[loaded'], "kernel", "lambda"))
     IN /\ tables' = IF ~config.slice /\ loaded' = SysFile THEN EarlyOverrides(t) ELSE t
        /\ layouts' = layouts \cup
             (IF config.fills /\ loaded' = DeclarationsFile THEN {Use("load", t)} ELSE {})
  /\ IF loaded' = Len(Files) THEN Advance ELSE UNCHANGED step
  /\ UNCHANGED <<config, outcome, sealed>>

InstallEarly ==
  /\ At("early")
  /\ tables' = EarlyOverrides(tables)
  /\ Advance /\ UNCHANGED <<config, loaded, layouts, outcome, sealed>>

\* shen.initialise if there is one, the metadata of the primitives and the later
\* initialisers put properties.
Initialises ==
  /\ At("initialise") \/ At("metadata") \/ At("post")
  /\ layouts' = layouts \cup
       (IF At("initialise") /\ config.fills THEN {} ELSE {Use("run", tables)})
  /\ Advance /\ UNCHANGED <<tables, config, loaded, outcome, sealed>>

\* install_all, unless SHEN_RUST_NO_AOT or a slice without an installer.
InstallAot ==
  /\ At("aot")
  /\ tables' = IF config.aot
               THEN OverrideKernel(tables, Bodies(KernelNames \ SlowDefuns, "kernel", "native"))
               ELSE tables
  /\ Advance /\ UNCHANGED <<config, loaded, layouts, outcome, sealed>>

HotOverrides ==
  /\ At("overrides")
  /\ tables' = OverrideKernel(EarlyOverrides(tables), Bodies(HotNames, "native", "native"))
  /\ Advance /\ UNCHANGED <<config, loaded, layouts, outcome, sealed>>

\* install_jit fills slots alone: the jitted code computes what the cell does.
\* The demo function is defined first; its compilation may bail out.
InstallJit ==
  /\ At("jit")
  /\ \E demo \in {{}, {JitDemo}} :
       tables' = IF config.jit
                 THEN RegisterAotDirect(
                        Defun(RegisterAotDirect(tables, Bodies({JitLeaf}, "kernel", "jit")),
                              Bodies({JitDemo}, "demo", "lambda")),
                        Bodies(demo, "demo", "jit"))
                 ELSE tables
  /\ Advance /\ UNCHANGED <<config, loaded, layouts, outcome, sealed>>

InstallCache ==
  /\ At("cache")
  /\ tables' = IF config.cache
               THEN OverrideKernel(tables, Bodies(CacheNames, "cached", "native"))
               ELSE tables
  /\ Advance /\ UNCHANGED <<config, loaded, layouts, outcome, sealed>>

(* ---- the running kernel ------------------------------------------------------ *)

UseProperties ==
  /\ Running
  /\ layouts' = layouts \cup {Use("run", tables)}
  /\ UNCHANGED <<tables, config, step, loaded, outcome, sealed>>

\* do_defun of a program, and register_native of a host.
Rebind ==
  /\ Running
  /\ \E n \in UserNames, k \in 0 .. MaxArgs :
       \/ tables' = Defun(tables, [m \in {n} |->
                            [of |-> "user", arity |-> k, code |-> "lambda"]])
       \/ tables' = RegisterNative(tables, [m \in {n} |->
                            [of |-> "host", arity |-> k, code |-> "native"]])
  /\ UNCHANGED <<config, step, loaded, layouts, outcome, sealed>>

\* The load of the source the overlay was generated from.
LoadSource ==
  /\ Running
  /\ tables' = Defun(tables, Bodies(Covered, "source", "lambda"))
  /\ UNCHANGED <<config, step, loaded, layouts, outcome, sealed>>

\* Every compiled name must be bound, with the arity of the generated code.
OverlayMatchesAnyArity ==                                                \* mutant
  \A n \in Covered : tables.functions[n] # Undefined
OverlayMatches ==
  \A n \in Covered : /\ tables.functions[n] # Undefined
                     /\ tables.functions[n].arity = ArityOf[n]

InstallOverlay ==
  /\ Running /\ OverlayMatches
  /\ tables' = OverrideKernel(tables, Bodies(Covered, "source", "native"))
  /\ UNCHANGED <<config, step, loaded, layouts, outcome, sealed>>

\* A call from interpreted code, with any number of arguments.
Call ==
  /\ Running
  /\ \E n \in Names, k \in 0 .. MaxArgs : outcome' = ApplyNamed(n, k)
  /\ UNCHANGED <<tables, config, step, loaded, layouts, sealed>>

\* A call from compiled code, which may be in flight although its own name has
\* been rebound; klcompile saw a saturated call.
CompiledCall ==
  /\ Running
  /\ \E n \in Names : outcome' = ApplyDirect(n, ArityOf[n])
  /\ UNCHANGED <<tables, config, step, loaded, layouts, sealed>>

\* klcompile's same-module seal: the call names the Rust function itself.
Sealed == {c \in CallsInFile : /\ c[1] \notin SlowDefuns /\ c[2] \notin SlowDefuns
                               /\ c[2] \notin SealExclude}

SealedCall ==
  /\ Running /\ config.aot
  /\ \E c \in Sealed :
       sealed' = [ran |-> "kernel", bound |-> tables.functions[c[2]].of]
  /\ UNCHANGED <<tables, config, step, loaded, layouts, outcome>>

Next ==
  \/ LoadFile \/ InstallEarly \/ Initialises \/ InstallAot \/ HotOverrides
  \/ InstallJit \/ InstallCache
  \/ UseProperties \/ Rebind \/ LoadSource \/ InstallOverlay
  \/ Call \/ CompiledCall \/ SealedCall

Spec == Init /\ [][Next]_vars

(* ---- properties ---------------------------------------------------------------- *)

Fns == [Names -> Fn \cup {Undefined}]
Slots == [Names -> Fn \cup {NoSlot}]

\* Both tables and the boot's bookkeeping keep their types.
TypeOK ==
  /\ tables \in [functions : Fns, direct : Slots]
  /\ config \in Configs /\ step \in Nat \ {0} /\ loaded \in 0 .. Len(Files)

\* The direct table is a mirror: a slot is filled only while the cell holds a
\* function that computes the same and takes as many arguments (eval.rs:763,
\* clear_aot_direct), through boot, redefinitions and overlays.
Mirrors ==
  \A n \in Names : tables.direct[n] # NoSlot =>
    /\ tables.functions[n] # Undefined
    /\ Meaning(tables.direct[n]) = Meaning(tables.functions[n])

\* Every use of the property store once the source is loaded, the first by boot's
\* initialisers and the last by a program, goes by the same hash and the same put
\* and get: a property put under another would never be found (primitives.rs:41,
\* register_early_overrides).  Excepted are the properties that a slice of the S42
\* kernel puts while it loads: boot_from_kl_source installs the early overrides
\* after that (boot.rs:282), and without the exception the property is false.
PropertiesFindable == \A a, b \in layouts : a.by = b.by \/ "load" \in {a.when, b.when}

\* When boot is done the native overrides and the cache's wrappers are what both
\* kinds of callers reach, unless a program has rebound the name since: no
\* installer that runs later covers them (boot.rs:211).
OverridesStand ==
  Running => \A n \in {HashName} \cup HotNames \cup (IF config.cache THEN CacheNames ELSE {}) :
    LET f == tables.functions[n]
    IN /\ f.of # "kernel"
       /\ f.code = "native" /\ f.of \in {"native", "cached"} => tables.direct[n] # NoSlot

\* A sealed call runs what a call by name would, until a program rebinds the
\* name: klcompile/src/lib.rs:758, "Native overrides stay on apply_direct so
\* hot_* wins after install."
SealedCallsAgree == sealed.ran = sealed.bound \/ sealed.bound \in {"user", "host"}
=============================================================================
