----------------------------- MODULE TcCacheMC -----------------------------
(* Source trees for model checking TcCache: the contents each file may have. *)
EXTENDS TcCache, TLC

Sym == Permutations(Sessions)

\* A file that is edited, replaced by one that fails, or removed; one that
\* depends on it; and one that loads both, plainly or under traps.  Whatever
\* fails has changed no type.
Edited ==
  [a |-> {<<Declare("g", "number")>>, <<Define("g", "string"), Macro>>, <<Fail>>, Missing},
   b |-> {<<Use("g"), Opaque("g")>>},
   p |-> {<<LoadForm("a", FALSE), Macro, Use("g"), LoadForm("b", FALSE)>>,
          <<LoadForm("a", TRUE), Use("g"), Tc(FALSE), LoadForm("b", TRUE),
            Tc(TRUE)>>}]

\* Nothing is edited and nothing fails.
Stable ==
  [a |-> {<<Define("g", "number"), Macro, Use("g")>>},
   b |-> {<<Macro, Define("g", "string")>>},
   p |-> {<<LoadForm("a", FALSE), Use("g"), Opaque("g"), Macro, LoadForm("b", FALSE)>>}]

\* A file that changes a type and then fails.
HalfDone ==
  [a |-> {<<Declare("g", "number"), Fail>>, <<Declare("g", "string"), Fail>>},
   b |-> {<<Use("g")>>}]
=============================================================================
