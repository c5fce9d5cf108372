----------------------------- MODULE DispatchMC -----------------------------
(***************************************************************************)
(* Dispatch with one name of each sort: sys.kl with hash, not and          *)
(* length-h, which length calls; the property store; load; the file of     *)
(* shen.x.features, where add calls current; and a user's f and g.         *)
(***************************************************************************)
EXTENDS Dispatch

MCNames == {"not", "shen.length-h", "length", "hash", "put", "load",
            "shen.x.features.current", "shen.x.features.add", "stlib.slow",
            "shen-w1-sumto", "f"}
MCArityOf ==
  [n \in MCNames |->
     CASE n \in {"shen.x.features.current", "stlib.slow"} -> 0
       [] n \in {"hash", "shen.length-h", "shen-w1-sumto"} -> 2
       [] OTHER -> 1]
MCFiles == <<{"not", "shen.length-h", "length", "hash"}, {"put", "load"},
             {"stlib.slow", "shen.x.features.current", "shen.x.features.add"}>>
MCPrimitives == {"hash"}
MCStoreNames == {"put"}
MCHotNames == {"not", "shen.x.features.current"}
MCCallsInFile ==
  {<<"length", "shen.length-h">>, <<"length", "not">>, <<"load", "put">>,
   <<"shen.x.features.add", "shen.x.features.current">>,
   <<"stlib.slow", "shen.x.features.add">>}
MCSealExclude == {"hash", "put", "not"}
=============================================================================
