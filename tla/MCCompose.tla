------------------------------ MODULE MCCompose ------------------------------
(***************************************************************************)
(* Two images. Both need the baseline's layer "base": one reuses it, the   *)
(* other patches it; each ships a layer whole or takes a second one over.  *)
(***************************************************************************)
EXTENDS Compose

MCImages    == {"a", "b"}
MCLayersOf  == [i \in Images |-> IF i = "a" THEN <<"base", "full">> ELSE <<"patch", "full">>]
Full        == [encoding |-> "full"]
MCTable     == [d \in {"full", "patch"} |->
                  IF d = "full" THEN Full ELSE [encoding |-> "patch", from |-> "base"]]
MCOutputs   == {"x", "y"}
MCMaxFaults == 2
=============================================================================
