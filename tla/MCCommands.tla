----------------------------- MODULE MCCommands -----------------------------
(***************************************************************************)
(* The instance of MCSymbols with the commands that resolve addresses and  *)
(* set breakpoints.  Two modules have a symbol of the same name.           *)
(***************************************************************************)
EXTENDS MCSymbols, SymbolBreakpoints

MCSymNameOf ==
  [x \in Builds |-> CASE x = exe -> 0 :> "get" @@ 2 :> "exit"
                      [] x = dllB -> 0 :> "get"
                      [] OTHER -> 1 :> "get" @@ 3 :> "set"]

=============================================================================
