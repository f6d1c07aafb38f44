------------------------------ MODULE MCSymbols ------------------------------
(***************************************************************************)
(* Instances of SymbolLookup, and of SymbolCache in it, for TLC.  Three    *)
(* load addresses; adjacent images touch, so that the address one past the *)
(* end of an image is the first of the next.                               *)
(***************************************************************************)
EXTENDS SymbolLookup, TLC

CONSTANTS
  exe, dllA, dllA2, dllB,   (* dllA2 is another build of the module of dllA *)
  nExe, nA, nB

MCBases == {0, 4, 8}

MCTwoBases == {0, 4}

MCMaxBase == 15

MCNameOf == [x \in Builds |-> CASE x = exe -> nExe
                                [] x \in {dllA, dllA2} -> nA
                                [] OTHER -> nB]

MCSizeOf == [x \in Builds |-> CASE x = exe -> 4
                                [] x = dllB -> 3
                                [] OTHER -> 4]

MCSymRvas == [x \in Builds |-> CASE x = exe -> {0, 2}
                                 [] x = dllB -> {0}
                                 [] OTHER -> {1, 3}]

(* No symbol file for dllB.                                                *)
MCSymFiles == Paths \X (Builds \ {dllB})

InfoSymmetry == Permutations(Infos)

=============================================================================
