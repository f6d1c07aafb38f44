----------------------------- MODULE MCCallbacks -----------------------------
(***************************************************************************)
(* An instance of EventCallbacks for TLC.                                  *)
(***************************************************************************)
EXTENDS EventCallbacks, TLC

ObjectSymmetry == Permutations(Objects)

=============================================================================
