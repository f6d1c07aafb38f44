------------------------------ MODULE Extension ------------------------------
(***************************************************************************)
(* The extension's start, src/mozdbgext.cpp: DebugExtensionInitialize gets *)
(* the engine's seven interfaces and asks for the pointer width of the     *)
(* target, once.  The user may debug another target later.                 *)
(*                                                                         *)
(* A load that fails leaves nothing: the engine unloads the library, and   *)
(* its globals with it.                                                    *)
(***************************************************************************)
EXTENDS Integers

Widths == {4, 8}

VARIABLES
  loaded,          (* Whether the commands of the extension can be called. *)
  gPointerWidth,
  targetWidth,     (* The pointer width of the current target.             *)
  answered         (* Whether IsPointer64Bit answered, of this target.     *)

extensionVars == <<loaded, gPointerWidth, targetWidth, answered>>

ExtensionTypeOK ==
  /\ loaded \in BOOLEAN
  /\ gPointerWidth \in Widths
  /\ targetWidth \in Widths
  /\ answered \in BOOLEAN

ExtensionInit ==
  /\ loaded = FALSE
  /\ gPointerWidth = 4
  /\ targetWidth \in Widths
  /\ answered = FALSE

-----------------------------------------------------------------------------

(* IsPointer64Bit says S_OK or S_FALSE, or fails when there is no target   *)
(* to ask about.                                                           *)
IsPointer64Bit ==
  {IF targetWidth = 8 THEN "S_OK" ELSE "S_FALSE", "E_UNEXPECTED"}

(* Mutated form of PointerWidth: SUCCEEDED(hr), which S_FALSE is, too.     *)
WidthIfSucceeded(hr) == IF hr \in {"S_OK", "S_FALSE"} THEN 8 ELSE 4

PointerWidth(hr) == IF hr = "S_OK" THEN 8 ELSE gPointerWidth

(* Every interface is there.                                               *)
DebugExtensionInitialize(hr) ==
  /\ ~loaded
  /\ hr \in IsPointer64Bit
  /\ loaded' = TRUE
  /\ gPointerWidth' = PointerWidth(hr)
  /\ answered' = (hr # "E_UNEXPECTED")
  /\ UNCHANGED targetWidth

Unload ==
  /\ loaded
  /\ loaded' = FALSE
  /\ gPointerWidth' = 4
  /\ answered' = FALSE
  /\ UNCHANGED targetWidth

(* The user debugs another target, of either width.                        *)
DebugTarget(width) ==
  /\ targetWidth' = width
  /\ answered' = FALSE
  /\ UNCHANGED <<loaded, gPointerWidth>>

-----------------------------------------------------------------------------

(* For as long as the target it was loaded with is debugged, and unless    *)
(* the engine could not tell, the extension reads pointers of that         *)
(* target's width.                                                         *)
WidthIsTargets == answered => gPointerWidth = targetWidth

=============================================================================
