--------------------------- MODULE ListenerService ---------------------------
(***************************************************************************)
(* What src/mozdbgextcb.h promises its callers: a listener that was        *)
(* registered is called for the engine's events, with those before it and  *)
(* in that order, until the engine lets go of the callbacks; a listener    *)
(* that was refused is never called, and refusals change nothing.          *)
(* SymbolCache builds on this promise, EventCallbacks keeps it.            *)
(***************************************************************************)
EXTENDS Sequences

CONSTANTS
  ModuleEventListenerFns,   (* Listeners for module loads and unloads.     *)
  ProcessDetachListenerFns  (* Listeners for the end of a process or of    *)
                            (* the session.                                *)

VARIABLES
  connected,        (* Whether the engine calls the listeners.             *)
  moduleListeners,  (* Those registered, of either kind, in the order of   *)
  detachListeners   (* their registration.                                 *)

vars == <<connected, moduleListeners, detachListeners>>

Init ==
  /\ connected = FALSE
  /\ moduleListeners = << >>
  /\ detachListeners = << >>

RegisterModuleEventListener(f) ==
  /\ connected' = TRUE
  /\ moduleListeners' = Append(moduleListeners, f)
  /\ UNCHANGED detachListeners

RegisterProcessDetachListener(f) ==
  /\ connected' = TRUE
  /\ detachListeners' = Append(detachListeners, f)
  /\ UNCHANGED moduleListeners

LetGo ==
  /\ connected
  /\ connected' = FALSE
  /\ moduleListeners' = << >>
  /\ detachListeners' = << >>

Next ==
  \/ \E f \in ModuleEventListenerFns : RegisterModuleEventListener(f)
  \/ \E f \in ProcessDetachListenerFns : RegisterProcessDetachListener(f)
  \/ LetGo

Spec == Init /\ [][Next]_vars

=============================================================================
