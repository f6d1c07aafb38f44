---------------------------- MODULE EventCallbacks ----------------------------
(***************************************************************************)
(* The event callback object of src/mozdbgextcb.cpp: the singleton         *)
(* sInstance, made by the first registration of a listener and handed to   *)
(* the debugger engine, its COM reference count, and its destruction when  *)
(* the engine lets go of it.                                               *)
(*                                                                         *)
(* The engine is external.  It takes references to an object it has one    *)
(* of, and to the object it is being given by SetEventCallbacksWide, and   *)
(* drops those it took.  Once it has dropped the last one it leaves the    *)
(* object alone, and it has one when SetEventCallbacksWide succeeds, none  *)
(* when it fails.                                                          *)
(***************************************************************************)
EXTENDS Integers, Sequences

CONSTANTS
  Objects,        (* Addresses of DbgExtCallbacks objects.                 *)
  Listeners,      (* Listener functions, of both kinds.                    *)
  MaxHeld,        (* Bound on the references the engine has to an object.  *)
  MaxRegistered,  (* Bound on the listeners of one kind on an object.      *)
  Null

ASSUME CallbackAssumption ==
  /\ MaxHeld \in Nat
  /\ MaxRegistered \in Nat
  /\ Null \notin Objects

VARIABLES
  sInstance,                (* The singleton, Null for nullptr.            *)
  live,                     (* Objects constructed and not yet destroyed.  *)
  mRefCnt,                  (* mRefCnt[o] while o is live.                 *)
  mModuleEventListeners,    (* What the two Register functions pushed on   *)
  mProcessDetachListeners,  (* each object.                                *)
  held,                     (* held[o]: references the engine has to o.    *)
  task                      (* The SetEventCallbacksWide call under way.   *)

listenerVars == <<mModuleEventListeners, mProcessDetachListeners>>
vars == <<sInstance, live, mRefCnt, listenerVars, held, task>>

Kinds == {"module", "detach"}

Idle == [kind |-> "idle"]

(* Inside SetEventCallbacksWide(object), on behalf of a listener.          *)
Registrations == [kind : Kinds, object : Objects, listener : Listeners]

(* The variables hold what the program's do.                               *)
TypeOK ==
  /\ sInstance \in Objects \cup {Null}
  /\ live \subseteq Objects
  /\ mRefCnt \in [Objects -> Nat]
  /\ mModuleEventListeners \in [Objects -> Seq(Listeners)]
  /\ mProcessDetachListeners \in [Objects -> Seq(Listeners)]
  /\ held \in [Objects -> Nat]
  /\ task \in {Idle} \cup Registrations

Init ==
  /\ sInstance = Null
  /\ live = {}
  /\ mRefCnt = [o \in Objects |-> 0]
  /\ mModuleEventListeners = [o \in Objects |-> << >>]
  /\ mProcessDetachListeners = [o \in Objects |-> << >>]
  /\ held = [o \in Objects |-> 0]
  /\ task = Idle

-----------------------------------------------------------------------------
(* RegisterModuleEventListener and RegisterProcessDetachListener.          *)

PushBack(o, kind, f) ==
  \/ /\ kind = "module"
     /\ mModuleEventListeners' = [mModuleEventListeners EXCEPT ![o] = Append(@, f)]
     /\ UNCHANGED mProcessDetachListeners
  \/ /\ kind = "detach"
     /\ mProcessDetachListeners' =
          [mProcessDetachListeners EXCEPT ![o] = Append(@, f)]
     /\ UNCHANGED mModuleEventListeners

(* With an object installed the listener is pushed at once.                *)
RegisterOnInstance(kind, f) ==
  /\ task = Idle
  /\ sInstance # Null
  /\ Len(mModuleEventListeners[sInstance]) < MaxRegistered
  /\ Len(mProcessDetachListeners[sInstance]) < MaxRegistered
  /\ PushBack(sInstance, kind, f)
  /\ UNCHANGED <<sInstance, live, mRefCnt, held, task>>

(* Otherwise an object is made, becomes the singleton, and is given to the *)
(* engine.                                                                 *)
BeginRegister(kind, f) ==
  /\ task = Idle
  /\ sInstance = Null
  /\ \E o \in Objects \ live :
       /\ sInstance' = o
       /\ live' = live \cup {o}
       /\ mRefCnt' = [mRefCnt EXCEPT ![o] = 1]
       /\ mModuleEventListeners' = [mModuleEventListeners EXCEPT ![o] = << >>]
       /\ mProcessDetachListeners' =
            [mProcessDetachListeners EXCEPT ![o] = << >>]
       /\ task' = [kind |-> kind, object |-> o, listener |-> f]
  /\ UNCHANGED held

RegisterSucceeds ==
  /\ task # Idle
  /\ held[task.object] > 0
  /\ PushBack(sInstance, task.kind, task.listener)
  /\ task' = Idle
  /\ UNCHANGED <<sInstance, live, mRefCnt, held>>

(* Mutated form of RegisterFails: sInstance is not reset.                  *)
RegisterFailsKeeping ==
  /\ task # Idle
  /\ held[task.object] = 0
  /\ live' = live \ {sInstance}
  /\ task' = Idle
  /\ UNCHANGED <<sInstance, mRefCnt, listenerVars, held>>

(* delete does nothing when sInstance has become null in the meantime.     *)
RegisterFails ==
  /\ task # Idle
  /\ held[task.object] = 0
  /\ live' = live \ {sInstance}
  /\ sInstance' = Null
  /\ task' = Idle
  /\ UNCHANGED <<mRefCnt, listenerVars, held>>

-----------------------------------------------------------------------------
(* IUnknown, called by the engine.                                         *)

(* Mutated form of AddRef: QueryInterface without punk->AddRef().          *)
QueryWithoutAddRef(o) ==
  /\ o \in live
  /\ held[o] > 0 \/ task # Idle
  /\ held[o] < MaxHeld
  /\ held' = [held EXCEPT ![o] = @ + 1]
  /\ UNCHANGED <<sInstance, live, mRefCnt, listenerVars, task>>

(* AddRef, and QueryInterface for an interface that the object has.        *)
AddRef(o) ==
  /\ o \in live
  /\ held[o] > 0 \/ task # Idle
  /\ held[o] < MaxHeld
  /\ held' = [held EXCEPT ![o] = @ + 1]
  /\ mRefCnt' = [mRefCnt EXCEPT ![o] = @ + 1]
  /\ UNCHANGED <<sInstance, live, listenerVars, task>>

(* Mutated forms of Release: the singleton is forgotten but keeps its own  *)
(* reference; there is no branch for the singleton.                        *)
ReleaseAndForget(o) ==
  /\ held[o] > 0
  /\ held' = [held EXCEPT ![o] = @ - 1]
  /\ mRefCnt' = [mRefCnt EXCEPT ![o] = @ - 1]
  /\ live' = IF mRefCnt[o] = 1 THEN live \ {o} ELSE live
  /\ sInstance' = IF mRefCnt[o] = 2 /\ sInstance = o THEN Null ELSE sInstance
  /\ UNCHANGED <<listenerVars, task>>
ReleasePlainly(o) ==
  /\ held[o] > 0
  /\ held' = [held EXCEPT ![o] = @ - 1]
  /\ mRefCnt' = [mRefCnt EXCEPT ![o] = @ - 1]
  /\ live' = IF mRefCnt[o] = 1 THEN live \ {o} ELSE live
  /\ UNCHANGED <<sInstance, listenerVars, task>>

(* When the reference of sInstance is the only one left, the object drops  *)
(* it too: the nested Release destroys the object.                         *)
Release(o) ==
  LET result == mRefCnt[o] - 1
      onlyInstance == result = 1 /\ sInstance = o
  IN  /\ held[o] > 0
      /\ held' = [held EXCEPT ![o] = @ - 1]
      /\ mRefCnt' = [mRefCnt EXCEPT ![o] = IF onlyInstance THEN 0 ELSE result]
      /\ live' = IF onlyInstance \/ result = 0 THEN live \ {o} ELSE live
      /\ sInstance' = IF onlyInstance THEN Null ELSE sInstance
      /\ UNCHANGED <<listenerVars, task>>

-----------------------------------------------------------------------------

Next ==
  \/ \E kind \in Kinds, f \in Listeners :
       RegisterOnInstance(kind, f) \/ BeginRegister(kind, f)
  \/ RegisterSucceeds
  \/ RegisterFails
  \/ \E o \in Objects : AddRef(o) \/ Release(o)

Spec == Init /\ [][Next]_vars

-----------------------------------------------------------------------------
(* Properties.                                                             *)

(* Nothing leaks and nothing dangles: the only object there is, if any, is *)
(* the singleton (the delete of a failed registration, delete this and the *)
(* reset of sInstance in Release).                                         *)
OnlyInstanceLives == live = {sInstance} \ {Null}

(* mRefCnt counts the engine's references and the one sInstance stands     *)
(* for, so that a destroyed object has no references left.                 *)
RefCountExact ==
  \A o \in Objects :
    IF o \in live THEN mRefCnt[o] = held[o] + 1 ELSE held[o] = 0

(* Between registrations a singleton is one the engine has: a listener     *)
(* that RegisterOnInstance accepts without asking the engine is called.    *)
InstanceIsHeld == task = Idle /\ sInstance # Null => held[sInstance] > 0

(* The promise to the callers of the Register functions.                   *)
Connected == sInstance # Null /\ task = Idle

Service == INSTANCE ListenerService WITH
  connected <- Connected,
  moduleListeners <-
    IF Connected THEN mModuleEventListeners[sInstance] ELSE << >>,
  detachListeners <-
    IF Connected THEN mProcessDetachListeners[sInstance] ELSE << >>,
  ModuleEventListenerFns <- Listeners,
  ProcessDetachListenerFns <- Listeners

(* Callers see ListenerService: registering through the engine, in the     *)
(* course of which the object may come and go, is one step that succeeds   *)
(* or one that changes nothing.                                            *)
KeepsPromise == Service!Spec

=============================================================================
