------------------------- MODULE EventCallbacksProofs -------------------------
(***************************************************************************)
(* Theorems about EventCallbacks, for any objects and listeners and any    *)
(* number of references the engine takes.                                  *)
(***************************************************************************)
EXTENDS EventCallbacks, TLAPS

(* While the engine is being given an object, that object is the singleton *)
(* and has no listeners, or it is gone.                                    *)
RegisteringOK ==
  task # Idle =>
    \/ sInstance = Null
    \/ /\ sInstance = task.object
       /\ mModuleEventListeners[sInstance] = << >>
       /\ mProcessDetachListeners[sInstance] = << >>

IInv ==
  /\ TypeOK
  /\ OnlyInstanceLives
  /\ RefCountExact
  /\ InstanceIsHeld
  /\ RegisteringOK

LEMMA InitOK == Init => IInv
<1> SUFFICES ASSUME Init PROVE IInv
  OBVIOUS
<1>1. << >> \in Seq(Listeners)
  OBVIOUS
<1>2. TypeOK
  BY <1>1 DEF Init, TypeOK
<1>3. QED
  BY <1>2 DEF Init, IInv, OnlyInstanceLives, RefCountExact, InstanceIsHeld,
              RegisteringOK

LEMMA TaskTyped ==
  ASSUME TypeOK, task # Idle
  PROVE  /\ task \in Registrations
         /\ task.kind \in Kinds
         /\ task.object \in Objects
         /\ task.listener \in Listeners
BY DEF TypeOK, Registrations

LEMMA PushBackTyped ==
  ASSUME TypeOK, NEW o \in Objects, NEW kind \in Kinds, NEW f \in Listeners,
         PushBack(o, kind, f)
  PROVE  /\ mModuleEventListeners' \in [Objects -> Seq(Listeners)]
         /\ mProcessDetachListeners' \in [Objects -> Seq(Listeners)]
<1>1. CASE /\ mModuleEventListeners' =
                [mModuleEventListeners EXCEPT ![o] = Append(@, f)]
           /\ UNCHANGED mProcessDetachListeners
  <2>1. Append(mModuleEventListeners[o], f) \in Seq(Listeners)
    BY DEF TypeOK
  <2>2. QED
    BY <1>1, <2>1 DEF TypeOK
<1>2. CASE /\ mProcessDetachListeners' =
                [mProcessDetachListeners EXCEPT ![o] = Append(@, f)]
           /\ UNCHANGED mModuleEventListeners
  <2>1. Append(mProcessDetachListeners[o], f) \in Seq(Listeners)
    BY DEF TypeOK
  <2>2. QED
    BY <1>2, <2>1 DEF TypeOK
<1>3. QED
  BY <1>1, <1>2 DEF PushBack

LEMMA RegisterOnInstanceOK ==
  ASSUME IInv, NEW kind \in Kinds, NEW f \in Listeners,
         RegisterOnInstance(kind, f)
  PROVE  IInv'
<1>1. sInstance \in Objects
  BY DEF IInv, TypeOK, RegisterOnInstance
<1>2. /\ mModuleEventListeners' \in [Objects -> Seq(Listeners)]
      /\ mProcessDetachListeners' \in [Objects -> Seq(Listeners)]
  BY <1>1, PushBackTyped DEF IInv, RegisterOnInstance
<1>3. QED
  BY <1>2 DEF RegisterOnInstance, IInv, TypeOK, OnlyInstanceLives,
              RefCountExact, InstanceIsHeld, RegisteringOK

LEMMA BeginRegisterOK ==
  ASSUME IInv, NEW kind \in Kinds, NEW f \in Listeners, BeginRegister(kind, f)
  PROVE  IInv'
<1>1. PICK o \in Objects \ live :
        /\ sInstance' = o
        /\ live' = live \cup {o}
        /\ mRefCnt' = [mRefCnt EXCEPT ![o] = 1]
        /\ mModuleEventListeners' = [mModuleEventListeners EXCEPT ![o] = << >>]
        /\ mProcessDetachListeners' =
             [mProcessDetachListeners EXCEPT ![o] = << >>]
        /\ task' = [kind |-> kind, object |-> o, listener |-> f]
  BY DEF BeginRegister
<1>2. task' \in Registrations /\ task' # Idle /\ task'.object = o
  BY <1>1 DEF Registrations, Idle
<1>3. << >> \in Seq(Listeners)
  OBVIOUS
<1>4. TypeOK'
  BY <1>1, <1>2, <1>3 DEF BeginRegister, IInv, TypeOK
<1>5. live = {} /\ held[o] = 0
  BY <1>1 DEF BeginRegister, IInv, OnlyInstanceLives, RefCountExact
<1>6. OnlyInstanceLives'
  BY <1>1, <1>5, CallbackAssumption DEF OnlyInstanceLives
<1>7. RefCountExact'
  BY <1>1, <1>5 DEF BeginRegister, IInv, TypeOK, RefCountExact
<1>8. InstanceIsHeld' /\ RegisteringOK'
  BY <1>1, <1>2 DEF IInv, TypeOK, InstanceIsHeld, RegisteringOK
<1>9. QED
  BY <1>4, <1>6, <1>7, <1>8 DEF IInv

LEMMA RegisterSucceedsOK ==
  ASSUME IInv, RegisterSucceeds
  PROVE  IInv' /\ sInstance = task.object
<1>1. task.object \in live
  BY TaskTyped DEF RegisterSucceeds, IInv, TypeOK, RefCountExact
<1>2. sInstance = task.object /\ sInstance \in Objects
  BY <1>1 DEF IInv, TypeOK, OnlyInstanceLives
<1>3. /\ mModuleEventListeners' \in [Objects -> Seq(Listeners)]
      /\ mProcessDetachListeners' \in [Objects -> Seq(Listeners)]
  BY <1>2, TaskTyped, PushBackTyped DEF IInv, RegisterSucceeds
<1>4. QED
  BY <1>2, <1>3 DEF RegisterSucceeds, IInv, TypeOK, OnlyInstanceLives,
                    RefCountExact, InstanceIsHeld, RegisteringOK

LEMMA RegisterFailsOK ==
  ASSUME IInv, RegisterFails
  PROVE  IInv'
<1>1. TypeOK'
  BY DEF RegisterFails, IInv, TypeOK, listenerVars
<1>2. OnlyInstanceLives'
  BY CallbackAssumption DEF RegisterFails, IInv, OnlyInstanceLives
<1>3. RefCountExact'
  BY DEF RegisterFails, IInv, TypeOK, OnlyInstanceLives, RefCountExact,
         RegisteringOK
<1>4. QED
  BY <1>1, <1>2, <1>3 DEF RegisterFails, IInv, InstanceIsHeld, RegisteringOK

LEMMA AddRefOK ==
  ASSUME IInv, NEW o \in Objects, AddRef(o)
  PROVE  IInv'
<1>1. TypeOK'
  BY DEF AddRef, IInv, TypeOK, listenerVars
<1>2. RefCountExact'
  BY DEF AddRef, IInv, TypeOK, RefCountExact
<1>3. QED
  BY <1>1, <1>2 DEF AddRef, IInv, TypeOK, OnlyInstanceLives, InstanceIsHeld,
                    RegisteringOK, listenerVars

(* A reference the engine gives back is to the singleton; the last one     *)
(* takes the object with it.                                               *)
LEMMA ReleaseOK ==
  ASSUME IInv, NEW o \in Objects, Release(o)
  PROVE  /\ IInv'
         /\ o = sInstance
         /\ sInstance' = IF held[o] = 1 THEN Null ELSE sInstance
<1>1. /\ o \in live /\ o = sInstance /\ live = {o}
      /\ held[o] \in Nat \ {0}
      /\ mRefCnt[o] = held[o] + 1
  BY DEF Release, IInv, TypeOK, OnlyInstanceLives, RefCountExact
<1>2. CASE held[o] = 1
  <2>1. /\ live' = {} /\ sInstance' = Null
        /\ mRefCnt' = [mRefCnt EXCEPT ![o] = 0]
        /\ held' = [held EXCEPT ![o] = 0]
    BY <1>1, <1>2 DEF Release
  <2>2. TypeOK'
    BY <2>1 DEF Release, IInv, TypeOK, listenerVars
  <2>3. RefCountExact'
    BY <1>1, <2>1 DEF IInv, TypeOK, RefCountExact
  <2>4. QED
    BY <1>1, <1>2, <2>1, <2>2, <2>3
    DEF IInv, OnlyInstanceLives, InstanceIsHeld, RegisteringOK
<1>3. CASE held[o] > 1
  <2>1. /\ live' = live /\ sInstance' = sInstance
        /\ mRefCnt' = [mRefCnt EXCEPT ![o] = mRefCnt[o] - 1]
        /\ held' = [held EXCEPT ![o] = held[o] - 1]
    <3>1. mRefCnt[o] - 1 = held[o] /\ held[o] # 1 /\ held[o] # 0
      BY <1>1, <1>3
    <3>2. QED
      BY <3>1 DEF Release
  <2>2. TypeOK'
    BY <1>1, <1>3, <2>1 DEF Release, IInv, TypeOK, listenerVars
  <2>3. RefCountExact'
    BY <1>1, <1>3, <2>1 DEF IInv, TypeOK, RefCountExact
  <2>4. InstanceIsHeld'
    BY <1>1, <1>3, <2>1 DEF IInv, TypeOK, InstanceIsHeld
  <2>5. QED
    BY <1>1, <1>3, <2>1, <2>2, <2>3, <2>4
    DEF Release, IInv, OnlyInstanceLives, RegisteringOK, listenerVars
<1>4. QED
  BY <1>1, <1>2, <1>3

LEMMA StepOK == IInv /\ [Next]_vars => IInv'
<1> SUFFICES ASSUME IInv, [Next]_vars PROVE IInv'
  OBVIOUS
<1>1. CASE UNCHANGED vars
  BY <1>1 DEF vars, listenerVars, IInv, TypeOK, OnlyInstanceLives,
              RefCountExact, InstanceIsHeld, RegisteringOK
<1>2. CASE Next
  BY <1>2, RegisterOnInstanceOK, BeginRegisterOK, RegisterSucceedsOK,
     RegisterFailsOK, AddRefOK, ReleaseOK DEF Next
<1>3. QED
  BY <1>1, <1>2

LEMMA AlwaysIInv == Spec => []IInv
BY InitOK, StepOK, PTL DEF Spec

(* The variables have their types in every state.                          *)
THEOREM TypeCorrect == Spec => []TypeOK
<1>1. IInv => TypeOK
  BY DEF IInv
<1>2. QED
  BY <1>1, AlwaysIInv, PTL

(* However many references the engine takes and drops, in whatever order,  *)
(* the count of an object is that of its references, and a destroyed       *)
(* object has none left.                                                   *)
THEOREM NoDangling == Spec => []RefCountExact
<1>1. IInv => RefCountExact
  BY DEF IInv
<1>2. QED
  BY <1>1, AlwaysIInv, PTL

(* The object is destroyed with the last reference and sInstance is reset  *)
(* then; no other object is ever left over.                                *)
THEOREM NoLeak == Spec => []OnlyInstanceLives
<1>1. IInv => OnlyInstanceLives
  BY DEF IInv
<1>2. QED
  BY <1>1, AlwaysIInv, PTL

(* A listener that is pushed on the singleton without asking the engine is *)
(* pushed on an object the engine calls.                                   *)
THEOREM SingletonIsHeld == Spec => []InstanceIsHeld
<1>1. IInv => InstanceIsHeld
  BY DEF IInv
<1>2. QED
  BY <1>1, AlwaysIInv, PTL

-----------------------------------------------------------------------------
(* The refinement of ListenerService.                                      *)

LEMMA RegistersInService ==
  ASSUME IInv, NEW kind \in Kinds, NEW f \in Listeners,
         sInstance \in Objects, PushBack(sInstance, kind, f),
         ~Connected => /\ mModuleEventListeners[sInstance] = << >>
                       /\ mProcessDetachListeners[sInstance] = << >>,
         sInstance' = sInstance, task' = Idle
  PROVE  Service!Next
<1>1. Connected'
  BY CallbackAssumption DEF Connected
<1>2. CASE /\ kind = "module"
           /\ mModuleEventListeners' =
                [mModuleEventListeners EXCEPT ![sInstance] = Append(@, f)]
           /\ UNCHANGED mProcessDetachListeners
  <2>1. mModuleEventListeners'[sInstance] =
          Append(mModuleEventListeners[sInstance], f)
    BY <1>2 DEF IInv, TypeOK
  <2>2. Service!RegisterModuleEventListener(f)
    BY <1>1, <1>2, <2>1, CallbackAssumption
    DEF Service!RegisterModuleEventListener, Connected
  <2>3. QED
    BY <2>2 DEF Service!Next
<1>3. CASE /\ kind = "detach"
           /\ mProcessDetachListeners' =
                [mProcessDetachListeners EXCEPT ![sInstance] = Append(@, f)]
           /\ UNCHANGED mModuleEventListeners
  <2>1. mProcessDetachListeners'[sInstance] =
          Append(mProcessDetachListeners[sInstance], f)
    BY <1>3 DEF IInv, TypeOK
  <2>2. Service!RegisterProcessDetachListener(f)
    BY <1>1, <1>3, <2>1, CallbackAssumption
    DEF Service!RegisterProcessDetachListener, Connected
  <2>3. QED
    BY <2>2 DEF Service!Next
<1>4. QED
  BY <1>2, <1>3 DEF PushBack

LEMMA InitInService == Init => Service!Init
BY DEF Init, Connected, Service!Init

LEMMA StepInService == IInv /\ [Next]_vars => [Service!Next]_(Service!vars)
<1> SUFFICES ASSUME IInv, [Next]_vars
             PROVE  Service!Next \/ UNCHANGED Service!vars
  OBVIOUS
<1>1. CASE UNCHANGED vars
  BY <1>1 DEF vars, listenerVars, Service!vars, Connected
<1>2. ASSUME NEW kind \in Kinds, NEW f \in Listeners,
             RegisterOnInstance(kind, f)
      PROVE  Service!Next
  <2>1. sInstance \in Objects
    BY <1>2 DEF RegisterOnInstance, IInv, TypeOK
  <2>2. /\ PushBack(sInstance, kind, f)
        /\ Connected /\ sInstance' = sInstance /\ task' = Idle
    BY <1>2 DEF RegisterOnInstance, Connected
  <2>3. QED
    BY <2>1, <2>2, RegistersInService
<1>3. ASSUME NEW kind \in Kinds, NEW f \in Listeners, BeginRegister(kind, f)
      PROVE  UNCHANGED Service!vars
  <2>1. ~Connected
    BY <1>3 DEF BeginRegister, Connected
  <2>2. ~Connected'
    <3>1. task'.kind # Idle.kind
      BY <1>3 DEF BeginRegister, Idle, Kinds
    <3>2. QED
      BY <3>1 DEF Connected
  <2>3. Connected' = Connected
    BY <2>1, <2>2, Zenon DEF Connected
  <2>4. QED
    BY <2>1, <2>2, <2>3 DEF Service!vars
<1>4. CASE RegisterSucceeds
  <2>1. /\ task.kind \in Kinds /\ task.listener \in Listeners
        /\ sInstance = task.object /\ sInstance \in Objects
    BY <1>4, TaskTyped, RegisterSucceedsOK DEF RegisterSucceeds, IInv
  <2>2. /\ mModuleEventListeners[sInstance] = << >>
        /\ mProcessDetachListeners[sInstance] = << >>
    BY <1>4, <2>1, CallbackAssumption
    DEF RegisterSucceeds, IInv, RegisteringOK
  <2>3. QED
    BY <1>4, <2>1, <2>2, RegistersInService DEF RegisterSucceeds
<1>5. CASE RegisterFails
  BY <1>5 DEF RegisterFails, Connected, Service!vars
<1>6. ASSUME NEW o \in Objects, AddRef(o)
      PROVE  UNCHANGED Service!vars
  BY <1>6 DEF AddRef, listenerVars, Connected, Service!vars
<1>7. ASSUME NEW o \in Objects, Release(o)
      PROVE  Service!Next \/ UNCHANGED Service!vars
  <2>1. CASE sInstance' = sInstance
    BY <1>7, <2>1 DEF Release, listenerVars, Connected, Service!vars
  <2>2. CASE sInstance' = Null /\ Connected
    <3>1. Service!LetGo
      BY <2>2 DEF Connected, Service!LetGo
    <3>2. QED
      BY <3>1 DEF Service!Next
  <2>3. CASE sInstance' = Null /\ ~Connected
    BY <2>3 DEF Connected, Service!vars
  <2>4. QED
    BY <1>7, <2>1, <2>2, <2>3 DEF Release
<1>8. QED
  BY <1>1, <1>2, <1>3, <1>4, <1>5, <1>6, <1>7 DEF Next

(* The callback object keeps the promise of ListenerService for any        *)
(* listeners and whatever the engine does with its references: a           *)
(* registration through the engine looks to callers like one atomic step,  *)
(* or like none, and listeners are lost only all together.                 *)
THEOREM ServiceImplemented == Spec => KeepsPromise
<1>1. Spec => Service!Spec
  BY InitInService, StepInService, AlwaysIInv, PTL DEF Spec, Service!Spec
<1>2. QED
  BY <1>1 DEF KeepsPromise

=============================================================================
