-------------------------- MODULE SymbolCacheProofs --------------------------
(***************************************************************************)
(* Theorems about SymbolCache, for any processes, addresses, builds, names *)
(* and symbol directories, whether the engine's calls fail or not.         *)
(***************************************************************************)
EXTENDS SymbolCache, FiniteSetTheorems, RecursionTheorems

(* Facts about the ordered map of ModuleKeys, for every set of process ids *)
(* and every address width.                                                *)

(* operator< of ModuleKey is a strict total order, which std::map demands: *)
(* otherwise its lookups and ranges mean nothing.                          *)
THEOREM KeyLessIsOrder ==
  ASSUME NEW k \in Keys, NEW l \in Keys, NEW m \in Keys
  PROVE  /\ ~KeyLess(k, k)
         /\ KeyLess(k, l) /\ KeyLess(l, m) => KeyLess(k, m)
         /\ k = l \/ KeyLess(k, l) \/ KeyLess(l, k)
<1>1. \A x \in {k, l, m} : x.mPid \in Nat /\ x.mBase \in 0 .. MaxBase
  BY KeyAssumption DEF Keys
<1>2. k.mPid = l.mPid /\ k.mBase = l.mBase => k = l
  BY DEF Keys
<1>3. QED
  BY <1>1, <1>2, KeyAssumption DEF KeyLess

(* The assertion itr->first.mPid == aPid in ClearModuleInfoForPid, and its *)
(* converse: the range holds the keys of the process, all of them and only *)
(* they.                                                                   *)
THEOREM PidRangeIsPid ==
  ASSUME NEW S \in SUBSET Keys, NEW pid \in Pids
  PROVE  PidRange(S, pid) = {k \in S : k.mPid = pid}
<1>1. \A k \in S : k.mPid \in Nat /\ k.mBase \in 0 .. MaxBase
  BY KeyAssumption DEF Keys
<1>2. pid \in Nat /\ MaxBase \in Nat
  BY KeyAssumption
<1>3. QED
  BY <1>1, <1>2
  DEF PidRange, FromLowerBound, FromUpperBound, KeyLess, ModuleKey

LEMMA ModuleKeyType ==
  ASSUME NEW pid \in Pids, NEW base \in Bases
  PROVE  /\ ModuleKey(pid, base) \in Keys
         /\ ModuleKey(pid, base).mPid = pid
         /\ ModuleKey(pid, base).mBase = base
BY DEF ModuleKey, Keys

LEMMA KeysFinite ==
  ASSUME IsFiniteSet(Pids), IsFiniteSet(Bases)
  PROVE  IsFiniteSet(Keys)
<1> DEFINE pair == [k \in Keys |-> <<k.mPid, k.mBase>>]
<1>1. IsFiniteSet(Pids \X Bases)
  BY FS_Product
<1>2. \A k \in Keys : pair[k] \in Pids \X Bases
  BY DEF Keys
<1>3. \A k, l \in Keys : pair[k] = pair[l] => k = l
  BY DEF Keys
<1>4. pair \in Injection(Keys, Pids \X Bases)
  BY <1>2, <1>3 DEF Injection, IsInjective
<1>5. QED
  BY <1>1, <1>4, FS_Injection

-----------------------------------------------------------------------------

(* What the loops of the commands and the listeners rely on: the modules   *)
(* still to be filed are loaded, and so is the one a load event is about;  *)
(* the listener loop stands at a listener.                                 *)
TaskOK ==
  /\ task.kind = "command" =>
       /\ task.pid \in DOMAIN image
       /\ task.left \subseteq DOMAIN image[task.pid]
  /\ task.kind \in {"load", "unload"} =>
       task.next \in 1 .. Len(mModuleEventListeners)
  /\ task.kind = "load" =>
       /\ current \in DOMAIN image
       /\ task.base \in DOMAIN image[current]

TypeInv == TypeOK /\ TaskOK

-----------------------------------------------------------------------------
(* The operations on the tables keep their types.                          *)

LEMMA BuildsTyped ==
  ASSUME NEW x \in Builds
  PROVE  NameOf[x] \in Names /\ NewModuleInfo(x) \in ModuleInfos
BY CacheAssumption DEF NewModuleInfo, ModuleInfos

LEMMA LoadBpSymbolsType ==
  ASSUME NEW i \in ModuleInfos, NEW x \in Builds, NEW stores, NEW idRead
  PROVE  /\ LoadBpSymbols(i, x, stores, idRead) \in ModuleInfos
         /\ LoadBpSymbols(i, x, stores, idRead).mName = i.mName
         /\ i.mSyms \in {Null, LoadBpSymbols(i, x, stores, idRead).mSyms}
BY DEF LoadBpSymbols, LoadBpSymbolFile, ModuleInfos

(* FileModule as a relation between the old and the new tables: the entry  *)
(* of the name and of the key lead to m, whose contents become i.          *)
Filing(m, i, pid, base, x) ==
  /\ m \in IF NameOf[x] \in DOMAIN gModuleInfoByName
           THEN {gModuleInfoByName[NameOf[x]]}
           ELSE Infos \ DOMAIN info
  /\ gModuleInfoByName' = Emplace(gModuleInfoByName, NameOf[x], m)
  /\ gModuleInfoByKey' = Emplace(gModuleInfoByKey, ModuleKey(pid, base), m)
  /\ IsMap(info', Infos, ModuleInfos)
  /\ DOMAIN info' = DOMAIN info \cup {m}
  /\ \A n \in DOMAIN info : n # m => info'[n] = info[n]
  /\ info'[m] = i
  /\ m \in DOMAIN info => /\ i.mName = info[m].mName
                          /\ info[m].mSyms \in {Null, i.mSyms}
  /\ m \notin DOMAIN info => i.mName = NameOf[x]

(* The contents the object has afterwards.                                 *)
Refreshed(m, x, stores, idRead) ==
  LoadBpSymbols(IF m \in DOMAIN info THEN info[m] ELSE NewModuleInfo(x),
                x, stores, idRead)

LEMMA FileModuleContents ==
  ASSUME TablesTypeOK, NEW pid \in Pids, NEW base \in Bases,
         NEW x \in Builds, NEW stores, FileModule(pid, base, x, stores)
  PROVE  \E m \in Infos, idRead \in EngineOutcome :
           /\ Refreshed(m, x, stores, idRead) \in ModuleInfos
           /\ Filing(m, Refreshed(m, x, stores, idRead), pid, base, x)
<1>1. PICK m \in Infos, idRead \in EngineOutcome :
        /\ EmplaceModule(m, pid, x, base)
        /\ info' = [Emplace(info, m, NewModuleInfo(x)) EXCEPT
                      ![m] = LoadBpSymbols(@, x, stores, idRead)]
  BY DEF FileModule
<1> DEFINE filled == Emplace(info, m, NewModuleInfo(x))
           i == Refreshed(m, x, stores, idRead)
<1>2. /\ IsMap(filled, Infos, ModuleInfos)
      /\ DOMAIN filled = DOMAIN info \cup {m}
      /\ \A n \in DOMAIN info : filled[n] = info[n]
      /\ m \notin DOMAIN info => filled[m] = NewModuleInfo(x)
  <2>1. IsMap(info, Infos, ModuleInfos) /\ NewModuleInfo(x) \in ModuleInfos
    BY BuildsTyped DEF TablesTypeOK
  <2>2. QED
    BY <2>1, EmplaceType
<1>3. /\ filled[m] \in ModuleInfos
      /\ i = LoadBpSymbols(filled[m], x, stores, idRead)
  BY <1>2 DEF IsMap, Refreshed
<1>4. /\ i \in ModuleInfos
      /\ i.mName = filled[m].mName
      /\ filled[m].mSyms \in {Null, i.mSyms}
  BY <1>3, LoadBpSymbolsType
<1>5. info' = [filled EXCEPT ![m] = i]
  BY <1>1, <1>3
<1>6. NewModuleInfo(x).mName = NameOf[x]
  BY DEF NewModuleInfo
<1> HIDE DEF filled, i
<1>7. /\ IsMap(info', Infos, ModuleInfos)
      /\ DOMAIN info' = DOMAIN info \cup {m}
      /\ \A n \in DOMAIN info : n # m => info'[n] = info[n]
      /\ info'[m] = i
  BY <1>2, <1>4, <1>5 DEF IsMap
<1>8. /\ m \in DOMAIN info => /\ i.mName = info[m].mName
                              /\ info[m].mSyms \in {Null, i.mSyms}
      /\ m \notin DOMAIN info => i.mName = NameOf[x]
  BY <1>2, <1>4, <1>6
<1>9. /\ m \in IF NameOf[x] \in DOMAIN gModuleInfoByName
               THEN {gModuleInfoByName[NameOf[x]]}
               ELSE Infos \ DOMAIN info
      /\ gModuleInfoByName' = Emplace(gModuleInfoByName, NameOf[x], m)
      /\ gModuleInfoByKey' =
           Emplace(gModuleInfoByKey, ModuleKey(pid, base), m)
  BY <1>1 DEF EmplaceModule
<1>10. i \in ModuleInfos /\ Filing(m, i, pid, base, x)
  BY <1>4, <1>7, <1>8, <1>9 DEF Filing
<1>11. QED
  BY <1>10 DEF i

LEMMA FileModuleEffect ==
  ASSUME TablesTypeOK, NEW pid \in Pids, NEW base \in Bases,
         NEW x \in Builds, NEW stores, FileModule(pid, base, x, stores)
  PROVE  \E m \in Infos, i \in ModuleInfos : Filing(m, i, pid, base, x)
BY FileModuleContents, Zenon

LEMMA FileModuleType ==
  ASSUME TablesTypeOK, NEW pid \in Pids, NEW base \in Bases,
         NEW x \in Builds, NEW stores, FileModule(pid, base, x, stores)
  PROVE  TablesTypeOK'
<1>1. PICK m \in Infos, i \in ModuleInfos : Filing(m, i, pid, base, x)
  BY FileModuleEffect
<1>2. NameOf[x] \in Names /\ ModuleKey(pid, base) \in Keys
  BY BuildsTyped, ModuleKeyType
<1>3. IsMap(gModuleInfoByName', Names, Infos)
  BY <1>1, <1>2, EmplaceType DEF TablesTypeOK, Filing
<1>4. IsMap(gModuleInfoByKey', Keys, Infos)
  BY <1>1, <1>2, EmplaceType DEF TablesTypeOK, Filing
<1>5. QED
  BY <1>1, <1>3, <1>4 DEF TablesTypeOK, Filing

LEMMA ReferencedType ==
  ASSUME NEW objects, IsMap(objects, Infos, ModuleInfos), NEW byName, NEW byKey
  PROVE  /\ IsMap(Referenced(objects, byName, byKey), Infos, ModuleInfos)
         /\ \A m \in DOMAIN Referenced(objects, byName, byKey) :
              /\ m \in DOMAIN objects
              /\ Referenced(objects, byName, byKey)[m] = objects[m]
         /\ \A n \in DOMAIN byName : byName[n] \in DOMAIN objects =>
              byName[n] \in DOMAIN Referenced(objects, byName, byKey)
         /\ \A k \in DOMAIN byKey : byKey[k] \in DOMAIN objects =>
              byKey[k] \in DOMAIN Referenced(objects, byName, byKey)
BY DEF Referenced, IsMap

LEMMA ForgetModuleType ==
  ASSUME TablesTypeOK, NEW pid, NEW base, ForgetModule(pid, base)
  PROVE  TablesTypeOK'
<1>1. IsMap(gModuleInfoByKey', Keys, Infos)
  BY EraseType DEF TablesTypeOK, ForgetModule
<1>2. IsMap(info', Infos, ModuleInfos)
  BY ReferencedType DEF TablesTypeOK, ForgetModule
<1>3. QED
  BY <1>1, <1>2 DEF TablesTypeOK, ForgetModule

LEMMA ClearModuleInfoType ==
  ASSUME TablesTypeOK, NEW pid, ClearModuleInfoForPid(pid)
  PROVE  TablesTypeOK'
<1>1. IsMap(gModuleInfoByKey', Keys, Infos)
  BY EraseType DEF TablesTypeOK, ClearModuleInfoForPid
<1>2. IsMap(gModuleInfoByName', Names, Infos)
  BY EraseType DEF TablesTypeOK, ClearModuleInfoForPid
<1>3. IsMap(info', Infos, ModuleInfos)
  BY ReferencedType DEF TablesTypeOK, ClearModuleInfoForPid
<1>4. QED
  BY <1>1, <1>2, <1>3 DEF TablesTypeOK

-----------------------------------------------------------------------------
(* Type correctness.                                                       *)

LEMMA EmptyMapType == \A S, T : IsMap(EmptyMap, S, T) /\ DOMAIN EmptyMap = {}
BY DEF IsMap, EmptyMap

LEMMA InitTyped == Init => TypeInv
<1> SUFFICES ASSUME Init PROVE TypeInv
  OBVIOUS
<1>1. EngineTypeOK
  BY EmptyMapType DEF Init, EngineTypeOK
<1>2. TablesTypeOK
  BY EmptyMapType DEF Init, TablesTypeOK
<1>3. CallbacksTypeOK
  <2>1. << >> \in Seq(Listeners)
    OBVIOUS
  <2>2. QED
    BY <2>1, Zenon DEF Init, CallbacksTypeOK
<1>4. TaskOK
  BY DEF Init, TaskOK, Idle
<1>5. QED
  BY <1>1, <1>2, <1>3, <1>4 DEF Init, TypeInv, TypeOK

LEMMA BpLoadTyped ==
  ASSUME TypeInv, NEW path, NEW stores \in BOOLEAN, BpLoad(path, stores)
  PROVE  TypeInv'
<1>1. EngineTypeOK' /\ TablesTypeOK'
  BY DEF BpLoad, TypeInv, TypeOK, EngineTypeOK, TablesTypeOK,
         engineVars, tableVars
<1>2. CallbacksTypeOK'
  BY DEF BpLoad, TypeInv, TypeOK, CallbacksTypeOK, RegisterDetachOnce,
         Register, EngineOutcome
<1>3. CASE UNCHANGED <<gBasePdbPath, task>>
  BY <1>1, <1>2, <1>3 DEF BpLoad, TypeInv, TypeOK, TaskOK, Idle
<1>4. CASE /\ ~LoadRefused(current, path)
           /\ gBasePdbPath' = path
           /\ task' = [kind |-> "command", pid |-> current,
                       stores |-> stores, left |-> DOMAIN image[current]]
  <2>1. current \in DOMAIN image /\ current \in Pids /\ path \in Paths
    BY <1>4 DEF LoadRefused, TypeInv, TypeOK, EngineTypeOK
  <2>2. DOMAIN image[current] \subseteq Bases
    BY <2>1 DEF TypeInv, TypeOK, EngineTypeOK, IsMap
  <2>3. task' \in Commands
    BY <1>4, <2>1, <2>2 DEF Commands
  <2>4. TaskOK'
    BY <1>4, <2>1 DEF TaskOK, BpLoad, engineVars
  <2>5. QED
    BY <1>1, <1>2, <1>4, <2>1, <2>3, <2>4 DEF TypeInv, TypeOK
<1>5. QED
  BY <1>3, <1>4 DEF BpLoad

LEMMA LoadNextModuleTyped ==
  ASSUME TypeInv, LoadNextModule
  PROVE  TypeInv'
<1>1. PICK base \in task.left :
        /\ FileModule(task.pid, base, image[task.pid][base], task.stores)
        /\ task' = [task EXCEPT !.left = @ \ {base}]
  BY DEF LoadNextModule
<1>2. task \in Commands
  BY DEF LoadNextModule, TypeInv, TypeOK, Idle, Dispatches
<1>3. task.pid \in Pids /\ base \in Bases /\ image[task.pid][base] \in Builds
  BY <1>2 DEF TypeInv, TypeOK, EngineTypeOK, TaskOK, LoadNextModule,
              Commands, IsMap
<1>4. TablesTypeOK'
  BY <1>1, <1>3, FileModuleType DEF TypeInv, TypeOK
<1>5. task' \in Commands /\ TaskOK'
  BY <1>1, <1>2 DEF Commands, TaskOK, TypeInv, LoadNextModule, engineVars
<1>6. QED
  BY <1>4, <1>5 DEF LoadNextModule, TypeInv, TypeOK, EngineTypeOK,
                    CallbacksTypeOK, engineVars, callbackVars

LEMMA FinishLoadingTyped ==
  ASSUME TypeInv, FinishLoading
  PROVE  TypeInv'
<1>1. task \in Commands
  BY DEF FinishLoading, TypeInv, TypeOK, Idle, Dispatches
<1>2. [pid |-> task.pid, stores |-> task.stores] \in Listeners
  BY <1>1 DEF Commands, Listeners
<1>3. CallbacksTypeOK'
  <2>1. PICK ok \in BOOLEAN :
          /\ sInstance' = ok
          /\ mModuleEventListeners' =
               IF ok
               THEN Append(mModuleEventListeners,
                           [pid |-> task.pid, stores |-> task.stores])
               ELSE mModuleEventListeners
    BY DEF FinishLoading, Register, EngineOutcome
  <2>2. mModuleEventListeners' \in Seq(Listeners)
    BY <1>2, <2>1 DEF TypeInv, TypeOK, CallbacksTypeOK
  <2>3. QED
    BY <2>1, <2>2 DEF FinishLoading, TypeInv, TypeOK, CallbacksTypeOK
<1>4. TaskOK'
  BY DEF FinishLoading, TaskOK, Idle
<1>5. QED
  BY <1>3, <1>4 DEF FinishLoading, TypeInv, TypeOK, EngineTypeOK,
                    TablesTypeOK, engineVars, tableVars

LEMMA StartProcessTyped ==
  ASSUME TypeInv, NEW p \in Pids, NEW base \in Bases, NEW x \in Exes,
         StartProcess(p, base, x)
  PROVE  TypeInv'
<1> DEFINE modules == Emplace(EmptyMap, base, x)
<1>1. IsMap(modules, Bases, Builds)
  <2>1. x \in Builds /\ IsMap(EmptyMap, Bases, Builds)
    BY EmptyMapType DEF Builds
  <2>2. QED
    BY <2>1, EmplaceType
<1>2. /\ DOMAIN image' = DOMAIN image \cup {p}
      /\ image'[p] = modules
      /\ \A q \in DOMAIN image : image'[q] = image[q]
  BY DEF StartProcess, Emplace
<1> HIDE DEF modules
<1>3. EngineTypeOK'
  BY <1>1, <1>2 DEF StartProcess, TypeInv, TypeOK, EngineTypeOK
<1>4. TaskOK'
  BY DEF StartProcess, TaskOK, Idle
<1>5. QED
  BY <1>3, <1>4 DEF StartProcess, TypeInv, TypeOK, TablesTypeOK,
                    CallbacksTypeOK, tableVars, callbackVars

(* The listener loop at its i-th element, after a load event.              *)
LEMMA AtListenerTyped ==
  ASSUME NEW kind \in {"load", "unload"}, NEW base \in Bases,
         NEW i \in Nat \ {0}
  PROVE  /\ AtListener(kind, base, i) \in {Idle} \cup Dispatches
         /\ AtListener(kind, base, i) # Idle =>
              /\ AtListener(kind, base, i).kind = kind
              /\ AtListener(kind, base, i).base = base
              /\ AtListener(kind, base, i).next = i
              /\ i <= Len(mModuleEventListeners)
BY DEF AtListener, Dispatches

LEMMA ModuleEventTyped ==
  ASSUME TypeInv, NEW kind \in {"load", "unload"}, NEW p \in DOMAIN image,
         NEW base \in Bases, NEW modules, IsMap(modules, Bases, Builds),
         kind = "load" => base \in DOMAIN modules,
         ModuleEvent(kind, p, base, modules)
  PROVE  TypeInv'
<1>1. /\ DOMAIN image' = DOMAIN image
      /\ image'[p] = modules
      /\ \A q \in DOMAIN image : q # p => image'[q] = image[q]
  BY DEF ModuleEvent
<1>2. EngineTypeOK'
  BY <1>1 DEF ModuleEvent, TypeInv, TypeOK, EngineTypeOK
<1>3. /\ task' \in {Idle} \cup Dispatches
      /\ task' # Idle => /\ task'.kind = kind
                        /\ task'.base = base
                        /\ task'.next = 1
                        /\ 1 <= Len(mModuleEventListeners)
  BY AtListenerTyped DEF ModuleEvent
<1>4. TaskOK'
  <2>1. CASE task' = Idle
    BY <2>1 DEF TaskOK, Idle
  <2>2. CASE task' # Idle
    BY <1>1, <1>3, <2>2
    DEF ModuleEvent, TaskOK, callbackVars, TypeInv, TypeOK, CallbacksTypeOK
  <2>3. QED
    BY <2>1, <2>2
<1>5. QED
  BY <1>2, <1>3, <1>4 DEF ModuleEvent, TypeInv, TypeOK, TablesTypeOK,
                          CallbacksTypeOK, tableVars, callbackVars

LEMMA LoadModuleTyped ==
  ASSUME TypeInv, NEW p \in Pids, NEW base \in Bases, NEW x \in Dlls,
         LoadModule(p, base, x)
  PROVE  TypeInv'
<1>1. /\ p \in DOMAIN image
      /\ x \in Builds
      /\ IsMap(image[p], Bases, Builds)
  BY DEF LoadModule, Builds, TypeInv, TypeOK, EngineTypeOK
<1>2. IsMap(Emplace(image[p], base, x), Bases, Builds)
  BY <1>1, EmplaceType
<1>3. base \in DOMAIN Emplace(image[p], base, x)
  BY DEF Emplace
<1>4. ModuleEvent("load", p, base, Emplace(image[p], base, x))
  BY DEF LoadModule
<1>5. QED
  BY <1>1, <1>2, <1>3, <1>4, ModuleEventTyped

LEMMA UnloadModuleTyped ==
  ASSUME TypeInv, NEW p \in Pids, NEW base \in Bases, UnloadModule(p, base)
  PROVE  TypeInv'
<1>1. p \in DOMAIN image /\ IsMap(image[p], Bases, Builds)
  BY DEF UnloadModule, TypeInv, TypeOK, EngineTypeOK
<1>2. IsMap(Erase(image[p], {base}), Bases, Builds)
  BY <1>1, EraseType
<1>3. ModuleEvent("unload", p, base, Erase(image[p], {base}))
  BY DEF UnloadModule
<1>4. QED
  BY <1>1, <1>2, <1>3, ModuleEventTyped

LEMMA RunListenerTyped ==
  ASSUME TypeInv, RunListener
  PROVE  TypeInv'
<1> DEFINE l == mModuleEventListeners[task.next]
<1>1. /\ task \in Dispatches
      /\ task.kind \in {"load", "unload"}
      /\ task.base \in Bases
      /\ task.next \in Nat \ {0}
  BY DEF RunListener, TypeInv, TypeOK, Idle, Commands, Dispatches
<1>2. l \in Listeners /\ l.pid \in Pids
  <2>1. /\ mModuleEventListeners \in Seq(Listeners)
        /\ task.next \in 1 .. Len(mModuleEventListeners)
    BY <1>1 DEF TypeInv, TypeOK, CallbacksTypeOK, TaskOK
  <2>2. l \in Listeners
    BY <2>1
  <2>3. QED
    BY <2>2 DEF Listeners
<1>3. TablesTypeOK'
  <2>1. CASE ForgetModule(l.pid, task.base)
    BY <2>1, ForgetModuleType DEF TypeInv, TypeOK
  <2>2. CASE /\ task.kind = "load"
             /\ FileModule(l.pid, task.base, image[current][task.base],
                           l.stores)
    <3>1. image[current][task.base] \in Builds
      BY <2>2 DEF TypeInv, TypeOK, TaskOK, EngineTypeOK, IsMap
    <3>2. QED
      BY <1>1, <1>2, <2>2, <3>1, FileModuleType DEF TypeInv, TypeOK
  <2>3. CASE UNCHANGED tableVars
    BY <2>3 DEF tableVars, TypeInv, TypeOK, TablesTypeOK
  <2>4. QED
    BY <2>1, <2>2, <2>3 DEF RunListener
<1>4. /\ task.next + 1 \in Nat \ {0}
      /\ task' = AtListener(task.kind, task.base, task.next + 1)
  BY <1>1 DEF RunListener
<1>5. /\ task' \in {Idle} \cup Dispatches
      /\ task' # Idle => /\ task'.kind = task.kind
                        /\ task'.base = task.base
                        /\ task'.next = task.next + 1
                        /\ task.next + 1 <= Len(mModuleEventListeners)
  BY <1>1, <1>4, AtListenerTyped
<1>6. TaskOK'
  <2>1. CASE task' = Idle
    BY <2>1 DEF TaskOK, Idle
  <2>2. CASE task' # Idle
    <3>1. Len(mModuleEventListeners) \in Nat
      BY DEF TypeInv, TypeOK, CallbacksTypeOK
    <3>2. QED
      BY <1>1, <1>5, <2>2, <3>1
      DEF RunListener, TaskOK, TypeInv, callbackVars, engineVars
  <2>3. QED
    BY <2>1, <2>2
<1>7. QED
  BY <1>3, <1>5, <1>6 DEF RunListener, TypeInv, TypeOK, EngineTypeOK,
                          CallbacksTypeOK, engineVars, callbackVars

LEMMA NotifyDetachTyped ==
  ASSUME TypeInv, NEW pid, NotifyDetach(pid)
  PROVE  TablesTypeOK'
<1>1. CASE ClearModuleInfoForPid(pid)
  BY <1>1, ClearModuleInfoType DEF TypeInv, TypeOK
<1>2. CASE UNCHANGED tableVars
  BY <1>2 DEF tableVars, TypeInv, TypeOK, TablesTypeOK
<1>3. QED
  BY <1>1, <1>2 DEF NotifyDetach

LEMMA ExitProcessTyped ==
  ASSUME TypeInv, NEW p \in Pids, ExitProcess(p)
  PROVE  TypeInv'
<1>1. /\ DOMAIN image' = DOMAIN image \ {p}
      /\ \A q \in DOMAIN image' : image'[q] = image[q]
  BY DEF ExitProcess, Erase
<1>2. EngineTypeOK'
  BY <1>1 DEF ExitProcess, TypeInv, TypeOK, EngineTypeOK
<1>3. TablesTypeOK'
  BY NotifyDetachTyped DEF ExitProcess
<1>4. TaskOK'
  BY DEF ExitProcess, TaskOK, Idle
<1>5. QED
  BY <1>2, <1>3, <1>4 DEF ExitProcess, TypeInv, TypeOK, CallbacksTypeOK,
                          callbackVars

LEMMA EndSessionTyped ==
  ASSUME TypeInv, EndSession
  PROVE  TypeInv'
<1>1. EngineTypeOK'
  BY EmptyMapType DEF EndSession, TypeInv, TypeOK, EngineTypeOK
<1>2. TablesTypeOK'
  BY NotifyDetachTyped DEF EndSession
<1>3. TaskOK'
  BY DEF EndSession, TaskOK, Idle
<1>4. QED
  BY <1>1, <1>2, <1>3 DEF EndSession, TypeInv, TypeOK, CallbacksTypeOK,
                          callbackVars

LEMMA StepTyped ==
  ASSUME TypeInv, [Next]_vars
  PROVE  TypeInv'
<1>1. CASE LoadNextModule
  BY <1>1, LoadNextModuleTyped
<1>2. CASE AbandonLoading
  BY <1>2 DEF AbandonLoading, TypeInv, TypeOK, EngineTypeOK, TablesTypeOK,
              CallbacksTypeOK, TaskOK, Idle, engineVars, tableVars, callbackVars
<1>3. CASE FinishLoading
  BY <1>3, FinishLoadingTyped
<1>4. CASE RunListener
  BY <1>4, RunListenerTyped
<1>5. ASSUME NEW path \in Paths \cup {Null}, NEW stores \in Loads,
             BpLoad(path, stores)
      PROVE  TypeInv'
  <2>1. stores \in BOOLEAN
    BY CacheAssumption
  <2>2. QED
    BY <1>5, <2>1, BpLoadTyped
<1>6. ASSUME NEW p \in Pids, NEW base \in Bases, NEW x \in Exes,
             StartProcess(p, base, x)
      PROVE  TypeInv'
  BY <1>6, StartProcessTyped
<1>7. ASSUME NEW p \in Pids, NEW base \in Bases, NEW x \in Dlls,
             LoadModule(p, base, x)
      PROVE  TypeInv'
  BY <1>7, LoadModuleTyped
<1>8. ASSUME NEW p \in Pids, NEW base \in Bases, UnloadModule(p, base)
      PROVE  TypeInv'
  BY <1>8, UnloadModuleTyped
<1>9. ASSUME NEW p \in Pids, ExitProcess(p)
      PROVE  TypeInv'
  BY <1>9, ExitProcessTyped
<1>10. ASSUME NEW p \in Pids, SwitchProcess(p)
       PROVE  TypeInv'
  BY <1>10 DEF SwitchProcess, TypeInv, TypeOK, EngineTypeOK, TablesTypeOK,
               CallbacksTypeOK, TaskOK, Idle, tableVars, callbackVars
<1>11. CASE EndSession
  BY <1>11, EndSessionTyped
<1>12. CASE UNCHANGED vars
  BY <1>12 DEF vars, TypeInv, TypeOK, EngineTypeOK, TablesTypeOK,
               CallbacksTypeOK, TaskOK, engineVars, tableVars, callbackVars
<1>13. QED
  BY <1>1, <1>2, <1>3, <1>4, <1>5, <1>6, <1>7, <1>8, <1>9, <1>10, <1>11,
     <1>12 DEF Next, Proceed

(* The tables, the listeners and the task have their types in every state, *)
(* whatever the engine reports and in whatever order: the loops never      *)
(* reach for a module or a listener that is not there.                     *)
THEOREM TypeCorrect == Spec => []TypeOK
<1>1. Spec => []TypeInv
  BY InitTyped, StepTyped, PTL DEF Spec
<1>2. TypeInv => TypeOK
  BY DEF TypeInv
<1>3. QED
  BY <1>1, <1>2, PTL

-----------------------------------------------------------------------------
(* The tables agree with each other.                                       *)

(* Every name leads to a live object of that name.                         *)
NamesOwn ==
  \A n \in DOMAIN gModuleInfoByName :
    /\ gModuleInfoByName[n] \in DOMAIN info
    /\ info[gModuleInfoByName[n]].mName = n

(* KeyedIsNamed is not inductive by itself: a key shares the object that   *)
(* the name leads to, which has to be alive and of that name.              *)
TableInv == NamesOwn /\ KeyedIsNamed

LEMMA FileModuleKeeps ==
  ASSUME TablesTypeOK, TableInv, NEW pid \in Pids, NEW base \in Bases,
         NEW x \in Builds, NEW stores, FileModule(pid, base, x, stores)
  PROVE  TableInv' /\ KeepSymbols /\ ForgetForCause
<1> DEFINE name == NameOf[x]
           key == ModuleKey(pid, base)
<1>1. PICK m \in Infos, i \in ModuleInfos : Filing(m, i, pid, base, x)
  BY FileModuleEffect
<1>2. /\ DOMAIN gModuleInfoByName' = DOMAIN gModuleInfoByName \cup {name}
      /\ \A n \in DOMAIN gModuleInfoByName :
           gModuleInfoByName'[n] = gModuleInfoByName[n]
      /\ gModuleInfoByName'[name] = m
  BY <1>1 DEF Filing, Emplace
<1>3. /\ DOMAIN gModuleInfoByKey' = DOMAIN gModuleInfoByKey \cup {key}
      /\ \A k \in DOMAIN gModuleInfoByKey :
           gModuleInfoByKey'[k] = gModuleInfoByKey[k]
      /\ key \notin DOMAIN gModuleInfoByKey => gModuleInfoByKey'[key] = m
  BY <1>1 DEF Filing, Emplace
<1> HIDE DEF key
<1>4. /\ DOMAIN info' = DOMAIN info \cup {m}
      /\ info'[m].mName = name
      /\ \A n \in DOMAIN info : /\ info'[n].mName = info[n].mName
                               /\ info[n].mSyms \in {Null, info'[n].mSyms}
  <2>1. m \in DOMAIN info => info[m].mName = name
    BY <1>1 DEF Filing, TableInv, NamesOwn
  <2>2. QED
    BY <1>1, <2>1 DEF Filing
<1>5. NamesOwn'
  BY <1>2, <1>4 DEF TableInv, NamesOwn
<1>6. KeyedIsNamed'
  BY <1>2, <1>3, <1>4 DEF TableInv, KeyedIsNamed
<1>7. KeepSymbols
  BY <1>3, <1>4 DEF TableInv, KeyedIsNamed, KeepSymbols
<1>8. ForgetForCause
  BY <1>3 DEF ForgetForCause
<1>9. QED
  BY <1>5, <1>6, <1>7, <1>8 DEF TableInv

LEMMA ForgetModuleKeeps ==
  ASSUME TablesTypeOK, TableInv, NEW pid \in Pids, NEW base \in Bases,
         ForgetModule(pid, base)
  PROVE  /\ TableInv' /\ KeepSymbols
         /\ \A k \in DOMAIN gModuleInfoByKey \ DOMAIN gModuleInfoByKey' :
              k.mBase = base
<1>1. /\ DOMAIN gModuleInfoByKey' =
           DOMAIN gModuleInfoByKey \ {ModuleKey(pid, base)}
      /\ \A k \in DOMAIN gModuleInfoByKey' :
           gModuleInfoByKey'[k] = gModuleInfoByKey[k]
  BY DEF ForgetModule, Erase
<1>2. /\ gModuleInfoByName' = gModuleInfoByName
      /\ info' = Referenced(info, gModuleInfoByName, gModuleInfoByKey')
  BY DEF ForgetModule
<1>3. /\ \A m \in DOMAIN info' : m \in DOMAIN info /\ info'[m] = info[m]
      /\ \A n \in DOMAIN gModuleInfoByName :
           gModuleInfoByName[n] \in DOMAIN info =>
             gModuleInfoByName[n] \in DOMAIN info'
      /\ \A k \in DOMAIN gModuleInfoByKey' :
           gModuleInfoByKey'[k] \in DOMAIN info =>
             gModuleInfoByKey'[k] \in DOMAIN info'
  BY <1>2, ReferencedType DEF TablesTypeOK
<1>4. NamesOwn'
  BY <1>2, <1>3 DEF TableInv, NamesOwn
<1>5. KeyedIsNamed'
  BY <1>1, <1>2, <1>3 DEF TableInv, KeyedIsNamed
<1>6. KeepSymbols
  BY <1>1, <1>3 DEF TableInv, KeyedIsNamed, KeepSymbols
<1>7. ModuleKey(pid, base).mBase = base
  BY ModuleKeyType
<1>8. QED
  BY <1>1, <1>4, <1>5, <1>6, <1>7 DEF TableInv

(* use_count() == 2 in ClearModuleInfoForPid: when an erased key and the   *)
(* name led to the object, no other key does.                              *)
LEMMA UseCountIsTwo ==
  ASSUME TablesTypeOK, TableInv, NEW k \in DOMAIN gModuleInfoByKey,
         UseCount(gModuleInfoByKey[k]) = 2,
         NEW l \in DOMAIN gModuleInfoByKey,
         gModuleInfoByKey[l] = gModuleInfoByKey[k]
  PROVE  l = k
<1> DEFINE m == gModuleInfoByKey[k]
<1>1. IsFiniteSet(KeysOf(m)) /\ IsFiniteSet(NamesOf(m))
  <2>1. KeysOf(m) \in SUBSET Keys /\ NamesOf(m) \in SUBSET Names
    BY DEF KeysOf, NamesOf, TablesTypeOK, IsMap
  <2>2. IsFiniteSet(Keys) /\ IsFiniteSet(Names)
    BY KeysFinite, CacheAssumption
  <2>3. QED
    BY <2>1, <2>2, FS_Subset
<1>2. NamesOf(m) # {}
  BY DEF NamesOf, TableInv, KeyedIsNamed
<1>3. {k, l} \in SUBSET KeysOf(m)
  BY DEF KeysOf
<1>4. Cardinality(NamesOf(m)) \in Nat /\ Cardinality(NamesOf(m)) # 0
  BY <1>1, <1>2, FS_CardinalityType, FS_EmptySet
<1>5. Cardinality({k, l}) <= Cardinality(KeysOf(m))
  BY <1>1, <1>3, FS_Subset
<1>6. l # k => Cardinality({k, l}) = 2
  <2>1. IsFiniteSet({k}) /\ Cardinality({k}) = 1
    BY FS_Singleton
  <2>2. {k, l} = {k} \cup {l}
    OBVIOUS
  <2>3. QED
    BY <2>1, <2>2, FS_AddElement
<1>7. Cardinality(KeysOf(m)) \in Nat
  BY <1>1, FS_CardinalityType
<1>8. Cardinality(NamesOf(m)) + Cardinality(KeysOf(m)) = 2
  BY DEF UseCount
<1> HIDE DEF m
<1>9. QED
  BY <1>4, <1>5, <1>6, <1>7, <1>8

LEMMA ClearModuleInfoKeeps ==
  ASSUME TablesTypeOK, TableInv, NEW pid \in Pids, ClearModuleInfoForPid(pid)
  PROVE  /\ TableInv' /\ KeepSymbols
         /\ \A k \in DOMAIN gModuleInfoByKey \ DOMAIN gModuleInfoByKey' :
              k.mPid = pid
         /\ \A k \in DOMAIN gModuleInfoByKey' : k.mPid # pid
<1> DEFINE range == PidRange(DOMAIN gModuleInfoByKey, pid)
           unused == {m \in {gModuleInfoByKey[k] : k \in range} :
                        UseCount(m) = 2}
           dropped == {info[m].mName : m \in unused}
<1>1. range = {k \in DOMAIN gModuleInfoByKey : k.mPid = pid}
  <2>1. DOMAIN gModuleInfoByKey \in SUBSET Keys
    BY DEF TablesTypeOK, IsMap
  <2>2. QED
    BY <2>1, PidRangeIsPid
<1>2. /\ gModuleInfoByKey' = Erase(gModuleInfoByKey, range)
      /\ gModuleInfoByName' = Erase(gModuleInfoByName, dropped)
      /\ info' = Referenced(info, gModuleInfoByName', gModuleInfoByKey')
  BY DEF ClearModuleInfoForPid
<1>3. \A n \in dropped : \E k \in range :
        /\ UseCount(gModuleInfoByKey[k]) = 2
        /\ n = info[gModuleInfoByKey[k]].mName
  OBVIOUS
<1> HIDE DEF range, dropped
<1>4. /\ DOMAIN gModuleInfoByKey' = DOMAIN gModuleInfoByKey \ range
      /\ \A k \in DOMAIN gModuleInfoByKey' :
           gModuleInfoByKey'[k] = gModuleInfoByKey[k]
  BY <1>2 DEF Erase
<1>5. /\ DOMAIN gModuleInfoByName' = DOMAIN gModuleInfoByName \ dropped
      /\ \A n \in DOMAIN gModuleInfoByName' :
           gModuleInfoByName'[n] = gModuleInfoByName[n]
  BY <1>2 DEF Erase
<1>6. /\ \A m \in DOMAIN info' : m \in DOMAIN info /\ info'[m] = info[m]
      /\ \A n \in DOMAIN gModuleInfoByName' :
           gModuleInfoByName'[n] \in DOMAIN info =>
             gModuleInfoByName'[n] \in DOMAIN info'
      /\ \A k \in DOMAIN gModuleInfoByKey' :
           gModuleInfoByKey'[k] \in DOMAIN info =>
             gModuleInfoByKey'[k] \in DOMAIN info'
  BY <1>2, ReferencedType DEF TablesTypeOK
<1>7. NamesOwn'
  BY <1>5, <1>6 DEF TableInv, NamesOwn
<1>8. KeyedIsNamed'
  <2> SUFFICES ASSUME NEW l \in DOMAIN gModuleInfoByKey'
               PROVE  /\ gModuleInfoByKey[l] \in DOMAIN info
                      /\ info[gModuleInfoByKey[l]].mName
                           \in DOMAIN gModuleInfoByName \ dropped
                      /\ gModuleInfoByName[info[gModuleInfoByKey[l]].mName]
                           = gModuleInfoByKey[l]
    BY <1>4, <1>5, <1>6 DEF KeyedIsNamed
  <2>1. /\ l \in DOMAIN gModuleInfoByKey \ range
        /\ gModuleInfoByKey[l] \in DOMAIN info
        /\ info[gModuleInfoByKey[l]].mName \in DOMAIN gModuleInfoByName
        /\ gModuleInfoByName[info[gModuleInfoByKey[l]].mName]
             = gModuleInfoByKey[l]
    BY <1>4 DEF TableInv, KeyedIsNamed
  <2>2. ASSUME info[gModuleInfoByKey[l]].mName \in dropped
        PROVE  FALSE
    <3>1. PICK k \in range :
            /\ UseCount(gModuleInfoByKey[k]) = 2
            /\ info[gModuleInfoByKey[l]].mName = info[gModuleInfoByKey[k]].mName
      BY <1>3, <2>2
    <3>2. k \in DOMAIN gModuleInfoByKey
      BY <1>1
    <3>3. gModuleInfoByKey[l] = gModuleInfoByKey[k]
      BY <2>1, <3>1, <3>2 DEF TableInv, KeyedIsNamed
    <3>4. l = k
      BY <2>1, <3>1, <3>2, <3>3, UseCountIsTwo
    <3>5. QED
      BY <2>1, <3>4
  <2>3. QED
    BY <2>1, <2>2
<1>9. KeepSymbols
  BY <1>4, <1>6 DEF TableInv, KeyedIsNamed, KeepSymbols
<1>10. QED
  BY <1>1, <1>4, <1>7, <1>8, <1>9 DEF TableInv

-----------------------------------------------------------------------------
(* The steps.                                                              *)

(* GetEventProcess has an answer once a process has started.               *)
EventOK == eventPid = Null => DOMAIN image = {}

IInv == TypeInv /\ EventOK /\ TableInv

(* What a step does for the tables.                                        *)
StepOK == TableInv' /\ KeepSymbols /\ ForgetForCause

LEMMA TablesUnchanged ==
  ASSUME IInv, UNCHANGED tableVars
  PROVE  StepOK
<1>1. TableInv'
  BY DEF IInv, TableInv, NamesOwn, KeyedIsNamed, tableVars
<1>2. KeepSymbols
  BY DEF IInv, TableInv, KeyedIsNamed, KeepSymbols, tableVars
<1>3. ForgetForCause
  BY DEF ForgetForCause, tableVars
<1>4. QED
  BY <1>1, <1>2, <1>3 DEF StepOK

LEMMA LoadNextModuleStep ==
  ASSUME IInv, LoadNextModule
  PROVE  StepOK
<1>1. PICK base \in task.left :
        FileModule(task.pid, base, image[task.pid][base], task.stores)
  BY DEF LoadNextModule
<1>2. task \in Commands
  BY DEF LoadNextModule, IInv, TypeInv, TypeOK, Idle, Dispatches
<1>3. task.pid \in Pids /\ base \in Bases /\ image[task.pid][base] \in Builds
  BY <1>2 DEF IInv, TypeInv, TypeOK, EngineTypeOK, TaskOK, LoadNextModule,
              Commands, IsMap
<1>4. QED
  BY <1>1, <1>3, FileModuleKeeps DEF IInv, TypeInv, TypeOK, StepOK

LEMMA RunListenerStep ==
  ASSUME IInv, RunListener
  PROVE  StepOK
<1> DEFINE l == mModuleEventListeners[task.next]
<1>1. /\ task \in Dispatches
      /\ task.kind \in {"load", "unload"}
      /\ task.base \in Bases
      /\ task.next \in Nat \ {0}
  BY DEF RunListener, IInv, TypeInv, TypeOK, Idle, Commands, Dispatches
<1>2. l.pid \in Pids
  <2>1. /\ mModuleEventListeners \in Seq(Listeners)
        /\ task.next \in 1 .. Len(mModuleEventListeners)
    BY <1>1 DEF IInv, TypeInv, TypeOK, CallbacksTypeOK, TaskOK
  <2>2. l \in Listeners
    BY <2>1
  <2>3. QED
    BY <2>2 DEF Listeners
<1>3. CASE task.kind = "unload" /\ ForgetModule(l.pid, task.base)
  <2>1. /\ TableInv' /\ KeepSymbols
        /\ \A k \in DOMAIN gModuleInfoByKey \ DOMAIN gModuleInfoByKey' :
             k.mBase = task.base
    BY <1>1, <1>2, <1>3, ForgetModuleKeeps DEF IInv, TypeInv, TypeOK
  <2>2. QED
    BY <1>3, <2>1 DEF StepOK, ForgetForCause
<1>4. CASE /\ task.kind = "load"
           /\ FileModule(l.pid, task.base, image[current][task.base], l.stores)
  <2>1. image[current][task.base] \in Builds
    BY <1>4 DEF IInv, TypeInv, TypeOK, TaskOK, EngineTypeOK, IsMap
  <2>2. QED
    BY <1>1, <1>2, <1>4, <2>1, FileModuleKeeps
    DEF IInv, TypeInv, TypeOK, StepOK
<1>5. CASE UNCHANGED tableVars
  BY <1>5, TablesUnchanged
<1>6. QED
  BY <1>3, <1>4, <1>5 DEF RunListener

(* ExitProcess and EndSession, where pid is the process of the event.      *)
LEMMA NotifyDetachStep ==
  ASSUME IInv, NEW pid \in Pids, NotifyDetach(pid),
         task = Idle, image' # image, eventPid' = pid
  PROVE  /\ StepOK
         /\ kRegdPidUnload = TRUE /\ ~EngineFails =>
              \A k \in DOMAIN gModuleInfoByKey' : k.mPid # pid
<1>1. CASE ClearModuleInfoForPid(pid)
  <2>1. /\ TableInv' /\ KeepSymbols
        /\ \A k \in DOMAIN gModuleInfoByKey \ DOMAIN gModuleInfoByKey' :
             k.mPid = pid
        /\ \A k \in DOMAIN gModuleInfoByKey' : k.mPid # pid
    BY <1>1, ClearModuleInfoKeeps DEF IInv, TypeInv, TypeOK
  <2>2. QED
    BY <2>1 DEF StepOK, ForgetForCause
<1>2. CASE /\ kRegdPidUnload # TRUE \/ EngineFails
           /\ UNCHANGED tableVars
  BY <1>2, TablesUnchanged
<1>3. QED
  BY <1>1, <1>2 DEF NotifyDetach

LEMMA DetachStep ==
  ASSUME IInv, \/ \E p \in Pids : ExitProcess(p)
               \/ EndSession
  PROVE  StepOK /\ ForgetDetached
<1>1. ASSUME NEW p \in Pids, ExitProcess(p)
      PROVE  StepOK /\ ForgetDetached
  <2>1. DOMAIN image' = DOMAIN image \ {p} /\ image' # image
    BY <1>1 DEF ExitProcess, Erase
  <2>2. NotifyDetach(p) /\ task = Idle /\ eventPid' = p
    BY <1>1 DEF ExitProcess
  <2>3. /\ StepOK
        /\ kRegdPidUnload = TRUE /\ ~EngineFails =>
             \A k \in DOMAIN gModuleInfoByKey' : k.mPid # p
    BY <2>1, <2>2, NotifyDetachStep
  <2>4. QED
    BY <2>2, <2>3 DEF ForgetDetached
<1>2. CASE EndSession
  <2>1. DOMAIN image # {} /\ DOMAIN image' = {} /\ image' # image
    BY <1>2, EmptyMapType DEF EndSession
  <2>2. eventPid \in Pids
    BY <2>1 DEF IInv, EventOK, TypeInv, TypeOK, EngineTypeOK
  <2>3. NotifyDetach(eventPid) /\ task = Idle /\ eventPid' = eventPid
    BY <1>2 DEF EndSession
  <2>4. /\ StepOK
        /\ kRegdPidUnload = TRUE /\ ~EngineFails =>
             \A k \in DOMAIN gModuleInfoByKey' : k.mPid # eventPid
    BY <2>1, <2>2, <2>3, NotifyDetachStep
  <2>5. QED
    BY <2>3, <2>4 DEF ForgetDetached
<1>3. QED
  BY <1>1, <1>2

LEMMA StepKeeps ==
  ASSUME IInv, Next
  PROVE  StepOK /\ ForgetDetached /\ EventOK'
<1>1. CASE \/ \E p \in Pids : ExitProcess(p)
           \/ EndSession
  <2>1. EventOK'
    BY <1>1, CacheAssumption, EmptyMapType
    DEF ExitProcess, EndSession, IInv, EventOK
  <2>2. QED
    BY <1>1, <2>1, DetachStep
<1>2. ASSUME NEW p \in Pids, NEW base \in Bases,
             \/ \E x \in Exes : StartProcess(p, base, x)
             \/ \E x \in Dlls : LoadModule(p, base, x)
             \/ UnloadModule(p, base)
      PROVE  StepOK /\ ForgetDetached /\ EventOK'
  <2>1. UNCHANGED tableVars /\ eventPid' = p
    BY <1>2 DEF StartProcess, LoadModule, UnloadModule, ModuleEvent
  <2>2. DOMAIN image \subseteq DOMAIN image'
    BY <1>2 DEF StartProcess, LoadModule, UnloadModule, ModuleEvent, Emplace
  <2>3. QED
    BY <2>1, <2>2, TablesUnchanged, CacheAssumption
    DEF ForgetDetached, EventOK
<1>3. CASE \/ Proceed
           \/ \E path \in Paths \cup {Null}, stores \in Loads :
                BpLoad(path, stores)
           \/ \E p \in Pids : SwitchProcess(p)
  <2>1. image' = image /\ eventPid' = eventPid
    BY <1>3 DEF Proceed, LoadNextModule, AbandonLoading, FinishLoading,
                RunListener, BpLoad, SwitchProcess, engineVars
  <2>2. \/ LoadNextModule
        \/ RunListener
        \/ UNCHANGED tableVars
    BY <1>3 DEF Proceed, AbandonLoading, FinishLoading, BpLoad, SwitchProcess
  <2>3. StepOK
    BY <2>2, LoadNextModuleStep, RunListenerStep, TablesUnchanged
  <2>4. QED
    BY <2>1, <2>3 DEF ForgetDetached, EventOK, IInv
<1>4. QED
  BY <1>1, <1>2, <1>3 DEF Next

LEMMA Inductive ==
  /\ Init => IInv
  /\ IInv /\ [Next]_vars => IInv'
<1>1. Init => IInv
  BY InitTyped, EmptyMapType
  DEF Init, IInv, EventOK, TableInv, NamesOwn, KeyedIsNamed
<1>2. ASSUME IInv, [Next]_vars
      PROVE  IInv'
  <2>1. TypeInv'
    BY <1>2, StepTyped DEF IInv
  <2>2. EventOK' /\ TableInv'
    <3>1. CASE Next
      BY <1>2, <3>1, StepKeeps DEF StepOK
    <3>2. CASE UNCHANGED vars
      BY <1>2, <3>2, TablesUnchanged
      DEF vars, engineVars, IInv, EventOK, StepOK
    <3>3. QED
      BY <1>2, <3>1, <3>2
  <2>3. QED
    BY <2>1, <2>2 DEF IInv
<1>3. QED
  BY <1>1, <1>2

(* Every module a process has filed is the one its name leads to: objects  *)
(* shared between processes by EmplaceModule and dropped by the reference  *)
(* count of ClearModuleInfoForPid never leave a key whose name is gone, in *)
(* any number of processes and modules.                                    *)
THEOREM KeyedAlwaysNamed == Spec => []KeyedIsNamed
<1>1. Spec => []IInv
  BY Inductive, PTL DEF Spec
<1>2. IInv => KeyedIsNamed
  BY DEF IInv, TableInv
<1>3. QED
  BY <1>1, <1>2, PTL

(* No step of any process takes the object or the symbols away from a      *)
(* module that stays filed.                                                *)
THEOREM SymbolsKept == Spec => FiledKeepsSymbols
<1>1. IInv /\ [Next]_vars => [KeepSymbols]_vars
  BY StepKeeps DEF StepOK
<1>2. QED
  BY Inductive, <1>1, PTL DEF Spec, FiledKeepsSymbols

(* Modules go only with an unload event at their base or with their own    *)
(* process.                                                                *)
THEOREM ForgottenOnlyForCause == Spec => ForgottenForCause
<1>1. IInv /\ [Next]_vars => [ForgetForCause]_vars
  BY StepKeeps DEF StepOK
<1>2. QED
  BY Inductive, <1>1, PTL DEF Spec, ForgottenForCause

(* A process whose detach the extension is told of leaves nothing filed.   *)
THEOREM DetachedForgotten == Spec => DetachForgets
<1>1. IInv /\ [Next]_vars => [ForgetDetached]_vars
  BY StepKeeps
<1>2. QED
  BY Inductive, <1>1, PTL DEF Spec, DetachForgets

-----------------------------------------------------------------------------
(* The use of ListenerService.                                             *)

LEMMA BpLoadInService ==
  ASSUME TypeInv, NEW path, NEW stores \in BOOLEAN, BpLoad(path, stores)
  PROVE  Service!Next \/ UNCHANGED Service!vars
<1>1. mModuleEventListeners' = mModuleEventListeners
  BY DEF BpLoad
<1>2. CASE UNCHANGED <<sInstance, kRegdPidUnload>>
  BY <1>1, <1>2 DEF Service!vars
<1>3. ASSUME NEW ok \in BOOLEAN, kRegdPidUnload = Null,
             Register(ok), kRegdPidUnload' = ok
      PROVE  Service!Next \/ UNCHANGED Service!vars
  <2>1. CASE ok = TRUE
    <3>1. Service!RegisterProcessDetachListener("ClearModuleInfoForPid")
      <4>1. kRegdPidUnload # TRUE
        BY <1>3, CacheAssumption
      <4>2. sInstance' = TRUE /\ kRegdPidUnload' = TRUE
        BY <1>3, <2>1 DEF Register
      <4>3. Append(<< >>, "ClearModuleInfoForPid") = <<"ClearModuleInfoForPid">>
        OBVIOUS
      <4>4. QED
        BY <1>1, <4>1, <4>2, <4>3, Zenon
        DEF Service!RegisterProcessDetachListener
    <3>2. QED
      BY <3>1 DEF Service!Next
  <2>2. CASE ok = FALSE
    <3>1. sInstance = FALSE /\ sInstance' = FALSE
      BY <1>3, <2>2 DEF Register, TypeInv, TypeOK, CallbacksTypeOK
    <3>2. kRegdPidUnload # TRUE /\ kRegdPidUnload' # TRUE
      BY <1>3, <2>2, CacheAssumption
    <3>3. QED
      BY <1>1, <3>1, <3>2 DEF Service!vars
  <2>3. QED
    BY <2>1, <2>2
<1>4. \/ UNCHANGED <<sInstance, kRegdPidUnload>>
      \/ /\ kRegdPidUnload = Null
         /\ \E ok \in BOOLEAN : Register(ok) /\ kRegdPidUnload' = ok
  BY DEF BpLoad, RegisterDetachOnce, EngineOutcome
<1>5. QED
  BY <1>2, <1>3, <1>4

LEMMA FinishLoadingInService ==
  ASSUME TypeInv, FinishLoading
  PROVE  Service!Next \/ UNCHANGED Service!vars
<1> DEFINE l == [pid |-> task.pid, stores |-> task.stores]
<1>1. task \in Commands
  BY DEF FinishLoading, TypeInv, TypeOK, Idle, Dispatches
<1>2. l \in Listeners
  BY <1>1 DEF Commands, Listeners
<1>3. PICK ok \in BOOLEAN :
        /\ Register(ok)
        /\ mModuleEventListeners' = IF ok THEN Append(mModuleEventListeners, l)
                                         ELSE mModuleEventListeners
  BY DEF FinishLoading, EngineOutcome
<1>4. kRegdPidUnload' = kRegdPidUnload
  BY DEF FinishLoading
<1>5. CASE ok = TRUE
  <2>1. Service!RegisterModuleEventListener(l)
    BY <1>3, <1>4, <1>5 DEF Register, Service!RegisterModuleEventListener
  <2>2. QED
    BY <1>2, <2>1 DEF Service!Next
<1>6. CASE ok = FALSE
  <2>1. sInstance = FALSE /\ sInstance' = FALSE
    BY <1>3, <1>6 DEF Register, TypeInv, TypeOK, CallbacksTypeOK
  <2>2. QED
    BY <1>3, <1>4, <1>6, <2>1 DEF Service!vars
<1>7. QED
  BY <1>5, <1>6

LEMMA StepInService == TypeInv /\ [Next]_vars => [Service!Next]_(Service!vars)
<1> SUFFICES ASSUME TypeInv, [Next]_vars
             PROVE  Service!Next \/ UNCHANGED Service!vars
  OBVIOUS
<1>1. CASE UNCHANGED callbackVars
  BY <1>1 DEF callbackVars, Service!vars
<1>2. ASSUME NEW path, NEW stores \in Loads, BpLoad(path, stores)
      PROVE  Service!Next \/ UNCHANGED Service!vars
  <2>1. stores \in BOOLEAN
    BY CacheAssumption
  <2>2. QED
    BY <1>2, <2>1, BpLoadInService
<1>3. CASE FinishLoading
  BY <1>3, FinishLoadingInService
<1>4. \/ UNCHANGED callbackVars
      \/ \E path \in Paths \cup {Null}, stores \in Loads : BpLoad(path, stores)
      \/ FinishLoading
  BY DEF Next, Proceed, LoadNextModule, AbandonLoading, RunListener,
         StartProcess, LoadModule, UnloadModule, ModuleEvent, ExitProcess,
         SwitchProcess, EndSession, vars, callbackVars
<1>5. QED
  BY <1>1, <1>2, <1>3, <1>4

(* What the cache does with its listeners is what ListenerService offers,  *)
(* and EventCallbacks implements: no listener is counted on that the       *)
(* engine refused, and none is dropped or doubled on the way.              *)
THEOREM ListensOnlyThroughService == Spec => ListensThroughService
<1>1. Init => Service!Init
  BY CacheAssumption DEF Init, Service!Init
<1>2. Spec => []TypeInv
  BY InitTyped, StepTyped, PTL DEF Spec
<1>3. Spec => Service!Spec
  BY <1>1, <1>2, StepInService, PTL DEF Spec, Service!Spec
<1>4. QED
  BY <1>3 DEF ListensThroughService

=============================================================================
