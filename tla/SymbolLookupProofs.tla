------------------------- MODULE SymbolLookupProofs -------------------------
(***************************************************************************)
(* Theorems about what the symbol cache tells: first what holds of the     *)
(* images, the objects and the listeners whatever happens, then that with  *)
(* one process and an engine that answers the cache mirrors the process,   *)
(* its lookups are exact, and it implements ProcessSymbols.                *)
(***************************************************************************)
EXTENDS SymbolLookup, SymbolCacheProofs

-----------------------------------------------------------------------------
(* The images.                                                             *)

(* The modules of a process lie apart in the address space, each under a   *)
(* name of its own.                                                        *)
Separate(modules) ==
  \A b \in DOMAIN modules :
    /\ b + SizeOf[modules[b]] <= MaxBase
    /\ \A c \in DOMAIN modules :
         b # c => /\ NameOf[modules[b]] # NameOf[modules[c]]
                  /\ \/ b >= c + SizeOf[modules[c]]
                     \/ c >= b + SizeOf[modules[b]]

LayoutOK == \A p \in DOMAIN image : Separate(image[p])

(* No module takes the place of another within one step.                   *)
ImagesStay ==
  \A p \in DOMAIN image \cap DOMAIN image' :
    \A b \in DOMAIN image[p] \cap DOMAIN image'[p] :
      image'[p][b] = image[p][b]

LEMMA OneImageHolds ==
  ASSUME NEW modules, IsMap(modules, Bases, Builds), Separate(modules),
         NEW b \in DOMAIN modules, NEW c \in DOMAIN modules,
         NEW offset \in Int,
         offset \in b .. b + SizeOf[modules[b]] - 1,
         offset \in c .. c + SizeOf[modules[c]] - 1
  PROVE  b = c
<1>1. b \in Nat /\ c \in Nat
  BY KeyAssumption DEF IsMap
<1>2. SizeOf[modules[b]] \in Nat /\ SizeOf[modules[c]] \in Nat
  BY CacheAssumption DEF IsMap
<1>3. b # c => \/ b >= c + SizeOf[modules[c]]
               \/ c >= b + SizeOf[modules[b]]
  BY DEF Separate
<1>4. QED
  BY <1>1, <1>2, <1>3

LEMMA EmplaceSeparate ==
  ASSUME NEW modules, IsMap(modules, Bases, Builds), Separate(modules),
         NEW base \in Bases, NEW x \in Builds, Fits(modules, base, x)
  PROVE  Separate(Emplace(modules, base, x))
<1>1. CASE base \in DOMAIN modules
  BY <1>1 DEF Emplace
<1>2. CASE base \notin DOMAIN modules
  <2> DEFINE grown == Emplace(modules, base, x)
  <2>1. /\ DOMAIN grown = DOMAIN modules \cup {base}
        /\ \A b \in DOMAIN modules : grown[b] = modules[b]
        /\ grown[base] = x
    BY <1>2 DEF Emplace
  <2> HIDE DEF grown
  <2>2. Separate(grown)
    BY <1>2, <2>1 DEF Separate, Fits
  <2>3. QED
    BY <2>2 DEF grown
<1>3. QED
  BY <1>1, <1>2

LEMMA EraseSeparate ==
  ASSUME NEW modules, Separate(modules), NEW R
  PROVE  Separate(Erase(modules, R))
BY DEF Separate, Erase

LEMMA LayoutStep ==
  ASSUME TypeInv, LayoutOK, [Next]_vars
  PROVE  LayoutOK' /\ ImagesStay
<1>1. CASE UNCHANGED image
  BY <1>1 DEF LayoutOK, ImagesStay, Separate
<1>2. ASSUME NEW p \in Pids, NEW base \in Bases, NEW x \in Exes,
             StartProcess(p, base, x)
      PROVE  LayoutOK' /\ ImagesStay
  <2>1. IsMap(EmptyMap, Bases, Builds) /\ Separate(EmptyMap) /\ x \in Builds
    BY EmptyMapType DEF Separate, Builds
  <2>2. Separate(Emplace(EmptyMap, base, x))
    BY <1>2, <2>1, EmplaceSeparate DEF StartProcess
  <2>3. /\ p \notin DOMAIN image
        /\ DOMAIN image' = DOMAIN image \cup {p}
        /\ image'[p] = Emplace(EmptyMap, base, x)
        /\ \A q \in DOMAIN image : image'[q] = image[q]
    <3>1. p \notin DOMAIN image
          /\ image' = Emplace(image, p, Emplace(EmptyMap, base, x))
      BY <1>2 DEF StartProcess
    <3>2. \A modules : p \notin DOMAIN image =>
            /\ DOMAIN Emplace(image, p, modules) = DOMAIN image \cup {p}
            /\ Emplace(image, p, modules)[p] = modules
            /\ \A q \in DOMAIN image : Emplace(image, p, modules)[q] = image[q]
      BY DEF Emplace
    <3>3. QED
      BY <3>1, <3>2, Zenon
  <2>4. LayoutOK'
    BY <2>2, <2>3 DEF LayoutOK, Separate
  <2>5. QED
    BY <2>3, <2>4 DEF ImagesStay
<1>3. ASSUME NEW p \in DOMAIN image, NEW modules, Separate(modules),
             image' = [image EXCEPT ![p] = modules],
             \A b \in DOMAIN image[p] \cap DOMAIN modules :
               modules[b] = image[p][b]
      PROVE  LayoutOK' /\ ImagesStay
  BY <1>3 DEF LayoutOK, ImagesStay, Separate
<1>4. ASSUME NEW p \in Pids, NEW base \in Bases, NEW x \in Dlls,
             LoadModule(p, base, x)
      PROVE  LayoutOK' /\ ImagesStay
  <2> DEFINE modules == Emplace(image[p], base, x)
  <2>1. /\ p \in DOMAIN image
        /\ IsMap(image[p], Bases, Builds)
        /\ x \in Builds
        /\ Fits(image[p], base, x)
    BY <1>4 DEF LoadModule, TypeInv, TypeOK, EngineTypeOK, Builds
  <2>2. Separate(modules)
    BY <2>1, EmplaceSeparate DEF LayoutOK
  <2>3. \A b \in DOMAIN image[p] : modules[b] = image[p][b]
    BY DEF Emplace
  <2>4. image' = [image EXCEPT ![p] = modules]
    BY <1>4 DEF LoadModule, ModuleEvent
  <2>5. QED
    BY <1>3, <2>1, <2>2, <2>3, <2>4
<1>5. ASSUME NEW p \in Pids, NEW base \in Bases, UnloadModule(p, base)
      PROVE  LayoutOK' /\ ImagesStay
  <2> DEFINE modules == Erase(image[p], {base})
  <2>1. p \in DOMAIN image /\ image' = [image EXCEPT ![p] = modules]
    BY <1>5 DEF UnloadModule, ModuleEvent
  <2>2. Separate(modules)
    BY <2>1, EraseSeparate DEF LayoutOK
  <2>3. \A b \in DOMAIN modules : modules[b] = image[p][b]
    BY DEF Erase
  <2>4. QED
    BY <1>3, <2>1, <2>2, <2>3
<1>6. CASE (\E p \in Pids : ExitProcess(p)) \/ EndSession
  <2>1. /\ DOMAIN image' \subseteq DOMAIN image
        /\ \A q \in DOMAIN image' : image'[q] = image[q]
    BY <1>6 DEF ExitProcess, EndSession, Erase, EmptyMap
  <2>2. QED
    BY <2>1 DEF LayoutOK, ImagesStay
<1>7. CASE \/ Proceed
           \/ \E path \in Paths \cup {Null}, stores \in Loads :
                BpLoad(path, stores)
           \/ \E p \in Pids : SwitchProcess(p)
           \/ UNCHANGED vars
  <2>1. UNCHANGED image
    BY <1>7 DEF Proceed, LoadNextModule, AbandonLoading, FinishLoading,
                RunListener, BpLoad, SwitchProcess, vars, engineVars
  <2>2. QED
    BY <1>1, <2>1
<1>8. QED
  BY <1>2, <1>4, <1>5, <1>6, <1>7 DEF Next

-----------------------------------------------------------------------------
(* The commands and listeners, and the objects they fill.                  *)

(* A command or a listener of bploadsyms (stores = TRUE) or bpsynthsyms.   *)
Runs(stores) ==
  \/ task.kind = "command" /\ task.stores = stores
  \/ \E i \in DOMAIN mModuleEventListeners :
       mModuleEventListeners[i].stores = stores

Storing == Runs(TRUE)

Listening == \E stores \in BOOLEAN : Runs(stores)

(* BpLoad, when the command is not refused.                                *)
Accepted(path, stores) ==
  /\ stores \in Loads
  /\ path \in Paths
  /\ task = Idle
  /\ RegisterDetachOnce(stores)
  /\ ~LoadRefused(current, path)
  /\ gBasePdbPath' = path
  /\ task' = [kind |-> "command", pid |-> current, stores |-> stores,
              left |-> DOMAIN image[current]]
  /\ UNCHANGED <<engineVars, tableVars, mModuleEventListeners>>

LEMMA BpLoadCases ==
  ASSUME NEW path, NEW stores \in Loads, BpLoad(path, stores)
  PROVE  \/ Accepted(path, stores)
         \/ /\ task = Idle
            /\ UNCHANGED <<gBasePdbPath, task>>
            /\ UNCHANGED <<engineVars, tableVars, mModuleEventListeners>>
BY DEF BpLoad, Accepted, LoadRefused

LEMMA RunsAfterFinish ==
  ASSUME TypeInv, FinishLoading, NEW stores \in BOOLEAN
  PROVE  /\ Runs(stores)' => Runs(stores)
         /\ ~EngineFails /\ Runs(stores) => Runs(stores)'
<1> DEFINE ls == mModuleEventListeners
           l == [pid |-> task.pid, stores |-> task.stores]
<1>1. PICK ok \in EngineOutcome : ls' = IF ok THEN Append(ls, l) ELSE ls
  BY DEF FinishLoading
<1>2. task' = Idle /\ task.kind = "command"
  BY DEF FinishLoading
<1>3. ~ (task'.kind = "command")
  BY <1>2 DEF Idle
<1>4. ls \in Seq(Listeners)
  BY DEF TypeInv, TypeOK, CallbacksTypeOK
<1>5. l.stores = task.stores
  OBVIOUS
<1>6. CASE ls' = ls
  <2>1. ok => Len(Append(ls, l)) = Len(ls) + 1 /\ Len(ls) \in Nat
    BY <1>4
  <2>2. ~ok
    BY <1>1, <1>6, <2>1
  <2>3. EngineFails
    BY <2>2 DEF EngineOutcome
  <2>4. QED
    BY <1>3, <1>6, <2>3 DEF Runs
<1>7. CASE ls' = Append(ls, l)
  <2>1. /\ DOMAIN ls' = DOMAIN ls \cup {Len(ls) + 1}
        /\ \A i \in DOMAIN ls : ls'[i] = ls[i]
        /\ ls'[Len(ls) + 1] = l
    BY <1>4, <1>7
  <2> HIDE DEF ls, l
  <2>2. QED
    BY <1>2, <1>3, <1>5, <2>1 DEF Runs, ls
<1>8. QED
  BY <1>1, <1>6, <1>7

(* A kind of listener comes with a command, and stays when the engine does *)
(* its part.                                                               *)
LEMMA RunsStep ==
  ASSUME TypeInv, Next, NEW stores \in BOOLEAN
  PROVE  /\ \/ Runs(stores)' => Runs(stores)
            \/ \E path \in Paths : Accepted(path, stores)
         /\ ~EngineFails /\ Runs(stores) => Runs(stores)'
<1>1. CASE FinishLoading
  BY <1>1, RunsAfterFinish
<1>2. ASSUME NEW path, NEW kind \in Loads, Accepted(path, kind)
      PROVE  /\ \/ Runs(stores)' => Runs(stores)
                \/ \E q \in Paths : Accepted(q, stores)
             /\ Runs(stores) => Runs(stores)'
  <2>1. /\ task'.kind = "command" /\ task'.stores = kind
        /\ task = Idle
        /\ mModuleEventListeners' = mModuleEventListeners
        /\ path \in Paths
    BY <1>2 DEF Accepted
  <2>2. Runs(stores) => Runs(stores)'
    BY <2>1 DEF Runs, Idle
  <2>3. kind # stores => (Runs(stores)' => Runs(stores))
    BY <2>1 DEF Runs
  <2>4. QED
    BY <1>2, <2>1, <2>2, <2>3
<1>3. CASE /\ mModuleEventListeners' = mModuleEventListeners
           /\ task.kind # "command" /\ task'.kind # "command"
  BY <1>3 DEF Runs
<1>4. CASE LoadNextModule
  <2>1. task \in Commands
    BY <1>4 DEF LoadNextModule, TypeInv, TypeOK, Idle, Dispatches
  <2>2. /\ mModuleEventListeners' = mModuleEventListeners
        /\ task'.kind = task.kind /\ task'.stores = task.stores
    BY <1>4, <2>1 DEF LoadNextModule, callbackVars, Commands
  <2>3. QED
    BY <2>2 DEF Runs
<1>5. CASE AbandonLoading
  BY <1>5 DEF AbandonLoading, Runs, Idle, callbackVars
<1>6. CASE RunListener
  <2>1. task'.kind # "command"
    BY <1>6 DEF RunListener, AtListener, Idle
  <2>2. QED
    BY <1>3, <1>6, <2>1 DEF RunListener, callbackVars
<1>7. ASSUME NEW p \in Pids, NEW base \in Bases,
             \/ \E x \in Dlls : LoadModule(p, base, x)
             \/ UnloadModule(p, base)
      PROVE  /\ mModuleEventListeners' = mModuleEventListeners
             /\ task.kind # "command" /\ task'.kind # "command"
  BY <1>7 DEF LoadModule, UnloadModule, ModuleEvent, AtListener, Idle,
              callbackVars
<1>8. CASE /\ task = Idle
           /\ UNCHANGED <<task, mModuleEventListeners>>
  BY <1>3, <1>8 DEF Idle
<1>9. ASSUME \/ \E p \in Pids, base \in Bases, x \in Exes :
                  StartProcess(p, base, x)
             \/ \E p \in Pids : ExitProcess(p) \/ SwitchProcess(p)
             \/ EndSession
      PROVE  /\ task = Idle
             /\ UNCHANGED <<task, mModuleEventListeners>>
  BY <1>9 DEF StartProcess, ExitProcess, SwitchProcess, EndSession,
              callbackVars
<1>10. ASSUME NEW path, NEW kind \in Loads, BpLoad(path, kind)
       PROVE  \/ Accepted(path, kind)
              \/ /\ task = Idle
                 /\ UNCHANGED <<task, mModuleEventListeners>>
  BY <1>10, BpLoadCases
<1>11. QED
  BY <1>1, <1>2, <1>3, <1>4, <1>5, <1>6, <1>7, <1>8, <1>9, <1>10
  DEF Next, Proceed

(* The listener that runs is one that was registered.                      *)
LEMMA ListenerThere ==
  ASSUME TypeInv, task.kind \in {"load", "unload"}
  PROVE  /\ task.base \in Bases
         /\ task.next \in DOMAIN mModuleEventListeners
         /\ mModuleEventListeners[task.next].pid \in Pids
         /\ mModuleEventListeners[task.next].stores \in BOOLEAN
<1>1. task \in Dispatches
  BY DEF TypeInv, TypeOK, Idle, Commands
<1>2. /\ mModuleEventListeners \in Seq(Listeners)
      /\ task.next \in 1 .. Len(mModuleEventListeners)
  BY DEF TypeInv, TypeOK, CallbacksTypeOK, TaskOK
<1>3. mModuleEventListeners[task.next] \in Listeners
  BY <1>2
<1>4. QED
  BY <1>1, <1>2, <1>3 DEF Dispatches, Listeners

(* One object is filled for build x, the others stay.                      *)
Refreshing(m, x, stores, idRead) ==
  /\ DOMAIN info' = DOMAIN info \cup {m}
  /\ \A n \in DOMAIN info : n # m => info'[n] = info[n]
  /\ info'[m] = Refreshed(m, x, stores, idRead)
  /\ m \in DOMAIN info => info[m].mName = NameOf[x]

LEMMA FileModuleRefreshes ==
  ASSUME TablesTypeOK, TableInv, NEW pid \in Pids, NEW base \in Bases,
         NEW x \in Builds, NEW stores, FileModule(pid, base, x, stores)
  PROVE  \E m \in Infos, idRead \in EngineOutcome :
           Refreshing(m, x, stores, idRead)
<1>1. PICK m \in Infos, idRead \in EngineOutcome :
        Filing(m, Refreshed(m, x, stores, idRead), pid, base, x)
  BY FileModuleContents
<1>2. m \in DOMAIN info => info[m].mName = NameOf[x]
  BY <1>1 DEF Filing, TableInv, NamesOwn
<1>3. Refreshing(m, x, stores, idRead)
  BY <1>1, <1>2 DEF Filing, Refreshing
<1>4. QED
  BY <1>3

(* A step leaves the objects that stay as they are, or a command or        *)
(* listener fills one of them.                                             *)
ObjectsStay ==
  \A m \in DOMAIN info' : m \in DOMAIN info /\ info'[m] = info[m]

SomeRefreshed ==
  /\ gBasePdbPath' = gBasePdbPath
  /\ \E m \in Infos, x \in Builds, stores \in BOOLEAN,
        idRead \in EngineOutcome :
       Runs(stores) /\ Refreshing(m, x, stores, idRead)

LEMMA ObjectsChange ==
  ASSUME IInv, Next
  PROVE  ObjectsStay \/ SomeRefreshed
<1>1. CASE UNCHANGED info
  BY <1>1 DEF ObjectsStay
<1>2. ASSUME NEW byName, NEW byKey,
             info' = Referenced(info, byName, byKey)
      PROVE  ObjectsStay
  BY <1>2 DEF Referenced, ObjectsStay
<1>3. TablesTypeOK /\ TableInv
  BY DEF IInv, TypeInv, TypeOK
<1>4. CASE LoadNextModule
  <2>1. PICK base \in task.left :
          FileModule(task.pid, base, image[task.pid][base], task.stores)
    BY <1>4 DEF LoadNextModule
  <2>2. task \in Commands
    BY <1>4 DEF LoadNextModule, IInv, TypeInv, TypeOK, Idle, Dispatches
  <2>3. /\ task.pid \in Pids /\ base \in Bases /\ task.stores \in BOOLEAN
        /\ image[task.pid][base] \in Builds
    BY <1>4, <2>2 DEF IInv, TypeInv, TypeOK, EngineTypeOK, TaskOK,
                      LoadNextModule, Commands, IsMap
  <2>4. PICK m \in Infos, idRead \in EngineOutcome :
          Refreshing(m, image[task.pid][base], task.stores, idRead)
    BY <1>3, <2>1, <2>3, FileModuleRefreshes
  <2>5. Runs(task.stores) /\ gBasePdbPath' = gBasePdbPath
    BY <1>4 DEF LoadNextModule, Runs
  <2>6. QED
    BY <2>3, <2>4, <2>5 DEF SomeRefreshed
<1>5. CASE RunListener
  <2> DEFINE l == mModuleEventListeners[task.next]
  <2>1. /\ task.base \in Bases
        /\ task.next \in DOMAIN mModuleEventListeners
        /\ l.pid \in Pids /\ l.stores \in BOOLEAN
    BY <1>5, ListenerThere DEF RunListener, IInv
  <2>2. CASE ForgetModule(l.pid, task.base)
    BY <1>2, <2>2 DEF ForgetModule
  <2>3. CASE /\ task.kind = "load"
             /\ FileModule(l.pid, task.base, image[current][task.base],
                           l.stores)
    <3>1. image[current][task.base] \in Builds
      BY <2>3 DEF IInv, TypeInv, TypeOK, TaskOK, EngineTypeOK, IsMap
    <3>2. PICK m \in Infos, idRead \in EngineOutcome :
            Refreshing(m, image[current][task.base], l.stores, idRead)
      BY <1>3, <2>1, <2>3, <3>1, FileModuleRefreshes
    <3>3. Runs(l.stores)
      BY <2>1 DEF Runs
    <3>4. gBasePdbPath' = gBasePdbPath
      BY <1>5 DEF RunListener
    <3>5. QED
      BY <2>1, <3>1, <3>2, <3>3, <3>4 DEF SomeRefreshed
  <2>4. CASE UNCHANGED tableVars
    BY <1>1, <2>4 DEF tableVars
  <2>5. QED
    BY <1>5, <2>2, <2>3, <2>4 DEF RunListener
<1>6. ASSUME NEW pid, NotifyDetach(pid)
      PROVE  ObjectsStay
  <2>1. CASE ClearModuleInfoForPid(pid)
    BY <1>2, <2>1 DEF ClearModuleInfoForPid
  <2>2. CASE UNCHANGED tableVars
    BY <2>2 DEF tableVars, ObjectsStay
  <2>3. QED
    BY <1>6, <2>1, <2>2 DEF NotifyDetach
<1>7. CASE (\E p \in Pids : ExitProcess(p)) \/ EndSession
  BY <1>6, <1>7 DEF ExitProcess, EndSession
<1>8. CASE \/ AbandonLoading \/ FinishLoading
           \/ \E path \in Paths \cup {Null}, stores \in Loads :
                BpLoad(path, stores)
           \/ \E p \in Pids, base \in Bases :
                \/ \E x \in Exes : StartProcess(p, base, x)
                \/ \E x \in Dlls : LoadModule(p, base, x)
                \/ UnloadModule(p, base)
           \/ \E p \in Pids : SwitchProcess(p)
  <2>1. UNCHANGED info
    BY <1>8 DEF AbandonLoading, FinishLoading, BpLoad, StartProcess,
                LoadModule, UnloadModule, ModuleEvent, SwitchProcess,
                tableVars
  <2>2. QED
    BY <1>1, <2>1
<1>9. QED
  BY <1>4, <1>5, <1>7, <1>8 DEF Next, Proceed

(* The symbols of an object are those of a build of its name.              *)
SymsOfName ==
  \A m \in DOMAIN info :
    info[m].mSyms # Null => NameOf[info[m].mSyms] = info[m].mName

(* There is a symbol directory as soon as something may be filed.          *)
PathKnown == Listening \/ DOMAIN info # {} => gBasePdbPath # Null

RunsAreLoads == \A stores \in BOOLEAN : Runs(stores) => stores \in Loads

LEMMA RefreshedSyms ==
  ASSUME NEW m, NEW x \in Builds, NEW stores \in BOOLEAN,
         NEW idRead \in BOOLEAN,
         m \in DOMAIN info => /\ info[m] \in ModuleInfos
                              /\ info[m].mName = NameOf[x]
  PROVE  LET i == Refreshed(m, x, stores, idRead)
             was == IF m \in DOMAIN info THEN info[m].mSyms ELSE Null
         IN  /\ i.mName = NameOf[x]
             /\ i.mSyms = IF /\ was = Null /\ stores /\ idRead
                             /\ <<gBasePdbPath, x>> \in SymFiles
                          THEN x ELSE was
<1> DEFINE i == IF m \in DOMAIN info THEN info[m] ELSE NewModuleInfo(x)
<1>1. /\ i \in ModuleInfos
      /\ i.mName = NameOf[x]
      /\ i.mSyms = IF m \in DOMAIN info THEN info[m].mSyms ELSE Null
  BY BuildsTyped DEF NewModuleInfo
<1>2. Refreshed(m, x, stores, idRead) = LoadBpSymbols(i, x, stores, idRead)
  BY DEF Refreshed
<1> HIDE DEF i
<1>3. /\ LoadBpSymbols(i, x, stores, idRead).mName = i.mName
      /\ LoadBpSymbols(i, x, stores, idRead).mSyms =
           IF /\ i.mSyms = Null /\ stores /\ idRead
              /\ <<gBasePdbPath, x>> \in SymFiles
           THEN x ELSE i.mSyms
  BY <1>1 DEF LoadBpSymbols, LoadBpSymbolFile, ModuleInfos
<1>4. QED
  BY <1>1, <1>2, <1>3

CacheInv == IInv /\ LayoutOK /\ SymsOfName /\ PathKnown /\ RunsAreLoads

LEMMA CacheInit == Init => CacheInv
<1> SUFFICES ASSUME Init PROVE CacheInv
  OBVIOUS
<1>1. DOMAIN image = {} /\ DOMAIN info = {}
  BY EmptyMapType DEF Init
<1>2. ~Runs(TRUE) /\ ~Runs(FALSE)
  BY DEF Init, Runs, Idle
<1>3. QED
  BY <1>1, <1>2, Inductive
  DEF CacheInv, LayoutOK, SymsOfName, PathKnown, RunsAreLoads, Listening

LEMMA CacheStep ==
  ASSUME CacheInv, [Next]_vars
  PROVE  CacheInv'
<1>1. CASE UNCHANGED vars
  BY <1>1, Inductive, LayoutStep
  DEF CacheInv, IInv, SymsOfName, PathKnown, RunsAreLoads, Listening, Runs,
      vars, tableVars, callbackVars
<1>2. CASE Next
  <2>1. IInv' /\ LayoutOK'
    BY Inductive, LayoutStep DEF CacheInv, IInv
  <2>2. SymsOfName'
    <3>1. CASE ObjectsStay
      BY <3>1 DEF ObjectsStay, CacheInv, SymsOfName
    <3>2. CASE SomeRefreshed
      <4>1. PICK m \in Infos, x \in Builds, stores \in BOOLEAN,
                 idRead \in EngineOutcome : Refreshing(m, x, stores, idRead)
        BY <3>2 DEF SomeRefreshed
      <4>2. m \in DOMAIN info => info[m] \in ModuleInfos
        BY DEF CacheInv, IInv, TypeInv, TypeOK, TablesTypeOK, IsMap
      <4>3. /\ info'[m].mName = NameOf[x]
            /\ \/ info'[m].mSyms \in {x, Null}
               \/ m \in DOMAIN info /\ info'[m].mSyms = info[m].mSyms
        <5>1. /\ info'[m] = Refreshed(m, x, stores, idRead)
              /\ m \in DOMAIN info => info[m].mName = NameOf[x]
          BY <4>1 DEF Refreshing
        <5>2. idRead \in BOOLEAN
          BY DEF EngineOutcome
        <5> DEFINE i == Refreshed(m, x, stores, idRead)
                   was == IF m \in DOMAIN info THEN info[m].mSyms ELSE Null
        <5>3. /\ i.mName = NameOf[x]
              /\ i.mSyms = IF /\ was = Null /\ stores /\ idRead
                              /\ <<gBasePdbPath, x>> \in SymFiles
                           THEN x ELSE was
          BY <4>2, <5>1, <5>2, RefreshedSyms, Zenon
        <5> HIDE DEF i
        <5>4. i.mSyms \in {x, was}
          BY <5>3
        <5>5. info'[m] = i
          BY <5>1 DEF i
        <5>6. QED
          BY <5>3, <5>4, <5>5
      <4>4. QED
        BY <4>1, <4>3 DEF Refreshing, CacheInv, SymsOfName
    <3>3. QED
      BY <1>2, <3>1, <3>2, ObjectsChange DEF CacheInv
  <2>3. RunsAreLoads'
    <3> SUFFICES ASSUME NEW stores \in BOOLEAN, Runs(stores)'
                 PROVE  stores \in Loads
      BY DEF RunsAreLoads
    <3>1. Runs(stores) \/ \E path \in Paths : Accepted(path, stores)
      BY <1>2, RunsStep DEF CacheInv, IInv
    <3>2. QED
      BY <3>1 DEF CacheInv, RunsAreLoads, Accepted
  <2>4. gBasePdbPath # Null => gBasePdbPath' # Null
    <3>1. gBasePdbPath' = gBasePdbPath \/ gBasePdbPath' \in Paths
      BY <1>2, BpLoadCases
      DEF Accepted, Next, Proceed, LoadNextModule, AbandonLoading,
          FinishLoading, RunListener, StartProcess, LoadModule, UnloadModule,
          ModuleEvent, ExitProcess, SwitchProcess, EndSession
    <3>2. QED
      BY <3>1, CacheAssumption
  <2>5. Listening' => gBasePdbPath' # Null
    <3> SUFFICES ASSUME NEW stores \in BOOLEAN, Runs(stores)'
                 PROVE  gBasePdbPath' # Null
      BY DEF Listening
    <3>1. Runs(stores) \/ \E path \in Paths : Accepted(path, stores)
      BY <1>2, RunsStep DEF CacheInv, IInv
    <3>2. CASE Runs(stores)
      BY <2>4, <3>2 DEF CacheInv, PathKnown, Listening
    <3>3. CASE \E path \in Paths : Accepted(path, stores)
      BY <3>3, CacheAssumption DEF Accepted
    <3>4. QED
      BY <3>1, <3>2, <3>3
  <2>6. DOMAIN info' # {} => DOMAIN info # {} \/ Listening
    BY <1>2, ObjectsChange
    DEF CacheInv, ObjectsStay, SomeRefreshed, Listening
  <2>7. PathKnown'
    BY <2>4, <2>5, <2>6 DEF CacheInv, PathKnown
  <2>8. QED
    BY <2>1, <2>2, <2>3, <2>7 DEF CacheInv
<1>3. QED
  BY <1>1, <1>2

-----------------------------------------------------------------------------
(* One process.  The cache mirrors it when the engine does its part: these *)
(* are the two assumptions the rest of the module names where it needs     *)
(* them.                                                                   *)

OneProcess == \A p, q \in Pids : p = q

EngineAnswers == ~EngineFails

(* bploadsyms, and only bploadsyms, registers for the detach of processes. *)
DetachHeard ==
  /\ kRegdPidUnload \in {Null, TRUE}
  /\ Storing => kRegdPidUnload = TRUE

SymsWhenStoring == ~Storing => \A m \in DOMAIN info : info[m].mSyms = Null

ObjectsHeard == DOMAIN info # {} => Listening

(* The module filed under k is loaded, or its unloading has begun.         *)
Mirrored(k) ==
  /\ k.mPid \in DOMAIN image
  /\ \/ /\ k.mBase \in DOMAIN image[k.mPid]
        /\ info[gModuleInfoByKey[k]].mName = NameOf[image[k.mPid][k.mBase]]
     \/ task.kind = "unload" /\ task.next = 1 /\ task.base = k.mBase

KeysMirrored == Storing => \A k \in DOMAIN gModuleInfoByKey : Mirrored(k)

(* FiledIsLoaded is not inductive: during an unload event it does not hold *)
(* yet, it needs the detach listener, and that comes with bploadsyms only. *)
ProcessInv ==
  CacheInv /\ DetachHeard /\ SymsWhenStoring /\ ObjectsHeard /\ KeysMirrored

LEMMA DetachHeardStep ==
  ASSUME EngineAnswers, CacheInv, DetachHeard, Next
  PROVE  DetachHeard'
<1>1. \/ kRegdPidUnload' = kRegdPidUnload
      \/ \E path \in Paths \cup {Null}, stores \in Loads :
           BpLoad(path, stores) /\ RegisterDetachOnce(stores)
  BY DEF Next, Proceed, LoadNextModule, AbandonLoading, FinishLoading,
         RunListener, StartProcess, LoadModule, UnloadModule, ModuleEvent,
         ExitProcess, SwitchProcess, EndSession, BpLoad, callbackVars
<1>2. ASSUME NEW stores, RegisterDetachOnce(stores)
      PROVE  /\ kRegdPidUnload' \in {Null, TRUE}
             /\ kRegdPidUnload = TRUE => kRegdPidUnload' = TRUE
             /\ stores = TRUE => kRegdPidUnload' = TRUE
  BY <1>2, CacheAssumption
  DEF RegisterDetachOnce, EngineOutcome, EngineAnswers, DetachHeard
<1>3. /\ kRegdPidUnload' \in {Null, TRUE}
      /\ kRegdPidUnload = TRUE => kRegdPidUnload' = TRUE
  BY <1>1, <1>2 DEF DetachHeard
<1>4. ASSUME NEW path \in Paths, Accepted(path, TRUE)
      PROVE  kRegdPidUnload' = TRUE
  BY <1>2, <1>4 DEF Accepted
<1>5. Storing' => Storing \/ \E path \in Paths : Accepted(path, TRUE)
  BY RunsStep DEF Storing, CacheInv, IInv
<1>6. QED
  BY <1>3, <1>4, <1>5 DEF DetachHeard

LEMMA SymsWhenStoringStep ==
  ASSUME EngineAnswers, CacheInv, SymsWhenStoring, Next
  PROVE  SymsWhenStoring'
<1> SUFFICES ASSUME ~Storing', NEW m \in DOMAIN info'
             PROVE  info'[m].mSyms = Null
  BY DEF SymsWhenStoring
<1>1. ~Storing
  BY RunsStep DEF Storing, CacheInv, IInv, EngineAnswers
<1>2. CASE ObjectsStay
  BY <1>1, <1>2 DEF ObjectsStay, SymsWhenStoring
<1>3. CASE SomeRefreshed
  <2>1. PICK n \in Infos, x \in Builds, stores \in BOOLEAN,
             idRead \in EngineOutcome :
          Runs(stores) /\ Refreshing(n, x, stores, idRead)
    BY <1>3 DEF SomeRefreshed
  <2>2. stores = FALSE
    BY <1>1, <2>1 DEF Storing
  <2>3. idRead \in BOOLEAN
    BY DEF EngineOutcome
  <2>4. n \in DOMAIN info => /\ info[n] \in ModuleInfos
                             /\ info[n].mName = NameOf[x]
    BY <2>1 DEF Refreshing, CacheInv, IInv, TypeInv, TypeOK, TablesTypeOK,
                IsMap
  <2> DEFINE i == Refreshed(n, x, stores, idRead)
             was == IF n \in DOMAIN info THEN info[n].mSyms ELSE Null
  <2>5. i.mSyms = IF /\ was = Null /\ stores /\ idRead
                     /\ <<gBasePdbPath, x>> \in SymFiles
                  THEN x ELSE was
    BY <2>3, <2>4, RefreshedSyms, Zenon
  <2> HIDE DEF i
  <2>6. i.mSyms = Null
    BY <1>1, <2>2, <2>5 DEF SymsWhenStoring
  <2>7. /\ info'[n] = i
        /\ m # n => m \in DOMAIN info /\ info'[m] = info[m]
    BY <2>1 DEF Refreshing, i
  <2>8. QED
    BY <1>1, <2>6, <2>7 DEF SymsWhenStoring
<1>4. QED
  BY <1>2, <1>3, ObjectsChange DEF CacheInv

LEMMA ObjectsHeardStep ==
  ASSUME EngineAnswers, CacheInv, ObjectsHeard, Next
  PROVE  ObjectsHeard'
<1>1. DOMAIN info' # {} => Listening
  BY ObjectsChange
  DEF CacheInv, ObjectsStay, SomeRefreshed, Listening, ObjectsHeard
<1>2. Listening => Listening'
  BY RunsStep DEF Listening, CacheInv, IInv, EngineAnswers
<1>3. QED
  BY <1>1, <1>2 DEF ObjectsHeard

(* A module that stays filed keeps its name.                               *)
LEMMA NamesStay ==
  ASSUME CacheInv, Next,
         NEW k \in DOMAIN gModuleInfoByKey \cap DOMAIN gModuleInfoByKey'
  PROVE  info'[gModuleInfoByKey'[k]].mName = info[gModuleInfoByKey[k]].mName
<1> DEFINE m == gModuleInfoByKey[k]
<1>1. KeepSymbols
  BY StepKeeps DEF StepOK, CacheInv
<1>2. m \in DOMAIN info'
  BY <1>1 DEF KeepSymbols
<1>3. gModuleInfoByKey'[k] = m
  BY <1>1 DEF KeepSymbols
<1>4. m \in DOMAIN info
  BY DEF CacheInv, IInv, TableInv, KeyedIsNamed
<1> HIDE DEF m
<1>5. CASE ObjectsStay
  BY <1>2, <1>3, <1>5 DEF ObjectsStay, m
<1>6. CASE SomeRefreshed
  <2>1. PICK n \in Infos, x \in Builds, stores \in BOOLEAN,
             idRead \in EngineOutcome : Refreshing(n, x, stores, idRead)
    BY <1>6 DEF SomeRefreshed
  <2>2. CASE m # n
    BY <1>3, <1>4, <2>1, <2>2 DEF Refreshing, m
  <2>3. CASE m = n
    <3>1. idRead \in BOOLEAN
      BY DEF EngineOutcome
    <3>2. info[n] \in ModuleInfos /\ info[n].mName = NameOf[x]
      BY <1>4, <2>1, <2>3 DEF Refreshing, CacheInv, IInv, TypeInv, TypeOK,
                              TablesTypeOK, IsMap
    <3>3. Refreshed(n, x, stores, idRead).mName = NameOf[x]
      BY <3>1, <3>2, RefreshedSyms, Zenon
    <3>4. info'[n] = Refreshed(n, x, stores, idRead)
      BY <2>1 DEF Refreshing
    <3>5. QED
      BY <1>3, <2>3, <3>2, <3>3, <3>4 DEF m
  <2>4. QED
    BY <2>2, <2>3
<1>7. QED
  BY <1>5, <1>6, ObjectsChange DEF CacheInv

(* A mirrored module that stays filed and loaded stays mirrored.           *)
LEMMA MirrorStays ==
  ASSUME CacheInv, Next,
         NEW k \in DOMAIN gModuleInfoByKey \cap DOMAIN gModuleInfoByKey',
         k.mPid \in DOMAIN image \cap DOMAIN image',
         k.mBase \in DOMAIN image[k.mPid] \cap DOMAIN image'[k.mPid],
         info[gModuleInfoByKey[k]].mName = NameOf[image[k.mPid][k.mBase]]
  PROVE  Mirrored(k)'
<1>1. ImagesStay
  BY LayoutStep DEF CacheInv, IInv
<1>2. image'[k.mPid][k.mBase] = image[k.mPid][k.mBase]
  BY <1>1 DEF ImagesStay
<1>3. info'[gModuleInfoByKey'[k]].mName = info[gModuleInfoByKey[k]].mName
  BY NamesStay
<1>4. QED
  BY <1>2, <1>3 DEF Mirrored

LEMMA FiledKeys ==
  ASSUME TablesTypeOK, TableInv, NEW pid \in Pids, NEW base \in Bases,
         NEW x \in Builds, NEW stores, FileModule(pid, base, x, stores)
  PROVE  LET key == ModuleKey(pid, base)
         IN  /\ DOMAIN gModuleInfoByKey' = DOMAIN gModuleInfoByKey \cup {key}
             /\ key \notin DOMAIN gModuleInfoByKey =>
                  info'[gModuleInfoByKey'[key]].mName = NameOf[x]
<1> DEFINE key == ModuleKey(pid, base)
<1>1. PICK m \in Infos, i \in ModuleInfos : Filing(m, i, pid, base, x)
  BY FileModuleEffect
<1>2. /\ DOMAIN gModuleInfoByKey' = DOMAIN gModuleInfoByKey \cup {key}
      /\ key \notin DOMAIN gModuleInfoByKey => gModuleInfoByKey'[key] = m
  BY <1>1 DEF Filing, Emplace
<1>3. info'[m].mName = NameOf[x]
  BY <1>1 DEF Filing, TableInv, NamesOwn
<1>4. QED
  BY <1>2, <1>3

(* Filing the module that the process has at the address.                  *)
LEMMA FilingMirrors ==
  ASSUME CacheInv, Next, KeysMirrored, Storing, task.kind # "unload",
         UNCHANGED image, NEW pid \in DOMAIN image,
         NEW base \in DOMAIN image[pid], NEW stores,
         FileModule(pid, base, image[pid][base], stores)
  PROVE  KeysMirrored'
<1> DEFINE key == ModuleKey(pid, base)
<1>1. /\ pid \in Pids /\ base \in Bases /\ image[pid][base] \in Builds
      /\ TablesTypeOK /\ TableInv
  BY DEF CacheInv, IInv, TypeInv, TypeOK, EngineTypeOK, IsMap
<1>2. /\ DOMAIN gModuleInfoByKey' = DOMAIN gModuleInfoByKey \cup {key}
      /\ key \notin DOMAIN gModuleInfoByKey =>
           info'[gModuleInfoByKey'[key]].mName = NameOf[image[pid][base]]
  BY <1>1, FiledKeys
<1>3. key.mPid = pid /\ key.mBase = base
  BY <1>1, ModuleKeyType
<1> HIDE DEF key
<1>4. ASSUME NEW k \in DOMAIN gModuleInfoByKey
      PROVE  Mirrored(k)'
  <2>1. Mirrored(k)
    BY DEF KeysMirrored
  <2>2. k \in DOMAIN gModuleInfoByKey \cap DOMAIN gModuleInfoByKey'
    BY <1>2
  <2>3. /\ k.mPid \in DOMAIN image \cap DOMAIN image'
        /\ k.mBase \in DOMAIN image[k.mPid] \cap DOMAIN image'[k.mPid]
        /\ info[gModuleInfoByKey[k]].mName = NameOf[image[k.mPid][k.mBase]]
    BY <2>1 DEF Mirrored
  <2>4. QED
    BY <2>2, <2>3, MirrorStays
<1>5. key \notin DOMAIN gModuleInfoByKey => Mirrored(key)'
  BY <1>2, <1>3 DEF Mirrored
<1>6. QED
  BY <1>2, <1>4, <1>5 DEF KeysMirrored

LEMMA ListenerMirrors ==
  ASSUME OneProcess, EngineAnswers, CacheInv, KeysMirrored, Storing,
         RunListener
  PROVE  KeysMirrored'
<1> DEFINE l == mModuleEventListeners[task.next]
<1>1. Next
  BY DEF Next, Proceed
<1>2. /\ task.base \in Bases
      /\ task.next \in DOMAIN mModuleEventListeners
      /\ l.pid \in Pids
  BY ListenerThere DEF RunListener, CacheInv, IInv
<1>3. image' = image
  BY DEF RunListener, engineVars
<1>4. CASE /\ task.kind = "load"
           /\ FileModule(l.pid, task.base, image[current][task.base], l.stores)
  <2>1. current \in DOMAIN image /\ task.base \in DOMAIN image[current]
    BY <1>4 DEF CacheInv, IInv, TypeInv, TaskOK
  <2>2. l.pid = current
    BY <1>2, <2>1 DEF OneProcess, CacheInv, IInv, TypeInv, TypeOK,
                      EngineTypeOK
  <2>3. QED
    BY <1>1, <1>3, <1>4, <2>1, <2>2, FilingMirrors
<1>5. CASE task.kind = "unload" /\ ForgetModule(l.pid, task.base)
  <2> SUFFICES ASSUME NEW k \in DOMAIN gModuleInfoByKey'
               PROVE  Mirrored(k)'
    BY DEF KeysMirrored
  <2>1. /\ k \in DOMAIN gModuleInfoByKey
        /\ k # ModuleKey(l.pid, task.base)
    BY <1>5 DEF ForgetModule, Erase
  <2>2. Mirrored(k)
    BY <2>1 DEF KeysMirrored
  <2>3. k \in Keys
    BY <2>1 DEF CacheInv, IInv, TypeInv, TypeOK, TablesTypeOK, IsMap
  <2>4. k.mPid = l.pid
    BY <1>2, <2>3 DEF OneProcess, Keys
  <2>5. k.mBase # task.base
    BY <2>1, <2>3, <2>4 DEF ModuleKey, Keys
  <2>6. /\ k.mPid \in DOMAIN image \cap DOMAIN image'
        /\ k.mBase \in DOMAIN image[k.mPid] \cap DOMAIN image'[k.mPid]
        /\ info[gModuleInfoByKey[k]].mName = NameOf[image[k.mPid][k.mBase]]
    BY <1>3, <2>2, <2>5 DEF Mirrored
  <2>7. k \in DOMAIN gModuleInfoByKey \cap DOMAIN gModuleInfoByKey'
    BY <2>1
  <2>8. QED
    BY <1>1, <2>6, <2>7, MirrorStays
<1>6. QED
  BY <1>4, <1>5 DEF RunListener, EngineAnswers

(* The module goes before its key: the listener of the process will erase  *)
(* that next.                                                              *)
LEMMA UnloadMirrors ==
  ASSUME CacheInv, KeysMirrored, Storing, NEW p \in Pids,
         NEW base \in Bases, UnloadModule(p, base)
  PROVE  KeysMirrored'
<1> SUFFICES ASSUME NEW k \in DOMAIN gModuleInfoByKey'
             PROVE  Mirrored(k)'
  BY DEF KeysMirrored
<1>1. Next
  BY DEF Next
<1>2. /\ gModuleInfoByKey' = gModuleInfoByKey
      /\ mModuleEventListeners' = mModuleEventListeners
      /\ task = Idle
      /\ p \in DOMAIN image
      /\ image' = [image EXCEPT ![p] = Erase(image[p], {base})]
      /\ task' = AtListener("unload", base, 1)
  BY DEF UnloadModule, ModuleEvent, tableVars, callbackVars
<1>3. /\ k.mPid \in DOMAIN image
      /\ k.mBase \in DOMAIN image[k.mPid]
      /\ info[gModuleInfoByKey[k]].mName = NameOf[image[k.mPid][k.mBase]]
  BY <1>2 DEF KeysMirrored, Mirrored, Idle
<1>4. k.mPid \in DOMAIN image'
  BY <1>2, <1>3
<1>5. CASE k.mPid # p \/ k.mBase # base
  <2>1. k.mBase \in DOMAIN image'[k.mPid]
    BY <1>2, <1>3, <1>5 DEF Erase
  <2>2. QED
    BY <1>1, <1>2, <1>3, <1>4, <2>1, MirrorStays
<1>6. CASE k.mPid = p /\ k.mBase = base
  <2>1. 1 <= Len(mModuleEventListeners)
    <3>1. mModuleEventListeners \in Seq(Listeners)
      BY DEF CacheInv, IInv, TypeInv, TypeOK, CallbacksTypeOK
    <3>2. PICK i \in DOMAIN mModuleEventListeners : TRUE
      BY <1>2 DEF Storing, Runs, Idle
    <3>3. QED
      BY <3>1, <3>2
  <2>2. task' = [kind |-> "unload", base |-> base, next |-> 1]
    BY <1>2, <2>1 DEF AtListener
  <2>3. QED
    BY <1>4, <1>6, <2>2 DEF Mirrored
<1>7. QED
  BY <1>5, <1>6

LEMMA DetachMirrors ==
  ASSUME OneProcess, EngineAnswers, CacheInv, DetachHeard, Storing,
         \/ \E p \in Pids : ExitProcess(p)
         \/ EndSession
  PROVE  DOMAIN gModuleInfoByKey' = {}
<1>1. kRegdPidUnload = TRUE
  BY DEF DetachHeard
<1>2. ForgetDetached /\ IInv
  BY DetachStep DEF CacheInv
<1>3. PICK p \in DOMAIN image \ DOMAIN image' : p = eventPid'
  <2>1. ASSUME NEW p \in Pids, ExitProcess(p)
        PROVE  p \in DOMAIN image \ DOMAIN image' /\ p = eventPid'
    BY <2>1 DEF ExitProcess, Erase
  <2>2. CASE EndSession
    <3>1. /\ DOMAIN image # {} /\ DOMAIN image' = {}
          /\ eventPid' = eventPid
      BY <2>2, EmptyMapType DEF EndSession
    <3>2. eventPid \in Pids /\ DOMAIN image \subseteq Pids
      BY <1>2, <3>1 DEF IInv, EventOK, TypeInv, TypeOK, EngineTypeOK
    <3>3. eventPid \in DOMAIN image \ DOMAIN image'
      BY <3>1, <3>2 DEF OneProcess
    <3>4. QED
      BY <3>1, <3>3
  <2>3. QED
    BY <2>1, <2>2
<1>4. \A k \in DOMAIN gModuleInfoByKey' : k.mPid # p
  BY <1>1, <1>2, <1>3 DEF ForgetDetached, EngineAnswers
<1>5. DOMAIN gModuleInfoByKey' \subseteq Keys /\ p \in Pids
  <2>1. TypeInv'
    BY StepTyped DEF Next, CacheInv, IInv
  <2>2. QED
    BY <1>3, <2>1 DEF CacheInv, IInv, TypeInv, TypeOK, EngineTypeOK,
                      TablesTypeOK, IsMap
<1>6. \A k \in Keys : k.mPid = p
  BY <1>5 DEF OneProcess, Keys
<1>7. QED
  BY <1>4, <1>5, <1>6

LEMMA KeysMirroredStep ==
  ASSUME OneProcess, EngineAnswers, ProcessInv, Next
  PROVE  KeysMirrored'
<1> SUFFICES ASSUME Storing'
             PROVE  KeysMirrored'
  BY DEF KeysMirrored
<1> USE DEF ProcessInv
<1>1. CASE DOMAIN gModuleInfoByKey' = {}
  BY <1>1 DEF KeysMirrored
<1>2. ASSUME NEW path, Accepted(path, TRUE)
      PROVE  DOMAIN gModuleInfoByKey' = {}
  <2>1. /\ UNCHANGED gModuleInfoByKey
        /\ ~LoadRefused(current, path)
    BY <1>2 DEF Accepted, tableVars
  <2>2. CASE gBasePdbPath = Null
    <3>1. DOMAIN info = {}
      BY <2>2 DEF CacheInv, PathKnown
    <3>2. QED
      BY <2>1, <3>1 DEF CacheInv, IInv, TableInv, KeyedIsNamed
  <2>3. CASE gBasePdbPath # Null
    <3>1. current \in Pids /\ DOMAIN gModuleInfoByKey \in SUBSET Keys
      BY <2>1 DEF LoadRefused, CacheInv, IInv, TypeInv, TypeOK, EngineTypeOK,
                  TablesTypeOK, IsMap
    <3>2. PidRange(DOMAIN gModuleInfoByKey, current) = {}
      BY <2>1, <2>3, <3>1 DEF LoadRefused, HasModuleInfoForPid
    <3>3. {k \in DOMAIN gModuleInfoByKey : k.mPid = current} = {}
      BY <3>1, <3>2, PidRangeIsPid
    <3>4. \A k \in DOMAIN gModuleInfoByKey : k.mPid = current
      BY <3>1 DEF OneProcess, Keys
    <3>5. QED
      BY <2>1, <3>3, <3>4
  <2>4. QED
    BY <2>2, <2>3
<1>3. CASE Storing
  <2>1. CASE LoadNextModule
    <3>1. PICK base \in task.left :
            FileModule(task.pid, base, image[task.pid][base], task.stores)
      BY <2>1 DEF LoadNextModule
    <3>2. /\ task.pid \in DOMAIN image
          /\ base \in DOMAIN image[task.pid]
          /\ task.kind # "unload"
          /\ UNCHANGED image
      BY <2>1 DEF LoadNextModule, CacheInv, IInv, TypeInv, TaskOK, engineVars
    <3>3. QED
      BY <1>3, <3>1, <3>2, FilingMirrors
  <2>2. CASE RunListener
    BY <1>3, <2>2, ListenerMirrors
  <2>3. ASSUME NEW p \in Pids, NEW base \in Bases, UnloadModule(p, base)
        PROVE  KeysMirrored'
    BY <1>3, <2>3, UnloadMirrors
  <2>4. CASE (\E p \in Pids : ExitProcess(p)) \/ EndSession
    BY <1>1, <1>3, <2>4, DetachMirrors
  <2>5. ASSUME task.kind # "unload",
               UNCHANGED gModuleInfoByKey,
               \A p \in DOMAIN image : /\ p \in DOMAIN image'
                                       /\ DOMAIN image[p] \subseteq
                                            DOMAIN image'[p]
        PROVE  KeysMirrored'
    <3> SUFFICES ASSUME NEW k \in DOMAIN gModuleInfoByKey'
                 PROVE  Mirrored(k)'
      BY DEF KeysMirrored
    <3>1. /\ k \in DOMAIN gModuleInfoByKey \cap DOMAIN gModuleInfoByKey'
          /\ Mirrored(k)
      BY <1>3, <2>5 DEF KeysMirrored
    <3>2. /\ k.mPid \in DOMAIN image \cap DOMAIN image'
          /\ k.mBase \in DOMAIN image[k.mPid] \cap DOMAIN image'[k.mPid]
          /\ info[gModuleInfoByKey[k]].mName = NameOf[image[k.mPid][k.mBase]]
      BY <2>5, <3>1 DEF Mirrored
    <3>3. QED
      BY <3>1, <3>2, MirrorStays
  <2>6. CASE \/ AbandonLoading \/ FinishLoading
             \/ \E path \in Paths \cup {Null}, stores \in Loads :
                  BpLoad(path, stores)
             \/ \E p \in Pids : SwitchProcess(p)
    BY <2>5, <2>6 DEF AbandonLoading, FinishLoading, BpLoad, SwitchProcess,
                      Idle, tableVars, engineVars
  <2>7. ASSUME NEW p \in Pids, NEW base \in Bases,
               \/ \E x \in Exes : StartProcess(p, base, x)
               \/ \E x \in Dlls : LoadModule(p, base, x)
        PROVE  KeysMirrored'
    <3>1. task.kind # "unload" /\ UNCHANGED gModuleInfoByKey
      BY <2>7 DEF StartProcess, LoadModule, ModuleEvent, Idle, tableVars
    <3>2. \A q \in DOMAIN image :
            q \in DOMAIN image' /\ DOMAIN image[q] \subseteq DOMAIN image'[q]
      BY <2>7 DEF StartProcess, LoadModule, ModuleEvent, Emplace
    <3>3. QED
      BY <2>5, <3>1, <3>2
  <2>8. QED
    BY <2>1, <2>2, <2>3, <2>4, <2>6, <2>7 DEF Next, Proceed
<1>4. Storing \/ \E path \in Paths : Accepted(path, TRUE)
  BY RunsStep DEF Storing, CacheInv, IInv
<1>5. QED
  BY <1>1, <1>2, <1>3, <1>4

LEMMA ProcessInductive ==
  ASSUME OneProcess, EngineAnswers
  PROVE  /\ Init => ProcessInv
         /\ ProcessInv /\ [Next]_vars => ProcessInv'
<1>1. ASSUME Init
      PROVE  ProcessInv
  <2>1. DOMAIN info = {} /\ kRegdPidUnload = Null /\ ~Storing
    BY <1>1, EmptyMapType DEF Init, Storing, Runs, Idle
  <2>2. QED
    BY <1>1, <2>1, CacheInit
    DEF ProcessInv, DetachHeard, SymsWhenStoring, ObjectsHeard, KeysMirrored
<1>2. ASSUME ProcessInv, Next
      PROVE  ProcessInv'
  <2>1. CacheInv'
    BY <1>2, CacheStep DEF ProcessInv
  <2>2. DetachHeard' /\ SymsWhenStoring' /\ ObjectsHeard'
    BY <1>2, DetachHeardStep, SymsWhenStoringStep, ObjectsHeardStep
    DEF ProcessInv
  <2>3. KeysMirrored'
    BY <1>2, KeysMirroredStep
  <2>4. QED
    BY <2>1, <2>2, <2>3 DEF ProcessInv
<1>3. ASSUME ProcessInv, UNCHANGED vars
      PROVE  ProcessInv'
  <2>1. CacheInv'
    BY <1>3, CacheStep DEF ProcessInv
  <2>2. QED
    BY <1>3, <2>1
    DEF ProcessInv, DetachHeard, SymsWhenStoring, ObjectsHeard, KeysMirrored,
        Mirrored, Storing, Listening, Runs, vars, engineVars, tableVars,
        callbackVars
<1>4. QED
  BY <1>1, <1>2, <1>3

(* Sessions of bploadsyms only: without its listeners a detach goes        *)
(* unnoticed.                                                              *)
OnlyBploadsyms == Loads \subseteq {TRUE}

LEMMA FiledIsStored ==
  ASSUME OnlyBploadsyms, ProcessInv, DOMAIN info # {}
  PROVE  Storing
BY DEF OnlyBploadsyms, ProcessInv, ObjectsHeard, Listening, Storing,
       CacheInv, RunsAreLoads

(* However a process starts, loads, unloads, exits and starts again: what  *)
(* is filed between two events is what is loaded, at its address and under *)
(* its name.  Each assumption is needed: a second process is forgotten     *)
(* with the first, a call that fails leaves an event unheard, and after    *)
(* bpsynthsyms alone nobody hears the process exit.                        *)
THEOREM FiledAlwaysLoaded ==
  ASSUME OneProcess, EngineAnswers, OnlyBploadsyms
  PROVE  Spec => []FiledIsLoaded
<1>1. Init => ProcessInv
  BY ProcessInductive
<1>2. ProcessInv /\ [Next]_vars => ProcessInv'
  BY ProcessInductive
<1>3. ProcessInv => FiledIsLoaded
  <2> SUFFICES ASSUME ProcessInv, task = Idle,
                      NEW k \in DOMAIN gModuleInfoByKey
               PROVE  /\ k.mPid \in DOMAIN image
                      /\ k.mBase \in DOMAIN image[k.mPid]
                      /\ info[gModuleInfoByKey[k]].mName =
                           NameOf[image[k.mPid][k.mBase]]
    BY DEF FiledIsLoaded
  <2>1. DOMAIN info # {}
    BY DEF ProcessInv, CacheInv, IInv, TableInv, KeyedIsNamed
  <2>2. Mirrored(k)
    BY <2>1, FiledIsStored DEF ProcessInv, KeysMirrored
  <2>3. QED
    BY <2>2 DEF Mirrored, Idle
<1>4. QED
  BY <1>1, <1>2, <1>3, PTL DEF Spec

(* A build is known by its module name: no library is reloaded in another  *)
(* build.                                                                  *)
NamesTellBuilds ==
  \A x, y \in Builds : NameOf[x] = NameOf[y] => x = y

(* The comment "we only support loading from a single bp symbol path"      *)
(* holds of one process, whatever fails: the command is refused for as     *)
(* long as there are modules filed, and these can only be its own.         *)
THEOREM SinglePathOfOneProcess ==
  ASSUME OneProcess
  PROVE  Spec => SingleSymbolPath
<1>1. ASSUME IInv, Next,
             gModuleInfoByKey # EmptyMap, gBasePdbPath # Null
      PROVE  gBasePdbPath' = gBasePdbPath
  <2>1. IsMap(gModuleInfoByKey, Keys, Infos)
    BY <1>1 DEF IInv, TypeInv, TypeOK, TablesTypeOK
  <2>2. PICK k \in DOMAIN gModuleInfoByKey : k \in Keys
    BY <1>1, <2>1 DEF IsMap, EmptyMap
  <2>3. ASSUME NEW path, NEW stores, Accepted(path, stores)
        PROVE  FALSE
    <3>1. current # Null /\ ~HasModuleInfoForPid(current)
      BY <1>1, <2>3 DEF Accepted, LoadRefused
    <3>2. current \in Pids
      BY <1>1, <3>1 DEF IInv, TypeInv, TypeOK, EngineTypeOK
    <3>3. k.mPid = current
      BY <2>2, <3>2 DEF OneProcess, Keys
    <3>4. DOMAIN gModuleInfoByKey \in SUBSET Keys
      BY <2>1 DEF IsMap
    <3>5. k \in PidRange(DOMAIN gModuleInfoByKey, current)
      BY <2>2, <3>2, <3>3, <3>4, PidRangeIsPid
    <3>6. QED
      BY <3>1, <3>5 DEF HasModuleInfoForPid
  <2>4. \/ gBasePdbPath' = gBasePdbPath
        \/ \E path \in Paths \cup {Null}, stores \in Loads :
             Accepted(path, stores)
    BY <1>1, BpLoadCases
    DEF Next, Proceed, LoadNextModule, AbandonLoading, FinishLoading,
        RunListener, StartProcess, LoadModule, UnloadModule, ModuleEvent,
        ExitProcess, SwitchProcess, EndSession
  <2>5. QED
    BY <2>3, <2>4
<1>2. ASSUME IInv, [Next]_vars
      PROVE  [gModuleInfoByKey # EmptyMap /\ gBasePdbPath # Null
                => gBasePdbPath' = gBasePdbPath]_vars
  BY <1>1, <1>2
<1>3. QED
  BY Inductive, <1>2, PTL DEF Spec, SingleSymbolPath

(* The comment "Don't load the symbols if we already have them" is right   *)
(* where a name stands for one build: the symbols that are kept are those  *)
(* of the module filed.                                                    *)
THEOREM SymbolsKeptAreOfModule ==
  ASSUME OneProcess, EngineAnswers, NamesTellBuilds
  PROVE  Spec => []SymbolsAreOfModule
<1>1. ASSUME ProcessInv
      PROVE  SymbolsAreOfModule
  <2> SUFFICES ASSUME task = Idle, NEW k \in DOMAIN gModuleInfoByKey,
                      k.mPid \in DOMAIN image,
                      k.mBase \in DOMAIN image[k.mPid],
                      info[gModuleInfoByKey[k]].mSyms # Null
               PROVE  info[gModuleInfoByKey[k]].mSyms =
                        image[k.mPid][k.mBase]
    BY DEF SymbolsAreOfModule
  <2> DEFINE m == gModuleInfoByKey[k]
             x == image[k.mPid][k.mBase]
  <2>1. m \in DOMAIN info /\ info[m] \in ModuleInfos
    BY <1>1 DEF ProcessInv, CacheInv, IInv, TableInv, KeyedIsNamed, TypeInv,
                TypeOK, TablesTypeOK, IsMap
  <2>2. Storing
    BY <1>1, <2>1 DEF ProcessInv, SymsWhenStoring
  <2>3. info[m].mName = NameOf[x]
    BY <1>1, <2>2 DEF ProcessInv, KeysMirrored, Mirrored, Idle
  <2>4. info[m].mSyms \in Builds /\ NameOf[info[m].mSyms] = info[m].mName
    BY <1>1, <2>1 DEF ProcessInv, CacheInv, SymsOfName, ModuleInfos
  <2>5. x \in Builds
    BY <1>1 DEF ProcessInv, CacheInv, IInv, TypeInv, TypeOK, EngineTypeOK,
                IsMap
  <2>6. QED
    BY <2>3, <2>4, <2>5 DEF NamesTellBuilds
<1>2. QED
  BY ProcessInductive, <1>1, PTL DEF Spec

(* Modules that a detach drops from the tables: with one process each key  *)
(* has an object of its own, which its name refers to beside it.           *)
LEMMA OwnObject ==
  ASSUME OneProcess, ProcessInv, Storing, task = Idle,
         NEW k \in DOMAIN gModuleInfoByKey
  PROVE  UseCount(gModuleInfoByKey[k]) = 2
<1> DEFINE m == gModuleInfoByKey[k]
<1>1. m \in DOMAIN info /\ TableInv
  BY DEF ProcessInv, CacheInv, IInv, TableInv, KeyedIsNamed
<1>2. NamesOf(m) = {info[m].mName}
  BY DEF NamesOf, ProcessInv, CacheInv, IInv, TableInv, KeyedIsNamed,
         NamesOwn
<1>3. ASSUME NEW l \in DOMAIN gModuleInfoByKey, gModuleInfoByKey[l] = m
      PROVE  l = k
  <2>1. \A j \in {k, l} :
          /\ j \in Keys
          /\ j.mPid \in DOMAIN image
          /\ j.mBase \in DOMAIN image[j.mPid]
          /\ info[m].mName = NameOf[image[j.mPid][j.mBase]]
    BY <1>3 DEF ProcessInv, KeysMirrored, Mirrored, Idle, CacheInv, IInv,
                TypeInv, TypeOK, TablesTypeOK, IsMap
  <2>2. k.mPid = l.mPid
    BY <2>1 DEF OneProcess, Keys
  <2>3. k.mBase = l.mBase
    BY <2>1, <2>2 DEF ProcessInv, CacheInv, LayoutOK, Separate
  <2>4. QED
    BY <2>1, <2>2, <2>3 DEF Keys
<1>4. KeysOf(m) = {k}
  BY <1>3 DEF KeysOf
<1>5. Cardinality({info[m].mName}) = 1 /\ Cardinality({k}) = 1
  BY FS_Singleton
<1>6. QED
  BY <1>2, <1>4, <1>5 DEF UseCount

LEMMA ClearDrops ==
  ASSUME OneProcess, ProcessInv, Storing, task = Idle, NEW pid \in Pids,
         ClearModuleInfoForPid(pid),
         NEW k \in DOMAIN gModuleInfoByKey \ DOMAIN gModuleInfoByKey'
  PROVE  gModuleInfoByKey[k] \notin DOMAIN info'
<1> DEFINE range == PidRange(DOMAIN gModuleInfoByKey, pid)
           unused == {m \in {gModuleInfoByKey[j] : j \in range} :
                        UseCount(m) = 2}
           dropped == {info[m].mName : m \in unused}
           gone == gModuleInfoByKey[k]
<1>1. /\ gModuleInfoByKey' = Erase(gModuleInfoByKey, range)
      /\ gModuleInfoByName' = Erase(gModuleInfoByName, dropped)
      /\ info' = Referenced(info, gModuleInfoByName', gModuleInfoByKey')
  BY DEF ClearModuleInfoForPid
<1>2. \A j \in DOMAIN gModuleInfoByKey : j \in range
  <2>1. DOMAIN gModuleInfoByKey \in SUBSET Keys
    BY DEF ProcessInv, CacheInv, IInv, TypeInv, TypeOK, TablesTypeOK, IsMap
  <2>2. range = {j \in DOMAIN gModuleInfoByKey : j.mPid = pid}
    BY <2>1, PidRangeIsPid
  <2> HIDE DEF range
  <2>3. QED
    BY <2>1, <2>2 DEF OneProcess, Keys
<1>3. info[gone].mName \in dropped
  BY <1>2, OwnObject
<1> HIDE DEF range, dropped
<1>4. DOMAIN gModuleInfoByKey' = {}
  BY <1>1, <1>2 DEF Erase
<1>5. /\ DOMAIN gModuleInfoByName' = DOMAIN gModuleInfoByName \ dropped
      /\ \A n \in DOMAIN gModuleInfoByName' :
           gModuleInfoByName'[n] = gModuleInfoByName[n]
  BY <1>1 DEF Erase
<1>6. \A n \in DOMAIN gModuleInfoByName' : gModuleInfoByName'[n] # gone
  BY <1>3, <1>5 DEF ProcessInv, CacheInv, IInv, TableInv, NamesOwn
<1>7. QED
  BY <1>1, <1>4, <1>6 DEF Referenced

(* The comment of ClearModuleInfoForPid holds of a session with one        *)
(* process: the reference count is right, and no module without a process  *)
(* outlives the detach under its name.                                     *)
THEOREM OrphansAlwaysDropped ==
  ASSUME OneProcess, EngineAnswers, OnlyBploadsyms
  PROVE  Spec => OrphansDropped
<1> DEFINE Dropped ==
      \A k \in DOMAIN gModuleInfoByKey \ DOMAIN gModuleInfoByKey' :
        gModuleInfoByKey[k] \notin DOMAIN info'
<1>1. ASSUME ProcessInv, Next, task = Idle
      PROVE  Dropped
  <2>1. CASE UNCHANGED tableVars
    BY <2>1 DEF tableVars
  <2>2. ASSUME NEW pid \in Pids, NotifyDetach(pid)
        PROVE  Dropped
    <3> SUFFICES ASSUME NEW k \in DOMAIN gModuleInfoByKey
                                    \ DOMAIN gModuleInfoByKey'
                 PROVE  gModuleInfoByKey[k] \notin DOMAIN info'
      OBVIOUS
    <3>1. DOMAIN info # {}
      BY <1>1 DEF ProcessInv, CacheInv, IInv, TableInv, KeyedIsNamed
    <3>2. Storing
      BY <1>1, <3>1, FiledIsStored
    <3>3. ClearModuleInfoForPid(pid)
      BY <2>2 DEF NotifyDetach, tableVars
    <3>4. QED
      BY <1>1, <3>2, <3>3, ClearDrops
  <2>3. ASSUME NEW p \in Pids, ExitProcess(p)
        PROVE  Dropped
    BY <2>2, <2>3 DEF ExitProcess
  <2>4. CASE EndSession
    <3>1. eventPid \in Pids /\ NotifyDetach(eventPid)
      BY <1>1, <2>4, EmptyMapType
      DEF EndSession, ProcessInv, CacheInv, IInv, EventOK, TypeInv, TypeOK,
          EngineTypeOK
    <3>2. QED
      BY <2>2, <3>1
  <2>5. CASE \/ Proceed
             \/ \E path \in Paths \cup {Null}, stores \in Loads :
                  BpLoad(path, stores)
             \/ \E p \in Pids, base \in Bases :
                  \/ \E x \in Exes : StartProcess(p, base, x)
                  \/ \E x \in Dlls : LoadModule(p, base, x)
                  \/ UnloadModule(p, base)
             \/ \E p \in Pids : SwitchProcess(p)
    <3>1. UNCHANGED tableVars
      BY <1>1, <2>5
      DEF Proceed, LoadNextModule, AbandonLoading, FinishLoading, RunListener,
          Idle, BpLoad, StartProcess, LoadModule, UnloadModule, ModuleEvent,
          SwitchProcess
    <3>2. QED
      BY <2>1, <3>1
  <2>6. QED
    BY <1>1, <2>3, <2>4, <2>5 DEF Next
<1>2. ProcessInv /\ [Next]_vars =>
        [task = Idle =>
           \A k \in DOMAIN gModuleInfoByKey \ DOMAIN gModuleInfoByKey' :
             gModuleInfoByKey[k] \in DOMAIN info' =>
               \E l \in DOMAIN gModuleInfoByKey' :
                 gModuleInfoByKey'[l] = gModuleInfoByKey[k]]_vars
  BY <1>1
<1>3. Init => ProcessInv
  BY ProcessInductive
<1>4. ProcessInv /\ [Next]_vars => ProcessInv'
  BY ProcessInductive
<1>5. QED
  BY <1>2, <1>3, <1>4, PTL DEF Spec, OrphansDropped

-----------------------------------------------------------------------------
(* Libraries are filed.                                                    *)

(* Inside an event the module it is about is the exception, until the      *)
(* first listener has run; inside a command those still to be filed are.   *)
DllsFiling ==
  /\ task.kind = "unload" =>
       current \in DOMAIN image /\ task.base \notin DOMAIN image[current]
  /\ mModuleEventListeners # << >> =>
       \A p \in DOMAIN image : \A base \in DOMAIN image[p] :
         image[p][base] \in Dlls =>
           \/ Filed(p, base)
           \/ task.kind = "load" /\ task.base = base /\ task.next = 1
  /\ task.kind = "command" =>
       \A base \in DOMAIN image[task.pid] \ task.left : Filed(task.pid, base)

DllsInv == IInv /\ DllsFiling

LEMMA FilingFiles ==
  ASSUME IInv, NEW pid \in DOMAIN image, NEW base \in DOMAIN image[pid],
         NEW stores, FileModule(pid, base, image[pid][base], stores)
  PROVE  /\ ModuleKey(pid, base) \in DOMAIN gModuleInfoByKey'
         /\ \A p, b : Filed(p, b) => Filed(p, b)'
<1>1. /\ pid \in Pids /\ base \in Bases /\ image[pid][base] \in Builds
      /\ TablesTypeOK /\ TableInv
  BY DEF IInv, TypeInv, TypeOK, EngineTypeOK, IsMap
<1>2. DOMAIN gModuleInfoByKey' =
        DOMAIN gModuleInfoByKey \cup {ModuleKey(pid, base)}
  BY <1>1, FiledKeys
<1>3. QED
  BY <1>2 DEF Filed

LEMMA LoadNextFiles ==
  ASSUME DllsInv, LoadNextModule
  PROVE  DllsFiling'
<1>1. PICK base \in task.left :
        /\ FileModule(task.pid, base, image[task.pid][base], task.stores)
        /\ task' = [task EXCEPT !.left = @ \ {base}]
  BY DEF LoadNextModule
<1>2. task \in Commands
  BY DEF LoadNextModule, DllsInv, IInv, TypeInv, TypeOK, Idle, Dispatches
<1>3. /\ task.kind = "command" /\ task'.kind = "command"
      /\ task'.pid = task.pid
      /\ task'.left = task.left \ {base}
  BY <1>1, <1>2 DEF LoadNextModule, Commands
<1>4. task.pid \in DOMAIN image /\ base \in DOMAIN image[task.pid]
  BY <1>3 DEF DllsInv, IInv, TypeInv, TaskOK
<1>5. /\ ModuleKey(task.pid, base) \in DOMAIN gModuleInfoByKey'
      /\ \A p, b : Filed(p, b) => Filed(p, b)'
  BY <1>1, <1>4, FilingFiles DEF DllsInv
<1>6. image' = image /\ mModuleEventListeners' = mModuleEventListeners
  BY DEF LoadNextModule, engineVars, callbackVars
<1>7. QED
  BY <1>3, <1>5, <1>6 DEF DllsInv, DllsFiling, Filed

(* The listener is registered once every module is filed.                  *)
LEMMA FinishFiles ==
  ASSUME OneProcess, DllsInv, FinishLoading
  PROVE  DllsFiling'
<1>1. /\ task \in Commands /\ task.kind = "command" /\ task.left = {}
      /\ task' = Idle
      /\ image' = image /\ gModuleInfoByKey' = gModuleInfoByKey
  BY DEF FinishLoading, DllsInv, IInv, TypeInv, TypeOK, Idle, Dispatches,
         engineVars, tableVars
<1>2. \A base \in DOMAIN image[task.pid] : Filed(task.pid, base)
  BY <1>1 DEF DllsInv, DllsFiling
<1>3. \A p \in DOMAIN image : p = task.pid
  BY <1>1 DEF OneProcess, DllsInv, IInv, TypeInv, TypeOK, EngineTypeOK,
              Commands
<1>4. QED
  BY <1>1, <1>2, <1>3 DEF DllsFiling, Filed, Idle

LEMMA ListenerFiles ==
  ASSUME OneProcess, EngineAnswers, DllsInv, RunListener
  PROVE  DllsFiling'
<1> DEFINE l == mModuleEventListeners[task.next]
<1>1. /\ task.kind \in {"load", "unload"}
      /\ task.base \in Bases
      /\ task.next \in DOMAIN mModuleEventListeners
      /\ l.pid \in Pids
  BY ListenerThere DEF RunListener, DllsInv, IInv
<1>2. /\ image' = image /\ current' = current
      /\ mModuleEventListeners' = mModuleEventListeners
      /\ mModuleEventListeners # << >>
  <2>1. mModuleEventListeners # << >>
    BY <1>1
  <2>2. QED
    BY <2>1 DEF RunListener, engineVars, callbackVars
<1>3. \/ task' = Idle
      \/ /\ task'.kind = task.kind /\ task'.base = task.base
         /\ task'.next = task.next + 1
  BY DEF RunListener, AtListener
<1>4. task.next \in Nat /\ task.next # 0
  <2>1. mModuleEventListeners \in Seq(Listeners)
    BY DEF DllsInv, IInv, TypeInv, TypeOK, CallbacksTypeOK
  <2>2. QED
    BY <1>1, <2>1
<1>5. ~ (task'.kind = "load" /\ task'.next = 1) /\ task'.kind # "command"
  BY <1>1, <1>3, <1>4 DEF Idle
<1>6. task'.kind = "unload" => task.kind = "unload" /\ task'.base = task.base
  BY <1>3 DEF Idle
<1>7. \A p \in DOMAIN image : p = l.pid
  BY <1>1 DEF OneProcess, DllsInv, IInv, TypeInv, TypeOK, EngineTypeOK
<1>8. CASE /\ task.kind = "load"
           /\ FileModule(l.pid, task.base, image[current][task.base], l.stores)
  <2>1. current \in DOMAIN image /\ task.base \in DOMAIN image[current]
    BY <1>8 DEF DllsInv, IInv, TypeInv, TaskOK
  <2>2. l.pid = current
    BY <1>7, <2>1
  <2>3. /\ ModuleKey(current, task.base) \in DOMAIN gModuleInfoByKey'
        /\ \A p, b : Filed(p, b) => Filed(p, b)'
    <3>1. FileModule(current, task.base, image[current][task.base], l.stores)
      BY <1>8, <2>2, Zenon
    <3>2. QED
      BY <2>1, <3>1, FilingFiles, Zenon DEF DllsInv
  <2>4. ASSUME NEW p \in DOMAIN image, NEW base \in DOMAIN image[p],
               image[p][base] \in Dlls
        PROVE  Filed(p, base)'
    <3>1. Filed(p, base) \/ task.base = base
      BY <1>2, <2>4 DEF DllsInv, DllsFiling
    <3>2. p = current
      BY <1>7, <2>2
    <3>3. QED
      BY <2>3, <3>1, <3>2 DEF Filed
  <2>5. QED
    BY <1>2, <1>5, <1>6, <1>8, <2>4 DEF DllsFiling
<1>9. CASE task.kind = "unload" /\ ForgetModule(l.pid, task.base)
  <2>1. DOMAIN gModuleInfoByKey' =
          DOMAIN gModuleInfoByKey \ {ModuleKey(l.pid, task.base)}
    BY <1>9 DEF ForgetModule, Erase
  <2>2. current \in DOMAIN image /\ task.base \notin DOMAIN image[current]
    BY <1>9 DEF DllsInv, DllsFiling
  <2>3. ASSUME NEW p \in DOMAIN image, NEW base \in DOMAIN image[p],
               image[p][base] \in Dlls
        PROVE  Filed(p, base)'
    <3>1. Filed(p, base)
      BY <1>2, <1>9, <2>3 DEF DllsInv, DllsFiling
    <3>2. base # task.base
      BY <1>7, <2>2
    <3>3. ModuleKey(p, base) # ModuleKey(l.pid, task.base)
      BY <3>2 DEF ModuleKey
    <3>4. QED
      BY <2>1, <3>1, <3>3 DEF Filed
  <2>4. QED
    BY <1>2, <1>5, <1>6, <2>2, <2>3 DEF DllsFiling
<1>10. QED
  BY <1>8, <1>9 DEF RunListener, EngineAnswers

LEMMA BpLoadFiles ==
  ASSUME DllsInv, NEW path, NEW stores \in Loads, BpLoad(path, stores)
  PROVE  DllsFiling'
<1>1. CASE Accepted(path, stores)
  <2>1. /\ task = Idle
        /\ task'.kind = "command"
        /\ DOMAIN image'[task'.pid] \ task'.left = {}
        /\ UNCHANGED <<image, gModuleInfoByKey, mModuleEventListeners>>
    BY <1>1 DEF Accepted, engineVars, tableVars
  <2>2. QED
    BY <2>1 DEF DllsInv, DllsFiling, Filed, Idle
<1>2. CASE /\ UNCHANGED task
           /\ UNCHANGED <<engineVars, tableVars, mModuleEventListeners>>
  BY <1>2 DEF DllsInv, DllsFiling, Filed, engineVars, tableVars
<1>3. QED
  BY <1>1, <1>2, BpLoadCases

LEMMA StartFiles ==
  ASSUME DllsInv, NEW p \in Pids, NEW base \in Bases, NEW x \in Exes,
         StartProcess(p, base, x)
  PROVE  DllsFiling'
<1>1. /\ task = Idle /\ task' = Idle
      /\ p \notin DOMAIN image
      /\ image' = Emplace(image, p, Emplace(EmptyMap, base, x))
      /\ UNCHANGED <<gModuleInfoByKey, mModuleEventListeners>>
  BY DEF StartProcess, tableVars, callbackVars
<1>2. /\ DOMAIN image' = DOMAIN image \cup {p}
      /\ \A q \in DOMAIN image : image'[q] = image[q]
      /\ \A b \in DOMAIN image'[p] : image'[p][b] = x
  BY <1>1 DEF Emplace, EmptyMap
<1>3. x \notin Dlls
  BY CacheAssumption
<1>4. QED
  BY <1>1, <1>2, <1>3 DEF DllsInv, DllsFiling, Filed, Idle

(* A load event finds every other library filed.                           *)
LEMMA LoadFiles ==
  ASSUME OneProcess, DllsInv, NEW p \in Pids, NEW base \in Bases,
         NEW x \in Dlls, LoadModule(p, base, x)
  PROVE  DllsFiling'
<1>1. /\ task = Idle
      /\ p \in DOMAIN image
      /\ image' = [image EXCEPT ![p] = Emplace(image[p], base, x)]
      /\ task' = AtListener("load", base, 1)
      /\ UNCHANGED <<gModuleInfoByKey, mModuleEventListeners>>
  BY DEF LoadModule, ModuleEvent, tableVars, callbackVars
<1>2. task'.kind # "unload" /\ task'.kind # "command"
  BY <1>1 DEF AtListener, Idle
<1>3. ASSUME mModuleEventListeners # << >>
      PROVE  task' = [kind |-> "load", base |-> base, next |-> 1]
  <2>1. mModuleEventListeners \in Seq(Listeners)
    BY DEF DllsInv, IInv, TypeInv, TypeOK, CallbacksTypeOK
  <2>2. 1 <= Len(mModuleEventListeners)
    BY <1>3, <2>1
  <2>3. QED
    BY <1>1, <2>2 DEF AtListener
<1>4. ASSUME mModuleEventListeners # << >>, NEW q \in DOMAIN image',
             NEW b \in DOMAIN image'[q], image'[q][b] \in Dlls, b # base
      PROVE  Filed(q, b)
  <2>1. q \in DOMAIN image /\ b \in DOMAIN image[q]
        /\ image[q][b] = image'[q][b]
    BY <1>1, <1>4 DEF Emplace
  <2>2. QED
    BY <1>1, <1>4, <2>1 DEF DllsInv, DllsFiling, Idle
<1>5. QED
  BY <1>1, <1>2, <1>3, <1>4 DEF DllsFiling, Filed

LEMMA UnloadFiles ==
  ASSUME DllsInv, NEW p \in Pids, NEW base \in Bases, UnloadModule(p, base)
  PROVE  DllsFiling'
<1>1. /\ task = Idle
      /\ p \in DOMAIN image
      /\ image' = [image EXCEPT ![p] = Erase(image[p], {base})]
      /\ current' = p
      /\ task' = AtListener("unload", base, 1)
      /\ UNCHANGED <<gModuleInfoByKey, mModuleEventListeners>>
  BY DEF UnloadModule, ModuleEvent, tableVars, callbackVars
<1>2. /\ task'.kind # "command"
      /\ task'.kind = "unload" => task'.base = base
  BY <1>1 DEF AtListener, Idle
<1>3. p \in DOMAIN image' /\ base \notin DOMAIN image'[p]
  BY <1>1 DEF Erase
<1>4. \A q \in DOMAIN image' : /\ q \in DOMAIN image
                               /\ DOMAIN image'[q] \subseteq DOMAIN image[q]
                               /\ \A b \in DOMAIN image'[q] :
                                    image'[q][b] = image[q][b]
  BY <1>1 DEF Erase
<1>5. ASSUME mModuleEventListeners # << >>, NEW q \in DOMAIN image',
             NEW b \in DOMAIN image'[q], image'[q][b] \in Dlls
      PROVE  Filed(q, b)
  <2>1. q \in DOMAIN image /\ b \in DOMAIN image[q] /\ image[q][b] \in Dlls
    BY <1>4, <1>5
  <2>2. task.kind # "load"
    BY <1>1 DEF Idle
  <2>3. QED
    BY <1>5, <2>1, <2>2 DEF DllsInv, DllsFiling
<1>6. QED
  BY <1>1, <1>2, <1>3, <1>5 DEF DllsFiling, Filed

LEMMA DetachFiles ==
  ASSUME OneProcess, DllsInv,
         \/ \E p \in Pids : ExitProcess(p)
         \/ EndSession
  PROVE  DllsFiling'
<1>1. task' = Idle
  BY DEF ExitProcess, EndSession
<1>2. DOMAIN image' = {}
  <2>1. ASSUME NEW p \in Pids, ExitProcess(p)
        PROVE  DOMAIN image' = {}
    BY <2>1 DEF ExitProcess, Erase, OneProcess, DllsInv, IInv, TypeInv,
                TypeOK, EngineTypeOK
  <2>2. CASE EndSession
    BY <2>2, EmptyMapType DEF EndSession
  <2>3. QED
    BY <2>1, <2>2
<1>3. QED
  BY <1>1, <1>2 DEF DllsFiling, Idle

LEMMA DllsInductive ==
  ASSUME OneProcess, EngineAnswers
  PROVE  /\ Init => DllsInv
         /\ DllsInv /\ [Next]_vars => DllsInv'
<1>1. Init => DllsInv
  BY Inductive DEF Init, DllsInv, DllsFiling, Idle
<1>2. ASSUME DllsInv, [Next]_vars
      PROVE  DllsFiling'
  <2>1. CASE Proceed
    <3>1. ~AbandonLoading
      BY DEF AbandonLoading, EngineAnswers
    <3>2. QED
      BY <1>2, <2>1, <3>1, LoadNextFiles, FinishFiles, ListenerFiles
      DEF Proceed
  <2>2. ASSUME NEW path, NEW stores \in Loads, BpLoad(path, stores)
        PROVE  DllsFiling'
    BY <1>2, <2>2, BpLoadFiles
  <2>3. ASSUME NEW p \in Pids, NEW base \in Bases,
               \/ \E x \in Exes : StartProcess(p, base, x)
               \/ \E x \in Dlls : LoadModule(p, base, x)
               \/ UnloadModule(p, base)
        PROVE  DllsFiling'
    BY <1>2, <2>3, StartFiles, LoadFiles, UnloadFiles
  <2>4. CASE (\E p \in Pids : ExitProcess(p)) \/ EndSession
    BY <1>2, <2>4, DetachFiles
  <2>5. ASSUME NEW p \in Pids, SwitchProcess(p)
        PROVE  DllsFiling'
    BY <1>2, <2>5 DEF SwitchProcess, DllsInv, DllsFiling, Filed, Idle,
                      tableVars, callbackVars
  <2>6. CASE UNCHANGED vars
    BY <1>2, <2>6 DEF vars, engineVars, tableVars, callbackVars, DllsInv,
                      DllsFiling, Filed
  <2>7. QED
    BY <1>2, <2>1, <2>2, <2>3, <2>4, <2>5, <2>6 DEF Next
<1>3. DllsInv /\ [Next]_vars => DllsInv'
  BY <1>2, Inductive DEF DllsInv
<1>4. QED
  BY <1>1, <1>3

(* Once a listener is registered no library of the process is missed,      *)
(* whichever of the two commands it is of: the load events and the loop of *)
(* the command leave no gap between them.                                  *)
THEOREM DllsAlwaysFiled ==
  ASSUME OneProcess, EngineAnswers
  PROVE  Spec => []DllsAreFiled
<1>1. Init => DllsInv
  BY DllsInductive
<1>2. DllsInv /\ [Next]_vars => DllsInv'
  BY DllsInductive
<1>3. ASSUME DllsInv
      PROVE  DllsAreFiled
  <2> SUFFICES ASSUME task = Idle, NEW i \in DOMAIN mModuleEventListeners,
                      NEW l, l = mModuleEventListeners[i],
                      l.pid \in DOMAIN image,
                      NEW base \in DOMAIN image[l.pid],
                      image[l.pid][base] \in Dlls
               PROVE  Filed(l.pid, base)
    BY DEF DllsAreFiled
  <2>1. mModuleEventListeners # << >>
    OBVIOUS
  <2>2. QED
    BY <1>3, <2>1 DEF DllsInv, DllsFiling, Idle
<1>4. QED
  BY <1>1, <1>2, <1>3, PTL DEF Spec

-----------------------------------------------------------------------------
(* Lookups.                                                                *)

LEMMA WrapSmall == \A n \in 0 .. MaxBase : Wrap(n) = n
BY KeyAssumption DEF Wrap

LEMMA LastRva ==
  ASSUME NEW rvas \in SUBSET (0 .. MaxBase), rvas # {}
  PROVE  LET last == CHOOSE r \in rvas : \A s \in rvas : s <= r
         IN  last \in rvas /\ \A s \in rvas : s <= last
<1>1. \E r \in rvas : \A s \in rvas : s <= r
  BY KeyAssumption, HasGreatest
<1>2. QED
  BY <1>1

Latest(rvas) == CHOOSE r \in rvas : \A s \in rvas : s <= r

(* --upper_bound stands on the last module at or before the address.       *)
LEMMA LastKey ==
  ASSUME OneProcess, NEW S \in SUBSET Keys, NEW pid \in Pids,
         NEW offset \in 0 .. MaxBase
  PROVE  LET here == ModuleKey(pid, offset)
             before == {j \in S : j.mBase <= offset}
             key == LastNotAfter(S, here)
         IN  /\ S \ FromUpperBound(S, here) = before
             /\ before # {} => key \in before /\ \A j \in before :
                                                   j.mBase <= key.mBase
<1> DEFINE here == ModuleKey(pid, offset)
           before == {j \in S : j.mBase <= offset}
           bases == {b \in 0 .. MaxBase : \E j \in before : j.mBase = b}
<1>1. /\ MaxBase \in Nat
      /\ \A j \in S : j.mPid = pid /\ j.mPid \in Nat /\ j.mBase \in 0 .. MaxBase
  BY KeyAssumption DEF OneProcess, Keys
<1>2. here.mPid = pid /\ here.mBase = offset
  BY DEF ModuleKey
<1>3. \A j \in S : KeyLess(here, j) <=> offset < j.mBase
  BY <1>1, <1>2 DEF KeyLess
<1>4. S \ FromUpperBound(S, here) = before
  BY <1>1, <1>3 DEF FromUpperBound
<1>5. \A i, j \in before : KeyLess(i, j) <=> i.mBase < j.mBase
  BY <1>1 DEF KeyLess
<1>6. ASSUME before # {}
      PROVE  /\ LastNotAfter(S, here) \in before
             /\ \A j \in before : j.mBase <= LastNotAfter(S, here).mBase
  <2>1. bases \in SUBSET (0 .. MaxBase) /\ bases # {}
    BY <1>1, <1>6
  <2>2. PICK b \in bases : \A c \in bases : c <= b
    BY <1>1, <2>1, HasGreatest
  <2>3. PICK i \in before : i.mBase = b
    BY <2>2
  <2>4. \A j \in before : j.mBase <= i.mBase
    BY <1>1, <2>2, <2>3
  <2>5. \E i_1 \in before : \A j \in before : ~KeyLess(i_1, j)
    BY <1>1, <1>5, <2>3, <2>4
  <2>6. LastNotAfter(S, here) =
          CHOOSE i_1 \in before : \A j \in before : ~KeyLess(i_1, j)
    BY <1>4 DEF LastNotAfter
  <2> HIDE DEF before
  <2>7. /\ LastNotAfter(S, here) \in before
        /\ \A j \in before : ~KeyLess(LastNotAfter(S, here), j)
    BY <2>5, <2>6
  <2>8. \A j \in before : j.mBase <= LastNotAfter(S, here).mBase
    BY <1>1, <1>5, <2>7 DEF before
  <2>9. QED
    BY <2>7, <2>8
<1>7. QED
  BY <1>4, <1>6

(* The module that the address lies in is the one the lookup goes to.      *)
LEMMA LookupFindsModule ==
  ASSUME OneProcess, ProcessInv, Storing, task = Idle,
         NEW k \in DOMAIN gModuleInfoByKey, k.mPid = current,
         NEW offset \in
           k.mBase .. k.mBase + SizeOf[image[current][k.mBase]] - 1
  PROVE  LET keys == DOMAIN gModuleInfoByKey
             here == ModuleKey(current, offset)
         IN  /\ keys # FromUpperBound(keys, here)
             /\ LastNotAfter(keys, here) = k
<1> DEFINE keys == DOMAIN gModuleInfoByKey
           here == ModuleKey(current, offset)
           key == LastNotAfter(keys, here)
           before == {j \in keys : j.mBase <= offset}
<1>1. keys \in SUBSET Keys
  BY DEF ProcessInv, CacheInv, IInv, TypeInv, TypeOK, TablesTypeOK, IsMap
<1>2. \A j \in keys : /\ j.mPid = current
                      /\ current \in DOMAIN image
                      /\ j.mBase \in DOMAIN image[current]
  BY <1>1 DEF ProcessInv, KeysMirrored, Mirrored, Idle, OneProcess, Keys
<1>3. current \in DOMAIN image /\ IsMap(image[current], Bases, Builds)
  BY <1>2 DEF ProcessInv, CacheInv, IInv, TypeInv, TypeOK, EngineTypeOK
<1>4. \A j \in keys : j.mBase \in 0 .. MaxBase
  BY <1>1, KeyAssumption DEF Keys
<1>5. /\ SizeOf[image[current][k.mBase]] \in Nat
      /\ k.mBase + SizeOf[image[current][k.mBase]] <= MaxBase
  BY <1>2, <1>3, CacheAssumption
  DEF IsMap, ProcessInv, CacheInv, LayoutOK, Separate
<1>6. offset \in 0 .. MaxBase /\ k.mBase <= offset
  BY <1>4, <1>5, KeyAssumption
<1>7. current \in Pids
  BY <1>3 DEF ProcessInv, CacheInv, IInv, TypeInv, TypeOK, EngineTypeOK
<1>8. /\ keys \ FromUpperBound(keys, here) = before
      /\ before # {} => key \in before /\ \A j \in before : j.mBase <= key.mBase
  BY <1>1, <1>6, <1>7, LastKey
<1>9. k \in before
  BY <1>6
<1>10. key \in keys /\ key.mBase <= offset /\ k.mBase <= key.mBase
  BY <1>8, <1>9
<1> HIDE DEF key
<1>11. key.mBase = k.mBase
  <2>1. key.mBase \in DOMAIN image[current] /\ k.mBase \in DOMAIN image[current]
    BY <1>2, <1>10
  <2>2. key.mBase # k.mBase =>
          \/ key.mBase >= k.mBase + SizeOf[image[current][k.mBase]]
          \/ k.mBase >= key.mBase + SizeOf[image[current][key.mBase]]
    BY <1>3, <2>1 DEF ProcessInv, CacheInv, LayoutOK, Separate
  <2>3. SizeOf[image[current][key.mBase]] \in Nat
    BY <1>3, <2>1, CacheAssumption DEF IsMap
  <2>4. key.mBase \in Nat /\ k.mBase \in Nat
    BY <1>4, <1>10
  <2>5. QED
    BY <1>5, <1>6, <1>10, <2>2, <2>3, <2>4
<1>12. key = k
  BY <1>1, <1>2, <1>10, <1>11 DEF Keys
<1>13. keys # FromUpperBound(keys, here)
  BY <1>8, <1>9
<1>14. QED
  BY <1>12, <1>13 DEF key

(* The user keeps to one symbol directory.                                 *)
OnePath == \A q, r \in Paths : q = r

OfBuild(i, x, path) ==
  /\ i.mName = NameOf[x]
  /\ i.mSize = SizeOf[x]
  /\ i.mSyms = IF <<path, x>> \in SymFiles THEN x ELSE Null

(* Every object has the symbols of its build, or there is no file of them. *)
ObjectsOfBuilds ==
  \A m \in DOMAIN info : \E x \in Builds : OfBuild(info[m], x, gBasePdbPath)

LEMMA RefreshedSize ==
  ASSUME NEW m, NEW x, NEW stores, NEW idRead,
         m \in DOMAIN info => info[m] \in ModuleInfos
  PROVE  Refreshed(m, x, stores, idRead).mSize =
           IF m \in DOMAIN info THEN info[m].mSize ELSE SizeOf[x]
BY DEF Refreshed, LoadBpSymbols, LoadBpSymbolFile, NewModuleInfo, ModuleInfos

LEMMA PathStays ==
  ASSUME OnePath, CacheInv, Next, DOMAIN info # {}
  PROVE  gBasePdbPath' = gBasePdbPath
<1>1. gBasePdbPath \in Paths
  BY DEF CacheInv, PathKnown, IInv, TypeInv, TypeOK
<1>2. gBasePdbPath' = gBasePdbPath \/ gBasePdbPath' \in Paths
  BY BpLoadCases
  DEF Accepted, Next, Proceed, LoadNextModule, AbandonLoading,
      FinishLoading, RunListener, StartProcess, LoadModule, UnloadModule,
      ModuleEvent, ExitProcess, SwitchProcess, EndSession
<1>3. QED
  BY <1>1, <1>2 DEF OnePath

LEMMA ObjectsOfBuildsStep ==
  ASSUME EngineAnswers, OnlyBploadsyms, OnePath, NamesTellBuilds,
         CacheInv, ObjectsOfBuilds, Next
  PROVE  ObjectsOfBuilds'
<1> SUFFICES ASSUME NEW n \in DOMAIN info'
             PROVE  \E x \in Builds : OfBuild(info'[n], x, gBasePdbPath')
  BY DEF ObjectsOfBuilds
<1>1. ASSUME n \in DOMAIN info, info'[n] = info[n]
      PROVE  \E x \in Builds : OfBuild(info'[n], x, gBasePdbPath')
  <2>1. gBasePdbPath' = gBasePdbPath
    BY <1>1, PathStays
  <2>2. PICK x \in Builds : OfBuild(info[n], x, gBasePdbPath)
    BY <1>1 DEF ObjectsOfBuilds
  <2>3. OfBuild(info'[n], x, gBasePdbPath')
    BY <1>1, <2>1, <2>2 DEF OfBuild
  <2>4. QED
    BY <2>3
<1>2. CASE ObjectsStay
  BY <1>1, <1>2 DEF ObjectsStay
<1>3. CASE SomeRefreshed
  <2>1. PICK m \in Infos, x \in Builds, stores \in BOOLEAN,
             idRead \in EngineOutcome :
          Runs(stores) /\ Refreshing(m, x, stores, idRead)
    BY <1>3 DEF SomeRefreshed
  <2>2. stores = TRUE
    BY <2>1 DEF CacheInv, RunsAreLoads, OnlyBploadsyms
  <2>3. idRead = TRUE /\ idRead \in BOOLEAN
    BY DEF EngineOutcome, EngineAnswers
  <2>4. CASE n # m
    BY <1>1, <2>1, <2>4 DEF Refreshing
  <2>5. CASE n = m
    <3> DEFINE i == Refreshed(m, x, stores, idRead)
               was == IF m \in DOMAIN info THEN info[m].mSyms ELSE Null
    <3>1. m \in DOMAIN info => /\ info[m] \in ModuleInfos
                               /\ info[m].mName = NameOf[x]
      BY <2>1 DEF Refreshing, CacheInv, IInv, TypeInv, TypeOK, TablesTypeOK,
                  IsMap
    <3>2. m \in DOMAIN info => OfBuild(info[m], x, gBasePdbPath)
      BY <3>1 DEF ObjectsOfBuilds, NamesTellBuilds, OfBuild
    <3>3. /\ i.mName = NameOf[x]
          /\ i.mSyms = IF /\ was = Null /\ stores /\ idRead
                          /\ <<gBasePdbPath, x>> \in SymFiles
                       THEN x ELSE was
      BY <2>3, <3>1, RefreshedSyms, Zenon
    <3>4. i.mSize = IF m \in DOMAIN info THEN info[m].mSize ELSE SizeOf[x]
      BY <3>1, RefreshedSize, Zenon
    <3>5. info'[n] = i /\ gBasePdbPath' = gBasePdbPath
      BY <1>3, <2>1, <2>5 DEF Refreshing, SomeRefreshed
    <3> HIDE DEF i
    <3>6. /\ i.mSize = SizeOf[x]
          /\ i.mSyms = IF <<gBasePdbPath, x>> \in SymFiles THEN x ELSE Null
      BY <2>2, <2>3, <3>2, <3>3, <3>4 DEF OfBuild
    <3>7. OfBuild(info'[n], x, gBasePdbPath')
      BY <3>3, <3>5, <3>6 DEF OfBuild
    <3>8. QED
      BY <3>7
  <2>6. QED
    BY <2>4, <2>5
<1>4. QED
  BY <1>2, <1>3, ObjectsChange DEF CacheInv

LookupInv == ProcessInv /\ ObjectsOfBuilds

(* What NearestSymbol computes once it stands on the right module.         *)
LEMMA AnswerOfModule ==
  ASSUME NEW x \in Builds, NEW k, NEW module,
         OfBuild(module, x, gBasePdbPath),
         k.mBase \in 0 .. MaxBase, k.mBase + SizeOf[x] <= MaxBase,
         NEW offset \in k.mBase .. k.mBase + SizeOf[x] - 1,
         LastNotAfter(DOMAIN gModuleInfoByKey, ModuleKey(current, offset)) = k,
         DOMAIN gModuleInfoByKey #
           FromUpperBound(DOMAIN gModuleInfoByKey, ModuleKey(current, offset)),
         module = info[gModuleInfoByKey[k]]
  PROVE  LET answer == NearestSymbol(current, offset)
             known == {k.mBase + r : r \in SymRvas[x]} \cap 0 .. offset
         IN  IF <<gBasePdbPath, x>> \in SymFiles /\ known # {}
             THEN /\ answer.kind = "symbol"
                  /\ answer.key = k
                  /\ answer.symOffset \in known
                  /\ \A o \in known : o <= answer.symOffset
                  /\ answer.displacement = offset - answer.symOffset
             ELSE answer = Unresolved
<1> DEFINE answer == NearestSymbol(current, offset)
           known == {k.mBase + r : r \in SymRvas[x]} \cap 0 .. offset
           rvas == RvasUpTo(mSymsByRva(module), Wrap(offset - k.mBase))
           last == CHOOSE r \in rvas : \A s \in rvas : s <= r
<1>1. /\ MaxBase \in Nat
      /\ SizeOf[x] \in Nat
      /\ SymRvas[x] \subseteq 0 .. MaxBase
      /\ offset \in 0 .. MaxBase
      /\ offset - k.mBase \in 0 .. MaxBase
  BY KeyAssumption, CacheAssumption, LookupAssumption
<1>2. /\ Wrap(offset - k.mBase) = offset - k.mBase
      /\ Wrap(k.mBase + module.mSize) = k.mBase + SizeOf[x]
  BY <1>1, WrapSmall DEF OfBuild
<1>3. ~ (offset > Wrap(k.mBase + module.mSize))
  BY <1>1, <1>2
<1>4. answer = IF rvas = {} THEN Unresolved ELSE Resolved(k, last, offset)
  <2> DEFINE keys == DOMAIN gModuleInfoByKey
             here == ModuleKey(current, offset)
             key == LastNotAfter(keys, here)
             at == info[gModuleInfoByKey[key]]
             found == RvasUpTo(mSymsByRva(at), Wrap(offset - key.mBase))
  <2>1. answer =
          IF \/ keys = FromUpperBound(keys, here)
             \/ offset > Wrap(key.mBase + at.mSize)
             \/ found = {}
          THEN Unresolved
          ELSE Resolved(key, Latest(found), offset)
    BY DEF NearestSymbol, Latest
  <2>2. keys # FromUpperBound(keys, here)
    OBVIOUS
  <2>3. key = k /\ at = module
    OBVIOUS
  <2>4. last = Latest(rvas)
    BY DEF Latest
  <2> HIDE DEF key, at, answer, last
  <2>5. found = rvas
    BY <2>3
  <2> HIDE DEF found, rvas, keys, here
  <2>6. QED
    BY <1>3, <2>1, <2>2, <2>3, <2>4, <2>5
<1>5. mSymsByRva(module) =
        IF <<gBasePdbPath, x>> \in SymFiles THEN SymRvas[x] ELSE {}
  <2>1. x # Null
    BY CacheAssumption
  <2>2. QED
    BY <2>1 DEF OfBuild, mSymsByRva
<1>6. CASE <<gBasePdbPath, x>> \notin SymFiles
  <2>1. rvas = {}
    BY <1>5, <1>6 DEF RvasUpTo
  <2>2. QED
    BY <1>4, <1>6, <2>1
<1>7. CASE <<gBasePdbPath, x>> \in SymFiles
  <2>1. rvas = {r \in SymRvas[x] : r <= offset - k.mBase}
    BY <1>2, <1>5, <1>7 DEF RvasUpTo
  <2> HIDE DEF rvas
  <2>2. \A r \in SymRvas[x] :
          r \in rvas <=> k.mBase + r \in 0 .. offset
    BY <1>1, <2>1
  <2>3. CASE rvas = {}
    <3>1. known = {}
      BY <2>2, <2>3
    <3>2. QED
      BY <1>4, <2>3, <3>1
  <2>4. CASE rvas # {}
    <3>1. rvas \in SUBSET (0 .. MaxBase)
      BY <1>1, <2>1
    <3>2. last \in rvas /\ \A s \in rvas : s <= last
      BY <2>4, <3>1, LastRva
    <3> HIDE DEF last
    <3>3. /\ k.mBase + last \in known
          /\ \A o \in known : o <= k.mBase + last
      <4>1. k.mBase + last \in known
        BY <2>1, <2>2, <3>2
      <4>2. ASSUME NEW o \in known
            PROVE  o <= k.mBase + last
        <5>1. PICK r \in SymRvas[x] : o = k.mBase + r
          OBVIOUS
        <5>2. r \in rvas
          BY <2>2, <5>1
        <5>3. r \in 0 .. MaxBase /\ last \in 0 .. MaxBase
          BY <3>1, <3>2, <5>2
        <5>4. r <= last
          BY <3>2, <5>2
        <5>5. QED
          BY <1>1, <5>1, <5>3, <5>4
      <4>3. QED
        BY <4>1, <4>2
    <3>4. k.mBase + last \in 0 .. offset
      BY <3>3
    <3> HIDE DEF known
    <3>5. /\ Wrap(k.mBase + last) = k.mBase + last
          /\ Wrap(offset - (k.mBase + last)) = offset - (k.mBase + last)
      <4>1. /\ k.mBase + last \in 0 .. MaxBase
            /\ offset - (k.mBase + last) \in 0 .. MaxBase
        BY <1>1, <3>4
      <4>2. QED
        BY <4>1, WrapSmall
    <3>6. answer = [kind |-> "symbol", key |-> k, rva |-> last,
                    symOffset |-> k.mBase + last,
                    displacement |-> offset - (k.mBase + last)]
      BY <1>4, <2>4, <3>5 DEF Resolved
    <3> HIDE DEF answer
    <3>7. /\ known # {}
          /\ answer.kind = "symbol"
          /\ answer.key = k
          /\ answer.symOffset \in known
          /\ \A o \in known : o <= answer.symOffset
          /\ answer.displacement = offset - answer.symOffset
      BY <3>3, <3>6
    <3>8. QED
      BY <1>7, <3>7 DEF answer, known
  <2>5. QED
    BY <2>3, <2>4
<1>8. QED
  BY <1>6, <1>7

LEMMA ExactInState ==
  ASSUME OneProcess, OnlyBploadsyms, NamesTellBuilds, LookupInv
  PROVE  LookupIsExact
<1> USE DEF LookupInv
<1> SUFFICES ASSUME NEW k \in DOMAIN gModuleInfoByKey,
                    task = Idle, k.mPid = current,
                    NEW x, x = image[current][k.mBase],
                    NEW offset \in k.mBase .. k.mBase + SizeOf[x] - 1
             PROVE  LET answer == NearestSymbol(current, offset)
                        known == {k.mBase + r : r \in SymRvas[x]}
                                   \cap 0 .. offset
                    IN  IF <<gBasePdbPath, x>> \in SymFiles /\ known # {}
                        THEN /\ answer.kind = "symbol"
                             /\ answer.key = k
                             /\ answer.symOffset \in known
                             /\ \A o \in known : o <= answer.symOffset
                             /\ answer.displacement =
                                  offset - answer.symOffset
                        ELSE answer = Unresolved
  BY DEF LookupIsExact
<1> DEFINE module == info[gModuleInfoByKey[k]]
<1>1. gModuleInfoByKey[k] \in DOMAIN info
  BY DEF ProcessInv, CacheInv, IInv, TableInv, KeyedIsNamed
<1>2. Storing
  BY <1>1, FiledIsStored
<1>3. /\ current \in DOMAIN image
      /\ k.mBase \in DOMAIN image[current]
      /\ module.mName = NameOf[x]
  BY <1>2 DEF ProcessInv, KeysMirrored, Mirrored, Idle
<1>4. IsMap(image[current], Bases, Builds) /\ Separate(image[current])
  BY <1>3 DEF ProcessInv, CacheInv, IInv, TypeInv, TypeOK, EngineTypeOK,
              LayoutOK
<1>5. x \in Builds /\ k.mBase \in 0 .. MaxBase
  BY <1>3, <1>4, KeyAssumption DEF IsMap
<1>6. k.mBase + SizeOf[x] <= MaxBase
  BY <1>3, <1>4 DEF Separate
<1>7. OfBuild(module, x, gBasePdbPath)
  <2>1. PICK y \in Builds : OfBuild(module, y, gBasePdbPath)
    BY <1>1 DEF ObjectsOfBuilds
  <2>2. y = x
    BY <1>3, <1>5, <2>1 DEF OfBuild, NamesTellBuilds
  <2>3. QED
    BY <2>1, <2>2
<1>8. /\ DOMAIN gModuleInfoByKey #
           FromUpperBound(DOMAIN gModuleInfoByKey, ModuleKey(current, offset))
      /\ LastNotAfter(DOMAIN gModuleInfoByKey, ModuleKey(current, offset)) = k
  BY <1>2, LookupFindsModule
<1> HIDE DEF LookupInv
<1>9. QED
  BY <1>5, <1>6, <1>7, <1>8, AnswerOfModule

LEMMA LookupInductive ==
  ASSUME OneProcess, EngineAnswers, OnlyBploadsyms, OnePath, NamesTellBuilds
  PROVE  /\ Init => LookupInv
         /\ LookupInv /\ [Next]_vars => LookupInv'
<1>1. Init => LookupInv
  BY ProcessInductive, EmptyMapType DEF Init, LookupInv, ObjectsOfBuilds
<1>2. ASSUME LookupInv, [Next]_vars
      PROVE  LookupInv'
  <2>1. ProcessInv'
    BY <1>2, ProcessInductive DEF LookupInv
  <2>2. CASE Next
    BY <1>2, <2>1, <2>2, ObjectsOfBuildsStep DEF LookupInv, ProcessInv
  <2>3. CASE UNCHANGED vars
    BY <1>2, <2>1, <2>3 DEF LookupInv, ObjectsOfBuilds, vars, tableVars
  <2>4. QED
    BY <1>2, <2>2, <2>3
<1>3. QED
  BY <1>1, <1>2

(* bpln, bpk and iat name the right symbol: in a session with one process, *)
(* one symbol directory and one build of each module, the lookup of any    *)
(* address inside a filed module is answered with the last symbol at or    *)
(* before it, and its distance, however often modules come and go.         *)
THEOREM LookupAlwaysExact ==
  ASSUME OneProcess, EngineAnswers, OnlyBploadsyms, OnePath, NamesTellBuilds
  PROVE  Spec => []LookupIsExact
<1>1. Init => LookupInv
  BY LookupInductive
<1>2. LookupInv /\ [Next]_vars => LookupInv'
  BY LookupInductive
<1>3. LookupInv => LookupIsExact
  BY ExactInState
<1>4. QED
  BY <1>1, <1>2, <1>3, PTL DEF Spec

(* The comments "we actually want the one <= that key" and "<= that RVA"   *)
(* hold of one process, whatever else happens to it or fails: without the  *)
(* module of another process before it, the entry before upper_bound is of *)
(* this one, and neither the subtraction nor the sum wraps.                *)
THEOREM AtOrBelowOfOneProcess ==
  ASSUME OneProcess
  PROVE  Spec => []SymbolAtOrBelow
<1>1. ASSUME IInv
      PROVE  SymbolAtOrBelow
  <2> SUFFICES ASSUME NEW offset \in 0 .. MaxBase, current # Null,
                      NearestSymbol(current, offset).kind = "symbol"
               PROVE  NearestSymbol(current, offset).symOffset <= offset
    BY DEF SymbolAtOrBelow
  <2> DEFINE keys == DOMAIN gModuleInfoByKey
             here == ModuleKey(current, offset)
             key == LastNotAfter(keys, here)
             module == info[gModuleInfoByKey[key]]
             rvas == RvasUpTo(mSymsByRva(module), Wrap(offset - key.mBase))
             rva == Latest(rvas)
             answer == NearestSymbol(current, offset)
             before == {j \in keys : j.mBase <= offset}
  <2>1. current \in Pids /\ keys \in SUBSET Keys
    BY <1>1 DEF IInv, TypeInv, TypeOK, EngineTypeOK, TablesTypeOK, IsMap
  <2>2. /\ keys # FromUpperBound(keys, here)
        /\ rvas # {}
        /\ answer = Resolved(key, rva, offset)
    BY DEF NearestSymbol, Latest, Unresolved
  <2>3. /\ keys \ FromUpperBound(keys, here) = before
        /\ before # {} => key \in before
    BY <2>1, LastKey
  <2>4. FromUpperBound(keys, here) \subseteq keys
    BY DEF FromUpperBound
  <2>5. key \in keys /\ key.mBase <= offset
    BY <2>2, <2>3, <2>4
  <2> HIDE DEF key, keys, here, before
  <2>6. key.mBase \in 0 .. MaxBase
    BY <2>1, <2>5, KeyAssumption DEF Keys
  <2>7. Wrap(offset - key.mBase) = offset - key.mBase
    BY <2>5, <2>6, KeyAssumption, WrapSmall
  <2>8. mSymsByRva(module) \subseteq 0 .. MaxBase
    <3>1. module \in ModuleInfos
      BY <1>1, <2>5 DEF IInv, TableInv, KeyedIsNamed, TypeInv, TypeOK,
                        TablesTypeOK, IsMap, keys
    <3>2. module.mSyms \in Builds \cup {Null}
      BY <3>1 DEF ModuleInfos
    <3> HIDE DEF module
    <3>3. QED
      BY <3>2, LookupAssumption DEF mSymsByRva
  <2> HIDE DEF module
  <2>9. rva \in 0 .. MaxBase /\ rva <= offset - key.mBase
    <3>1. rvas = {r \in mSymsByRva(module) : r <= offset - key.mBase}
      BY <2>7 DEF RvasUpTo
    <3>2. rvas \in SUBSET (0 .. MaxBase)
      BY <2>8, <3>1
    <3> HIDE DEF rvas
    <3>3. rva \in rvas
      BY <2>2, <3>2, LastRva DEF Latest
    <3> HIDE DEF rva
    <3>4. QED
      BY <3>1, <3>2, <3>3
  <2> HIDE DEF rva, rvas, answer
  <2>10. answer.symOffset = Wrap(key.mBase + rva)
    BY <2>2 DEF Resolved
  <2>11. key.mBase + rva \in 0 .. MaxBase /\ key.mBase + rva <= offset
    BY <2>6, <2>9, KeyAssumption
  <2>12. answer.symOffset <= offset
    BY <2>10, <2>11, WrapSmall
  <2>13. QED
    BY <2>12 DEF answer
<1>2. QED
  BY Inductive, <1>1, PTL DEF Spec

-----------------------------------------------------------------------------
(* The cache as ProcessSymbols describes it.                               *)

FollowInv == LookupInv /\ DllsFiling

(* Symbols read for a name are those of the build that has it.             *)
LEMMA BuildSyms ==
  ASSUME OnePath, NamesTellBuilds, NEW path \in Paths, NEW i,
         NEW x \in Builds, NEW y \in Builds, OfBuild(i, y, path),
         i.mName = NameOf[x]
  PROVE  i.mSyms = SymsAvailable[x]
<1>1. x = y
  BY DEF OfBuild, NamesTellBuilds
<1>2. <<path, x>> \in SymFiles <=> \E q \in Paths : <<q, x>> \in SymFiles
  BY DEF OnePath
<1>3. QED
  BY <1>1, <1>2 DEF OfBuild, SymsAvailable

(* With one process a base stands for its key.                             *)
LEMMA KeysOfProcess ==
  ASSUME OneProcess, TypeInv
  PROVE  /\ \A p \in Pids : p = Process
         /\ \A p \in DOMAIN image : p = Process
         /\ \A base : base \in DOMAIN SymsFiled <=> Filed(Process, base)
<1>1. \A p \in Pids : p = Process
  BY DEF OneProcess, Process
<1>2. DOMAIN image \subseteq Pids /\ DOMAIN gModuleInfoByKey \subseteq Keys
  BY DEF TypeInv, TypeOK, EngineTypeOK, TablesTypeOK, IsMap
<1>3. \A base : Filed(Process, base) => base \in Bases
  BY <1>2 DEF Filed, Keys, ModuleKey
<1>4. QED
  BY <1>1, <1>2, <1>3 DEF SymsFiled

(* When nothing is under way the cache has caught up.                      *)
LEMMA IdleIsCaughtUp ==
  ASSUME OneProcess, OnlyBploadsyms, FollowInv, task = Idle
  PROVE  Followed!CaughtUp
<1>1. ProcessInv /\ IInv /\ TypeInv
  BY DEF FollowInv, LookupInv, ProcessInv, CacheInv, IInv
<1>2. ASSUME NEW base \in DOMAIN SymsFiled
      PROVE  base \in DOMAIN ModulesLoaded
  <2>1. ModuleKey(Process, base) \in DOMAIN gModuleInfoByKey
    BY <1>1, <1>2, KeysOfProcess DEF Filed
  <2>2. DOMAIN info # {}
    BY <1>1, <2>1 DEF IInv, TableInv, KeyedIsNamed
  <2>3. Mirrored(ModuleKey(Process, base))
    BY <1>1, <2>1, <2>2, FiledIsStored DEF ProcessInv, KeysMirrored
  <2>4. QED
    BY <2>3 DEF Mirrored, ModuleKey, ModulesLoaded, Idle
<1>3. ASSUME mModuleEventListeners # << >>, NEW base \in DOMAIN ModulesLoaded,
             ModulesLoaded[base] \in Dlls
      PROVE  base \in DOMAIN SymsFiled
  <2>1. Process \in DOMAIN image /\ ModulesLoaded = image[Process]
    BY <1>3, EmptyMapType DEF ModulesLoaded
  <2>2. Filed(Process, base)
    BY <1>3, <2>1 DEF FollowInv, DllsFiling, Idle
  <2>3. QED
    BY <1>1, <2>2, KeysOfProcess
<1>4. ASSUME mModuleEventListeners = << >>
      PROVE  SymsFiled = EmptyMap
  <2>1. ~Listening
    BY <1>4 DEF Listening, Runs, Idle
  <2>2. DOMAIN gModuleInfoByKey = {}
    BY <1>1, <2>1 DEF ProcessInv, ObjectsHeard, IInv, TableInv, KeyedIsNamed
  <2>3. QED
    BY <2>2 DEF SymsFiled, Filed, EmptyMap
<1>5. QED
  BY <1>2, <1>3, <1>4 DEF Followed!CaughtUp, Followed!EmptyMap, EmptyMap

(* What stays filed keeps the symbols it is given.                         *)
LEMMA SymsFiledStay ==
  ASSUME OneProcess, OnePath, NamesTellBuilds, LookupInv, LookupInv', Next,
         NEW base \in DOMAIN SymsFiled \cap DOMAIN SymsFiled'
  PROVE  SymsFiled'[base] = SymsFiled[base]
<1> DEFINE key == ModuleKey(Process, base)
           m == gModuleInfoByKey[key]
<1>1. /\ CacheInv /\ TypeInv /\ TypeInv' /\ TableInv
      /\ ObjectsOfBuilds /\ ObjectsOfBuilds'
  BY DEF LookupInv, ProcessInv, CacheInv, IInv
<1>2. base \in Bases
  BY DEF SymsFiled
<1>3. key \in DOMAIN gModuleInfoByKey \cap DOMAIN gModuleInfoByKey'
  BY DEF SymsFiled, Filed
<1> HIDE DEF key
<1>4. KeepSymbols
  BY <1>1, StepKeeps DEF StepOK, CacheInv
<1>5. gModuleInfoByKey'[key] = m /\ m \in DOMAIN info'
  BY <1>3, <1>4 DEF KeepSymbols
<1>6. m \in DOMAIN info
  BY <1>1, <1>3 DEF TableInv, KeyedIsNamed
<1>7. gBasePdbPath' = gBasePdbPath /\ gBasePdbPath \in Paths
  BY <1>1, <1>6, PathStays DEF CacheInv, PathKnown, TypeInv, TypeOK
<1>8. info'[m].mName = info[m].mName
  BY <1>1, <1>3, <1>5, NamesStay
<1>9. PICK x \in Builds : OfBuild(info[m], x, gBasePdbPath)
  BY <1>1, <1>6 DEF ObjectsOfBuilds
<1>10. PICK y \in Builds : OfBuild(info'[m], y, gBasePdbPath)
  BY <1>1, <1>5, <1>7 DEF ObjectsOfBuilds
<1>11. info'[m].mSyms = info[m].mSyms
  BY <1>8, <1>9, <1>10 DEF OfBuild, NamesTellBuilds
<1>12. SymsFiled[base] = info[m].mSyms
  BY <1>2, <1>3 DEF SymsFiled, Filed, key
<1>13. SymsFiled'[base] = info'[m].mSyms
  BY <1>2, <1>3, <1>5 DEF SymsFiled, Filed, key
<1>14. QED
  BY <1>11, <1>12, <1>13


(* Filing a module of the process is learning its symbols, or nothing new. *)
LEMMA FilingLearns ==
  ASSUME OneProcess, OnePath, NamesTellBuilds, LookupInv, LookupInv', Next,
         UNCHANGED <<image, mModuleEventListeners>>,
         NEW base \in Bases, Process \in DOMAIN image,
         base \in DOMAIN image[Process], NEW stores,
         FileModule(Process, base, image[Process][base], stores)
  PROVE  Followed!Next \/ UNCHANGED Followed!vars
<1> DEFINE key == ModuleKey(Process, base)
           x == image[Process][base]
           m == gModuleInfoByKey'[key]
<1>1. /\ TypeInv /\ TablesTypeOK /\ TableInv /\ TableInv' /\ PathKnown'
      /\ TypeInv' /\ ObjectsOfBuilds'
  BY DEF LookupInv, ProcessInv, CacheInv, IInv, TypeInv, TypeOK
<1>2. x \in Builds /\ Process \in Pids
  BY <1>1 DEF TypeInv, TypeOK, EngineTypeOK, IsMap
<1>3. /\ DOMAIN gModuleInfoByKey' = DOMAIN gModuleInfoByKey \cup {key}
      /\ key \notin DOMAIN gModuleInfoByKey => info'[m].mName = NameOf[x]
  BY <1>1, <1>2, FiledKeys
<1>4. DOMAIN SymsFiled' = DOMAIN SymsFiled \cup {base}
  <2>1. \A b \in Bases : ModuleKey(Process, b) = key <=> b = base
    BY DEF ModuleKey
  <2> HIDE DEF key
  <2>2. QED
    BY <1>3, <2>1 DEF SymsFiled, Filed
<1>5. \A b \in DOMAIN SymsFiled : SymsFiled'[b] = SymsFiled[b]
  BY <1>4, SymsFiledStay
<1>6. UNCHANGED <<ModulesLoaded, mModuleEventListeners # << >>>>
  BY DEF ModulesLoaded
<1>7. CASE base \in DOMAIN SymsFiled
  <2>1. DOMAIN SymsFiled' = DOMAIN SymsFiled
    BY <1>4, <1>7
  <2>2. SymsFiled' = SymsFiled
    BY <1>5, <2>1 DEF SymsFiled
  <2>3. QED
    BY <1>6, <2>2 DEF Followed!vars
<1>8. CASE base \notin DOMAIN SymsFiled
  <2>1. key \notin DOMAIN gModuleInfoByKey
    BY <1>1, <1>8, KeysOfProcess DEF Filed
  <2>2. m \in DOMAIN info'
    BY <1>1, <1>3 DEF TableInv, KeyedIsNamed
  <2>3. gBasePdbPath' \in Paths
    BY <1>1, <2>2 DEF PathKnown, TypeInv, TypeOK
  <2>4. PICK y \in Builds : OfBuild(info'[m], y, gBasePdbPath')
    BY <1>1, <2>2 DEF ObjectsOfBuilds
  <2>5. info'[m].mSyms = SymsAvailable[x]
    BY <1>2, <1>3, <2>1, <2>3, <2>4, BuildSyms
  <2>6. SymsFiled'[base] = SymsAvailable[x]
    BY <1>4, <2>5 DEF SymsFiled
  <2>7. ModulesLoaded = image[Process]
    BY DEF ModulesLoaded
  <2>8. SymsFiled' = [b \in DOMAIN SymsFiled \cup {base} |->
                        IF b = base THEN SymsAvailable[x] ELSE SymsFiled[b]]
    BY <1>4, <1>5, <1>8, <2>6 DEF SymsFiled
  <2>9. Followed!Learn(base)
    BY <1>6, <1>8, <2>7, <2>8 DEF Followed!Learn, Followed!Emplace
  <2>10. QED
    BY <2>9 DEF Followed!Next
<1>9. QED
  BY <1>7, <1>8

LEMMA UnloadingForgets ==
  ASSUME OneProcess, OnePath, NamesTellBuilds, FollowInv, LookupInv', Next,
         UNCHANGED <<image, mModuleEventListeners>>, task.kind = "unload",
         task.base \in Bases, ForgetModule(Process, task.base)
  PROVE  Followed!Next \/ UNCHANGED Followed!vars
<1> DEFINE base == task.base
<1>1. LookupInv /\ TypeInv
  BY DEF FollowInv, LookupInv, ProcessInv, CacheInv, IInv
<1>2. base \notin DOMAIN ModulesLoaded
  <2>1. current \in DOMAIN image /\ base \notin DOMAIN image[current]
    BY DEF FollowInv, DllsFiling
  <2>2. current = Process
    BY <1>1, <2>1, KeysOfProcess
  <2>3. QED
    BY <2>1, <2>2 DEF ModulesLoaded
<1>3. DOMAIN gModuleInfoByKey' =
        DOMAIN gModuleInfoByKey \ {ModuleKey(Process, base)}
  BY DEF ForgetModule, Erase
<1>4. DOMAIN SymsFiled' = DOMAIN SymsFiled \ {base}
  <2>1. \A b \in Bases :
          ModuleKey(Process, b) = ModuleKey(Process, base) <=> b = base
    BY DEF ModuleKey
  <2>2. QED
    BY <1>3, <2>1 DEF SymsFiled, Filed
<1>5. \A b \in DOMAIN SymsFiled' : SymsFiled'[b] = SymsFiled[b]
  BY <1>1, <1>4, SymsFiledStay
<1>6. SymsFiled' = [b \in DOMAIN SymsFiled \ {base} |-> SymsFiled[b]]
  BY <1>4, <1>5 DEF SymsFiled
<1>7. UNCHANGED <<ModulesLoaded, mModuleEventListeners # << >>>>
  BY DEF ModulesLoaded
<1>8. CASE base \in DOMAIN SymsFiled
  <2>1. Followed!Forget(base)
    BY <1>2, <1>6, <1>7, <1>8 DEF Followed!Forget, Followed!Erase
  <2>2. QED
    BY <2>1 DEF Followed!Next
<1>9. CASE base \notin DOMAIN SymsFiled
  <2>1. SymsFiled' = SymsFiled
    BY <1>6, <1>9 DEF SymsFiled
  <2>2. QED
    BY <1>7, <2>1 DEF Followed!vars
<1>10. QED
  BY <1>8, <1>9

LEMMA ProceedFollows ==
  ASSUME OneProcess, EngineAnswers, OnlyBploadsyms, OnePath, NamesTellBuilds,
         FollowInv, LookupInv', Proceed
  PROVE  Followed!Next \/ UNCHANGED Followed!vars
<1>1. /\ LookupInv /\ ProcessInv /\ IInv /\ TypeInv
      /\ Next
  BY DEF FollowInv, LookupInv, ProcessInv, CacheInv, IInv, Next
<1>2. CASE LoadNextModule
  <2>1. PICK base \in task.left :
          FileModule(task.pid, base, image[task.pid][base], task.stores)
    BY <1>2 DEF LoadNextModule
  <2>2. /\ task.pid \in DOMAIN image /\ base \in DOMAIN image[task.pid]
        /\ UNCHANGED <<image, mModuleEventListeners>>
    BY <1>1, <1>2 DEF LoadNextModule, TypeInv, TaskOK, engineVars, callbackVars
  <2>3. task.pid = Process /\ base \in Bases
    BY <1>1, <2>2, KeysOfProcess DEF TypeInv, TypeOK, EngineTypeOK, IsMap
  <2>4. QED
    BY <1>1, <2>1, <2>2, <2>3, FilingLearns
<1>3. CASE RunListener
  <2> DEFINE l == mModuleEventListeners[task.next]
  <2>1. /\ task.base \in Bases
        /\ l.pid \in Pids
        /\ UNCHANGED <<image, mModuleEventListeners>>
    BY <1>1, <1>3, ListenerThere DEF RunListener, engineVars, callbackVars
  <2>2. l.pid = Process
    BY <1>1, <2>1, KeysOfProcess
  <2>3. CASE task.kind = "unload" /\ ForgetModule(l.pid, task.base)
    <3>1. ForgetModule(Process, task.base)
      BY <2>2, <2>3, Zenon
    <3>2. QED
      BY <1>1, <2>1, <2>3, <3>1, UnloadingForgets
  <2>4. CASE /\ task.kind = "load"
             /\ FileModule(l.pid, task.base, image[current][task.base],
                           l.stores)
    <3>1. current \in DOMAIN image /\ task.base \in DOMAIN image[current]
      BY <1>1, <2>4 DEF TypeInv, TaskOK
    <3>2. current = Process
      BY <1>1, <3>1, KeysOfProcess
    <3>3. FileModule(Process, task.base, image[Process][task.base], l.stores)
      BY <2>2, <2>4, <3>2, Zenon
    <3>4. QED
      BY <1>1, <2>1, <3>1, <3>2, <3>3, FilingLearns
  <2>5. QED
    BY <1>3, <2>3, <2>4 DEF RunListener, EngineAnswers
<1>4. CASE FinishLoading
  <2>1. /\ task \in Commands /\ task.kind = "command" /\ task.left = {}
        /\ UNCHANGED <<image, gModuleInfoByKey, info>>
    BY <1>1, <1>4 DEF FinishLoading, TypeInv, TypeOK, Idle, Dispatches,
                      engineVars, tableVars
  <2>2. task.pid = Process /\ task.pid \in DOMAIN image
    BY <1>1, <2>1, KeysOfProcess DEF TypeInv, TaskOK
  <2>3. ModulesLoaded = image[Process]
    BY <2>2 DEF ModulesLoaded
  <2>4. DOMAIN ModulesLoaded \subseteq DOMAIN SymsFiled
    <3>1. \A base \in DOMAIN image[Process] : Filed(Process, base)
      BY <2>1, <2>2 DEF FollowInv, DllsFiling
    <3>2. QED
      BY <1>1, <2>3, <3>1, KeysOfProcess
  <2>5. DOMAIN SymsFiled \subseteq DOMAIN ModulesLoaded
    <3> SUFFICES ASSUME NEW base \in DOMAIN SymsFiled
                 PROVE  base \in DOMAIN image[Process]
      BY <2>3
    <3>1. ModuleKey(Process, base) \in DOMAIN gModuleInfoByKey
      BY <1>1, KeysOfProcess DEF Filed
    <3>2. DOMAIN info # {}
      BY <1>1, <3>1 DEF IInv, TableInv, KeyedIsNamed
    <3>3. Mirrored(ModuleKey(Process, base))
      BY <1>1, <3>1, <3>2, FiledIsStored DEF ProcessInv, KeysMirrored
    <3>4. QED
      BY <2>1, <3>3 DEF Mirrored, ModuleKey
  <2>6. mModuleEventListeners' # << >>
    <3>1. mModuleEventListeners' =
            Append(mModuleEventListeners,
                   [pid |-> task.pid, stores |-> task.stores])
      BY <1>4 DEF FinishLoading, EngineOutcome, EngineAnswers
    <3>2. mModuleEventListeners \in Seq(Listeners)
      BY <1>1 DEF TypeInv, TypeOK, CallbacksTypeOK
    <3>3. Len(mModuleEventListeners') # 0
      BY <3>1, <3>2
    <3>4. QED
      BY <3>3
  <2>7. UNCHANGED <<ModulesLoaded, SymsFiled>>
    BY <2>1 DEF ModulesLoaded, SymsFiled, Filed
  <2>8. Followed!Follow
    BY <2>4, <2>5, <2>6, <2>7 DEF Followed!Follow
  <2>9. QED
    BY <2>8 DEF Followed!Next
<1>5. ~AbandonLoading
  BY DEF AbandonLoading, EngineAnswers
<1>6. QED
  BY <1>2, <1>3, <1>4, <1>5 DEF Proceed


(* The events find the cache caught up.                                    *)
LEMMA MoveFollows ==
  ASSUME OneProcess, OnlyBploadsyms, FollowInv,
         NEW p \in Pids, NEW base \in Bases,
         \/ \E x \in Exes : StartProcess(p, base, x)
         \/ \E x \in Dlls : LoadModule(p, base, x)
         \/ UnloadModule(p, base)
  PROVE  Followed!Next \/ UNCHANGED Followed!vars
<1>1. TypeInv /\ p = Process
  BY KeysOfProcess DEF FollowInv, LookupInv, ProcessInv, CacheInv, IInv
<1>2. Followed!CaughtUp
  BY IdleIsCaughtUp DEF StartProcess, LoadModule, UnloadModule
<1>3. UNCHANGED <<SymsFiled, mModuleEventListeners>>
  BY DEF StartProcess, LoadModule, UnloadModule, ModuleEvent, tableVars,
         callbackVars, SymsFiled, Filed
<1>4. ASSUME NEW x \in Exes, StartProcess(p, base, x)
      PROVE  Followed!Next
  <2>1. p \notin DOMAIN image
        /\ image' = Emplace(image, p, Emplace(EmptyMap, base, x))
    BY <1>4 DEF StartProcess
  <2>2. ModulesLoaded = EmptyMap
    BY <1>1, <2>1 DEF ModulesLoaded
  <2>3. p \in DOMAIN image' /\ image'[p] = Emplace(EmptyMap, base, x)
    <3>1. \A modules : p \notin DOMAIN image =>
            /\ p \in DOMAIN Emplace(image, p, modules)
            /\ Emplace(image, p, modules)[p] = modules
      BY DEF Emplace
    <3>2. QED
      BY <2>1, <3>1, Zenon
  <2>4. ModulesLoaded' = Emplace(EmptyMap, base, x)
    BY <1>1, <2>3 DEF ModulesLoaded
  <2>5. Followed!Start(base, x)
    BY <1>2, <1>3, <2>2, <2>4
    DEF Followed!Start, Followed!EmptyMap, Followed!Emplace, EmptyMap, Emplace
  <2>6. QED
    BY <2>5 DEF Followed!Next
<1>5. ASSUME NEW x \in Dlls, LoadModule(p, base, x)
      PROVE  Followed!Next \/ UNCHANGED Followed!vars
  <2>1. /\ p \in DOMAIN image
        /\ image' = [image EXCEPT ![p] = Emplace(image[p], base, x)]
    BY <1>5 DEF LoadModule, ModuleEvent
  <2>2. /\ ModulesLoaded = image[p]
        /\ ModulesLoaded' = Emplace(image[p], base, x)
    BY <1>1, <2>1 DEF ModulesLoaded
  <2>3. CASE base \in DOMAIN image[p]
    <3>1. ModulesLoaded' = ModulesLoaded
      BY <2>2, <2>3 DEF Emplace
    <3>2. QED
      BY <1>3, <3>1 DEF Followed!vars
  <2>4. CASE base \notin DOMAIN image[p]
    <3>1. Followed!Load(base, x)
      BY <1>2, <1>3, <2>2, <2>4
      DEF Followed!Load, Followed!Emplace, Emplace
    <3>2. QED
      BY <3>1 DEF Followed!Next
  <2>5. QED
    BY <2>3, <2>4
<1>6. ASSUME UnloadModule(p, base)
      PROVE  Followed!Next
  <2>1. /\ p \in DOMAIN image
        /\ base \in DOMAIN image[p]
        /\ image[p][base] \in Dlls
        /\ image' = [image EXCEPT ![p] = Erase(image[p], {base})]
    BY <1>6 DEF UnloadModule, ModuleEvent
  <2>2. /\ ModulesLoaded = image[p]
        /\ ModulesLoaded' = Erase(image[p], {base})
    BY <1>1, <2>1 DEF ModulesLoaded
  <2>3. Followed!Unload(base)
    BY <1>2, <1>3, <2>1, <2>2 DEF Followed!Unload, Followed!Erase, Erase
  <2>4. QED
    BY <2>3 DEF Followed!Next
<1>7. QED
  BY <1>4, <1>5, <1>6

LEMMA DetachFollows ==
  ASSUME OneProcess, EngineAnswers, OnlyBploadsyms, FollowInv,
         \/ \E p \in Pids : ExitProcess(p)
         \/ EndSession
  PROVE  Followed!Next
<1>1. /\ ProcessInv /\ CacheInv /\ IInv /\ TypeInv
      /\ DetachHeard
  BY DEF FollowInv, LookupInv, ProcessInv, CacheInv, IInv
<1>2. Followed!CaughtUp
  BY IdleIsCaughtUp DEF ExitProcess, EndSession
<1>3. Process \notin DOMAIN image'
  <2>1. ASSUME NEW p \in Pids, ExitProcess(p)
        PROVE  Process \notin DOMAIN image'
    <3>1. p = Process
      BY <1>1, KeysOfProcess
    <3>2. QED
      BY <2>1, <3>1 DEF ExitProcess, Erase
  <2>2. CASE EndSession
    BY <2>2, EmptyMapType DEF EndSession
  <2>3. QED
    BY <2>1, <2>2
<1>4. ModulesLoaded' = EmptyMap
  BY <1>3 DEF ModulesLoaded
<1>5. DOMAIN gModuleInfoByKey' = {}
  <2>1. CASE Storing
    BY <1>1, <2>1, DetachMirrors
  <2>2. CASE ~Storing
    <3>1. DOMAIN info = {}
      BY <1>1, <2>2, FiledIsStored
    <3>2. DOMAIN gModuleInfoByKey = {}
      BY <1>1, <3>1 DEF IInv, TableInv, KeyedIsNamed
    <3>3. DOMAIN gModuleInfoByKey' \subseteq DOMAIN gModuleInfoByKey
      BY DEF ExitProcess, EndSession, NotifyDetach, ClearModuleInfoForPid,
             Erase, tableVars
    <3>4. QED
      BY <3>2, <3>3
  <2>3. QED
    BY <2>1, <2>2
<1>6. SymsFiled' = EmptyMap
  BY <1>5 DEF SymsFiled, Filed, EmptyMap
<1>7. UNCHANGED mModuleEventListeners
  BY DEF ExitProcess, EndSession, callbackVars
<1>8. Followed!Exit
  BY <1>2, <1>4, <1>6, <1>7 DEF Followed!Exit, Followed!EmptyMap, EmptyMap
<1>9. QED
  BY <1>8 DEF Followed!Next

LEMMA StepFollows ==
  ASSUME OneProcess, EngineAnswers, OnlyBploadsyms, OnePath, NamesTellBuilds,
         FollowInv, LookupInv', [Next]_vars
  PROVE  Followed!Next \/ UNCHANGED Followed!vars
<1>1. CASE UNCHANGED <<image, tableVars, mModuleEventListeners>>
  BY <1>1 DEF Followed!vars, ModulesLoaded, SymsFiled, Filed, tableVars
<1>2. ASSUME \/ \E path \in Paths \cup {Null}, stores \in Loads :
                  BpLoad(path, stores)
             \/ \E p \in Pids : SwitchProcess(p)
             \/ UNCHANGED vars
      PROVE  UNCHANGED <<image, tableVars, mModuleEventListeners>>
  BY <1>2 DEF BpLoad, SwitchProcess, vars, engineVars, callbackVars
<1>3. QED
  BY <1>1, <1>2, ProceedFollows, MoveFollows, DetachFollows DEF Next

LEMMA FollowInductive ==
  ASSUME OneProcess, EngineAnswers, OnlyBploadsyms, OnePath, NamesTellBuilds
  PROVE  /\ Init => FollowInv
         /\ FollowInv /\ [Next]_vars => FollowInv'
<1>1. Init => FollowInv
  BY LookupInductive, DllsInductive DEF FollowInv, DllsInv
<1>2. ASSUME FollowInv, [Next]_vars
      PROVE  FollowInv'
  <2>1. LookupInv'
    BY <1>2, LookupInductive DEF FollowInv
  <2>2. DllsInv
    BY <1>2 DEF FollowInv, DllsInv, LookupInv, ProcessInv, CacheInv
  <2>3. DllsFiling'
    BY <1>2, <2>2, DllsInductive DEF DllsInv
  <2>4. QED
    BY <2>1, <2>3 DEF FollowInv
<1>3. QED
  BY <1>1, <1>2

(* The cache implements ProcessSymbols: to the one process of a session it *)
(* knows what there is to know of each module, of that very build, learns  *)
(* and forgets one module at a time, never misses one while it follows,    *)
(* and has done so before the target moves again.  The tables, the sharing *)
(* of objects and the order of listeners and modules show nowhere.         *)
THEOREM AlwaysFollowsProcess ==
  ASSUME OneProcess, EngineAnswers, OnlyBploadsyms, OnePath, NamesTellBuilds
  PROVE  Spec => FollowsProcess
<1>1. Init => Followed!Init
  <2> SUFFICES ASSUME Init
               PROVE  Followed!Init
    OBVIOUS
  <2>1. DOMAIN image = {} /\ DOMAIN gModuleInfoByKey = {}
    BY EmptyMapType DEF Init
  <2>2. ModulesLoaded = EmptyMap /\ SymsFiled = EmptyMap
    BY <2>1 DEF ModulesLoaded, SymsFiled, Filed, EmptyMap
  <2>3. mModuleEventListeners = << >>
    BY DEF Init
  <2>4. QED
    BY <2>2, <2>3 DEF Followed!Init, Followed!EmptyMap, EmptyMap
<1>2. Init => FollowInv
  BY FollowInductive
<1>3. FollowInv /\ [Next]_vars => FollowInv'
  BY FollowInductive
<1>4. FollowInv /\ FollowInv' /\ [Next]_vars => [Followed!Next]_(Followed!vars)
  BY StepFollows DEF FollowInv
<1>5. Spec => Followed!Spec
  BY <1>1, <1>2, <1>3, <1>4, PTL DEF Spec, Followed!Spec
<1>6. QED
  BY <1>5 DEF FollowsProcess

=============================================================================
