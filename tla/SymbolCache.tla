----------------------------- MODULE SymbolCache -----------------------------
(***************************************************************************)
(* The breakpad symbol cache of src/bpsyms.cpp: the two global tables      *)
(* of ModuleInfo objects, the commands that fill them (bploadsyms and      *)
(* bpsynthsyms), and the listeners that keep them up to date as the        *)
(* debugger engine reports module and process events.                      *)
(*                                                                         *)
(* Everything runs on the engine's thread: a command or an event callback  *)
(* runs to its end before the target moves again.  task is what the thread *)
(* is inside: nothing, the module loop of a command, or the listener loop  *)
(* of DbgExtCallbacks::LoadModule / UnloadModule.                          *)
(***************************************************************************)
EXTENDS ModuleKeys, FiniteSets, Sequences

CONSTANTS
  Exes,          (* Builds of executables, loaded when a process starts.   *)
  Dlls,          (* Builds of libraries, loaded and unloaded at any time.  *)
  Names,         (* Module names as the engine reports them.               *)
  NameOf,        (* NameOf[x] is the module name of build x.               *)
  SizeOf,        (* SizeOf[x] is the size of the image of build x.         *)
  Paths,         (* Symbol directories the user may name.                  *)
  SymFiles,      (* <<path, x>>: path has a .sym file of build x.          *)
  Infos,         (* ModuleInfo allocations.                                *)
  Loads,         (* Commands the user runs: TRUE is bploadsyms, FALSE is   *)
                 (* bpsynthsyms.                                           *)
  EngineFails,   (* Whether calls of the engine's interfaces may fail.     *)
  MaxListeners,  (* Bound on the module listeners a session registers.     *)
  Null

Builds == Exes \cup Dlls

ASSUME CacheAssumption ==
  /\ Exes \cap Dlls = {}
  /\ NameOf \in [Builds -> Names]
  /\ SizeOf \in [Builds -> Nat]
  /\ SymFiles \subseteq Paths \X Builds
  /\ IsFiniteSet(Pids) /\ IsFiniteSet(Bases) /\ IsFiniteSet(Names)
  /\ Loads \subseteq BOOLEAN
  /\ EngineFails \in BOOLEAN
  /\ MaxListeners \in Nat
  /\ Null \notin Pids \cup Builds \cup Paths
  /\ Null \notin BOOLEAN

VARIABLES
  image,                (* image[p][b]: build process p has at base b.     *)
  current,              (* GetCurrentProcessId, Null when it fails.        *)
  eventPid,             (* GetEventProcess: process of the last event.     *)
  gModuleInfoByName,    (* Name -> ModuleInfo.                             *)
  gModuleInfoByKey,     (* ModuleKey -> ModuleInfo.                        *)
  info,                 (* Contents of the live ModuleInfo objects.        *)
  gBasePdbPath,         (* Symbol directory, Null when empty.              *)
  sInstance,            (* Whether the event callbacks are installed.      *)
  kRegdPidUnload,       (* The static of bploadsyms, Null before its run.  *)
  mModuleEventListeners,(* What each listener captured.                    *)
  task

engineVars == <<image, current, eventPid>>
tableVars  == <<gModuleInfoByName, gModuleInfoByKey, info>>
callbackVars == <<sInstance, kRegdPidUnload, mModuleEventListeners>>
vars == <<engineVars, tableVars, gBasePdbPath, callbackVars, task>>

Idle == [kind |-> "idle"]

(* Modules of the process still to be filed, in the engine's index order,  *)
(* which is the engine's own: the loop takes them in any order.            *)
Commands == [kind : {"command"}, pid : Pids, stores : BOOLEAN,
             left : SUBSET Bases]

(* next is the position of the for_each over the module listeners.         *)
Dispatches == [kind : {"load", "unload"}, base : Bases, next : Nat \ {0}]

(* stores tells the callback of bploadsyms, which keeps the symbols, from  *)
(* that of bpsynthsyms, which drops them.                                  *)
Listeners == [pid : Pids, stores : BOOLEAN]

ModuleInfos == [mName : Names, mSize : Nat, mSyms : Builds \cup {Null}]

EngineTypeOK ==
  /\ DOMAIN image \subseteq Pids
  /\ \A p \in DOMAIN image : IsMap(image[p], Bases, Builds)
  /\ current \in DOMAIN image \cup {Null}
  /\ eventPid \in Pids \cup {Null}

TablesTypeOK ==
  /\ IsMap(gModuleInfoByName, Names, Infos)
  /\ IsMap(gModuleInfoByKey, Keys, Infos)
  /\ IsMap(info, Infos, ModuleInfos)

CallbacksTypeOK ==
  /\ sInstance \in BOOLEAN
  /\ kRegdPidUnload \in BOOLEAN \cup {Null}
  /\ mModuleEventListeners \in Seq(Listeners)

(* The variables hold what the program's do.  A process is current only    *)
(* while it is in the debug session.                                       *)
TypeOK ==
  /\ EngineTypeOK
  /\ TablesTypeOK
  /\ CallbacksTypeOK
  /\ gBasePdbPath \in Paths \cup {Null}
  /\ task \in {Idle} \cup Commands \cup Dispatches

Init ==
  /\ image = EmptyMap
  /\ current = Null
  /\ eventPid = Null
  /\ gModuleInfoByName = EmptyMap
  /\ gModuleInfoByKey = EmptyMap
  /\ info = EmptyMap
  /\ gBasePdbPath = Null
  /\ sInstance = FALSE
  /\ kRegdPidUnload = Null
  /\ mModuleEventListeners = << >>
  /\ task = Idle

(* The results of an engine call the code tests with FAILED().             *)
EngineOutcome == IF EngineFails THEN BOOLEAN ELSE {TRUE}

-----------------------------------------------------------------------------
(* The tables.                                                             *)

HasModuleInfoForPid(pid) == PidRange(DOMAIN gModuleInfoByKey, pid) # {}

(* shared_ptr: an object lives while a table refers to it.                 *)
Referenced(objects, byName, byKey) ==
  LET held == {byName[n] : n \in DOMAIN byName}
                \cup {byKey[k] : k \in DOMAIN byKey}
  IN  [m \in DOMAIN objects \cap held |-> objects[m]]

(* make_shared runs before emplace decides: m is a new object only when    *)
(* the name has no entry.                                                  *)
EmplaceModule(m, pid, x, base) ==
  /\ m \in IF NameOf[x] \in DOMAIN gModuleInfoByName
           THEN {gModuleInfoByName[NameOf[x]]}
           ELSE Infos \ DOMAIN info
  /\ gModuleInfoByName' = Emplace(gModuleInfoByName, NameOf[x], m)
  /\ gModuleInfoByKey' = Emplace(gModuleInfoByKey, ModuleKey(pid, base), m)

NewModuleInfo(x) == [mName |-> NameOf[x], mSize |-> SizeOf[x], mSyms |-> Null]

(* Mutated form of LoadBpSymbolFile: the file is read on every load.       *)
ReloadBpSymbolFile(moduleInfo, x, stores) ==
  IF stores /\ <<gBasePdbPath, x>> \in SymFiles
  THEN [moduleInfo EXCEPT !.mSyms = x]
  ELSE moduleInfo

(* mSyms is the build whose records filled mSymsByRva, mSymsByName,        *)
(* mSourceLineSyms and mFileMap.                                           *)
LoadBpSymbolFile(moduleInfo, x, stores) ==
  IF moduleInfo.mSyms = Null /\ stores /\ <<gBasePdbPath, x>> \in SymFiles
  THEN [moduleInfo EXCEPT !.mSyms = x]
  ELSE moduleInfo

(* The file is found by the id and the name of the pdb that the headers of *)
(* the image name, when GetDebugInfoUniqueId can read them.                *)
LoadBpSymbols(moduleInfo, x, stores, idRead) ==
  IF idRead THEN LoadBpSymbolFile(moduleInfo, x, stores) ELSE moduleInfo

FileModule(pid, base, x, stores) ==
  \E m \in Infos, idRead \in EngineOutcome :
    /\ EmplaceModule(m, pid, x, base)
    /\ info' = [Emplace(info, m, NewModuleInfo(x)) EXCEPT
                  ![m] = LoadBpSymbols(@, x, stores, idRead)]

(* Mutated forms of ForgetModule: unload events ignored; every module of   *)
(* the process forgotten.                                                  *)
ForgetNothing(pid, base) == UNCHANGED tableVars
ForgetProcess(pid, base) ==
  /\ gModuleInfoByKey' =
       Erase(gModuleInfoByKey, PidRange(DOMAIN gModuleInfoByKey, pid))
  /\ info' = Referenced(info, gModuleInfoByName, gModuleInfoByKey')
  /\ UNCHANGED gModuleInfoByName

ForgetModule(pid, base) ==
  /\ gModuleInfoByKey' = Erase(gModuleInfoByKey, {ModuleKey(pid, base)})
  /\ info' = Referenced(info, gModuleInfoByName, gModuleInfoByKey')
  /\ UNCHANGED gModuleInfoByName

NamesOf(m) == {n \in DOMAIN gModuleInfoByName : gModuleInfoByName[n] = m}
KeysOf(m) == {k \in DOMAIN gModuleInfoByKey : gModuleInfoByKey[k] = m}

(* Mutated form of UseCount: the reference of gModuleInfoByName forgotten. *)
UseCountOfKeys(m) == Cardinality(KeysOf(m))

(* m.use_count() in the second loop of ClearModuleInfoForPid: each erased  *)
(* key has passed its reference on to affectedModules, so that as many are *)
(* left as the tables held before.                                         *)
UseCount(m) == Cardinality(NamesOf(m)) + Cardinality(KeysOf(m))

ClearModuleInfoForPid(pid) ==
  LET range == PidRange(DOMAIN gModuleInfoByKey, pid)
      unused == {m \in {gModuleInfoByKey[k] : k \in range} : UseCount(m) = 2}
  IN  /\ gModuleInfoByKey' = Erase(gModuleInfoByKey, range)
      /\ gModuleInfoByName' = Erase(gModuleInfoByName, {info[m].mName : m \in unused})
      /\ info' = Referenced(info, gModuleInfoByName', gModuleInfoByKey')

-----------------------------------------------------------------------------
(* The commands bploadsyms (stores = TRUE) and bpsynthsyms.                *)

(* DbgExtCallbacks::Register*Listener: the first call installs the event   *)
(* callbacks, which may fail; ok is the result.                            *)
Register(ok) ==
  /\ sInstance => ok
  /\ sInstance' = ok

(* The static of bploadsyms is initialised once, whatever the result.      *)
RegisterDetachOnce(stores) ==
  IF stores /\ kRegdPidUnload = Null
  THEN \E ok \in EngineOutcome : Register(ok) /\ kRegdPidUnload' = ok
  ELSE UNCHANGED <<sInstance, kRegdPidUnload>>

(* Early returns of LoadBpSymbolsForModules; path may not be a directory.  *)
LoadRefused(pid, path) ==
  \/ pid = Null
  \/ pid # Null /\ gBasePdbPath # Null /\ HasModuleInfoForPid(pid)
  \/ path \notin Paths

BpLoad(path, stores) ==
  /\ task = Idle
  /\ Len(mModuleEventListeners) < MaxListeners
  /\ RegisterDetachOnce(stores)
  /\ \/ /\ LoadRefused(current, path) \/ EngineFails
        /\ UNCHANGED <<gBasePdbPath, task>>
     \/ /\ ~LoadRefused(current, path)
        /\ gBasePdbPath' = path
        /\ task' = [kind |-> "command", pid |-> current, stores |-> stores,
                    left |-> DOMAIN image[current]]
  /\ UNCHANGED <<engineVars, tableVars, mModuleEventListeners>>

LoadNextModule ==
  /\ task.kind = "command"
  /\ \E base \in task.left :
       /\ FileModule(task.pid, base, image[task.pid][base], task.stores)
       /\ task' = [task EXCEPT !.left = @ \ {base}]
  /\ UNCHANGED <<engineVars, gBasePdbPath, callbackVars>>

(* GetModuleNameString fails: the command returns in the middle of the     *)
(* loop, without registering its listener.                                 *)
AbandonLoading ==
  /\ EngineFails
  /\ task.kind = "command"
  /\ task.left # {}
  /\ task' = Idle
  /\ UNCHANGED <<engineVars, tableVars, gBasePdbPath, callbackVars>>

(* Mutated form of FinishLoading: the listener is pushed although there    *)
(* may be no instance to push it on.                                       *)
FinishUnregistered ==
  /\ task.kind = "command"
  /\ task.left = {}
  /\ \E ok \in EngineOutcome : Register(ok)
  /\ mModuleEventListeners' =
       Append(mModuleEventListeners, [pid |-> task.pid, stores |-> task.stores])
  /\ task' = Idle
  /\ UNCHANGED <<engineVars, tableVars, gBasePdbPath, kRegdPidUnload>>

(* Mutated form of FinishLoading: the loop ends one module early.          *)
FinishEarly ==
  /\ task.kind = "command"
  /\ Cardinality(task.left) <= 1
  /\ \E ok \in EngineOutcome :
       /\ Register(ok)
       /\ mModuleEventListeners' =
            IF ok
            THEN Append(mModuleEventListeners,
                        [pid |-> task.pid, stores |-> task.stores])
            ELSE mModuleEventListeners
  /\ task' = Idle
  /\ UNCHANGED <<engineVars, tableVars, gBasePdbPath, kRegdPidUnload>>

FinishLoading ==
  /\ task.kind = "command"
  /\ task.left = {}
  /\ \E ok \in EngineOutcome :
       /\ Register(ok)
       /\ mModuleEventListeners' =
            IF ok
            THEN Append(mModuleEventListeners,
                        [pid |-> task.pid, stores |-> task.stores])
            ELSE mModuleEventListeners
  /\ task' = Idle
  /\ UNCHANGED <<engineVars, tableVars, gBasePdbPath, kRegdPidUnload>>

-----------------------------------------------------------------------------
(* Engine events.                                                          *)

(* Images of a process do not overlap, and the engine gives them distinct  *)
(* names.                                                                  *)
Fits(modules, base, x) ==
  /\ base + SizeOf[x] <= MaxBase
  /\ \A b \in DOMAIN modules :
       /\ NameOf[modules[b]] # NameOf[x]
       /\ b >= base + SizeOf[x] \/ base >= b + SizeOf[modules[b]]

(* The executable comes with the CreateProcess event, which the interest   *)
(* mask of the callbacks leaves out.                                       *)
StartProcess(p, base, x) ==
  /\ task = Idle
  /\ p \notin DOMAIN image
  /\ x \in Exes
  /\ Fits(EmptyMap, base, x)
  /\ image' = Emplace(image, p, Emplace(EmptyMap, base, x))
  /\ current' = p
  /\ eventPid' = p
  /\ UNCHANGED <<tableVars, gBasePdbPath, callbackVars, task>>

(* Mutated forms of AtListener: positions from 0; the loop starts over     *)
(* after each listener.                                                    *)
AtListenerFromZero(kind, base, i) ==
  [kind |-> kind, base |-> base, next |-> i - 1]
AtListenerAgain(kind, base, i) ==
  IF mModuleEventListeners # << >>
  THEN [kind |-> kind, base |-> base, next |-> 1]
  ELSE Idle

(* The for_each over the listeners, at its i-th element.                   *)
AtListener(kind, base, i) ==
  IF i <= Len(mModuleEventListeners)
  THEN [kind |-> kind, base |-> base, next |-> i]
  ELSE Idle

(* p maps or unmaps a module at base, and the engine calls LoadModule or   *)
(* UnloadModule with p as the current process.                             *)
ModuleEvent(kind, p, base, modules) ==
  /\ image' = [image EXCEPT ![p] = modules]
  /\ current' = p
  /\ eventPid' = p
  /\ task' = AtListener(kind, base, 1)
  /\ UNCHANGED <<tableVars, gBasePdbPath, callbackVars>>

LoadModule(p, base, x) ==
  /\ task = Idle
  /\ p \in DOMAIN image
  /\ x \in Dlls
  /\ Fits(image[p], base, x)
  /\ ModuleEvent("load", p, base, Emplace(image[p], base, x))

UnloadModule(p, base) ==
  /\ task = Idle
  /\ p \in DOMAIN image
  /\ base \in DOMAIN image[p]
  /\ image[p][base] \in Dlls
  /\ ModuleEvent("unload", p, base, Erase(image[p], {base}))

(* One listener: on an unload it forgets the base, on a load it asks the   *)
(* engine for the module, gives up if that fails, and files the module     *)
(* under the process it captured, not the one the event is about.          *)
RunListener ==
  /\ task.kind \in {"load", "unload"}
  /\ LET l == mModuleEventListeners[task.next]
     IN  \/ task.kind = "unload" /\ ForgetModule(l.pid, task.base)
         \/ /\ task.kind = "load"
            /\ FileModule(l.pid, task.base, image[current][task.base], l.stores)
         \/ task.kind = "load" /\ EngineFails /\ UNCHANGED tableVars
  /\ task' = AtListener(task.kind, task.base, task.next + 1)
  /\ UNCHANGED <<engineVars, gBasePdbPath, callbackVars>>

(* The handlers that run the detach listeners; the only one is             *)
(* ClearModuleInfoForPid, and GetEventProcess may fail before it.          *)
NotifyDetach(pid) ==
  \/ kRegdPidUnload = TRUE /\ ClearModuleInfoForPid(pid)
  \/ /\ kRegdPidUnload # TRUE \/ EngineFails
     /\ UNCHANGED tableVars

ExitProcess(p) ==
  /\ task = Idle
  /\ p \in DOMAIN image
  /\ image' = Erase(image, {p})
  /\ eventPid' = p
  /\ current' \in IF DOMAIN image' = {} THEN {Null} ELSE DOMAIN image'
  /\ NotifyDetach(p)
  /\ UNCHANGED <<gBasePdbPath, callbackVars, task>>

(* SessionStatus and ChangeEngineState: the session and all its processes  *)
(* go, and the process of the last event is cleared.                       *)
EndSession ==
  /\ task = Idle
  /\ DOMAIN image # {}
  /\ image' = EmptyMap
  /\ current' = Null
  /\ NotifyDetach(eventPid)
  /\ UNCHANGED <<eventPid, gBasePdbPath, callbackVars, task>>

(* The user's |Ns command.                                                 *)
SwitchProcess(p) ==
  /\ task = Idle
  /\ p \in DOMAIN image
  /\ current' = p
  /\ UNCHANGED <<image, eventPid, tableVars, gBasePdbPath, callbackVars, task>>

-----------------------------------------------------------------------------

(* What the thread owes once a command or an event has begun.              *)
Proceed == LoadNextModule \/ AbandonLoading \/ FinishLoading \/ RunListener

Next ==
  \/ Proceed
  \/ \E path \in Paths \cup {Null}, stores \in Loads : BpLoad(path, stores)
  \/ \E p \in Pids, base \in Bases :
       \/ \E x \in Exes : StartProcess(p, base, x)
       \/ \E x \in Dlls : LoadModule(p, base, x)
       \/ UnloadModule(p, base)
  \/ \E p \in Pids : ExitProcess(p) \/ SwitchProcess(p)
  \/ EndSession

Spec == Init /\ [][Next]_vars

FairSpec == Spec /\ WF_vars(Proceed)

-----------------------------------------------------------------------------
(* Properties.                                                             *)

(* A ModuleInfo that some process refers to is the one filed under its     *)
(* name: no process holds a module that name lookups (bpbp, bpx) miss, and *)
(* no two objects stand for one name.  EmplaceModule relies on it when it  *)
(* shares objects between processes, ClearModuleInfoForPid when it erases  *)
(* a name on the strength of a reference count.                            *)
KeyedIsNamed ==
  \A k \in DOMAIN gModuleInfoByKey :
    LET m == gModuleInfoByKey[k]
    IN  /\ m \in DOMAIN info
        /\ info[m].mName \in DOMAIN gModuleInfoByName
        /\ gModuleInfoByName[info[m].mName] = m

(* Whatever other processes do, a module that stays filed keeps its object *)
(* and, once read, its symbols (EmplaceModule, LoadBpSymbolFile and the    *)
(* clean-up on detach of another process that shares the object).          *)
KeepSymbols ==
  \A k \in DOMAIN gModuleInfoByKey \cap DOMAIN gModuleInfoByKey' :
    LET m == gModuleInfoByKey[k]
    IN  /\ gModuleInfoByKey'[k] = m
        /\ m \in DOMAIN info'
        /\ info[m].mSyms \in {Null, info'[m].mSyms}

FiledKeepsSymbols == [][KeepSymbols]_vars

(* A module is forgotten only by an unload event at its base or when the   *)
(* very process it is filed under is the one that detaches: the iterator   *)
(* range of ClearModuleInfoForPid never reaches into a neighbour's keys.   *)
ForgetForCause ==
  \A k \in DOMAIN gModuleInfoByKey \ DOMAIN gModuleInfoByKey' :
    \/ task.kind = "unload" /\ task.base = k.mBase
    \/ task = Idle /\ image' # image /\ k.mPid = eventPid'

ForgottenForCause == [][ForgetForCause]_vars

(* When a process that the extension watches detaches, none of its modules *)
(* stays filed, so the next process to get its id starts afresh.           *)
ForgetDetached ==
  \A p \in DOMAIN image \ DOMAIN image' :
    kRegdPidUnload = TRUE /\ ~EngineFails /\ p = eventPid'
      => \A k \in DOMAIN gModuleInfoByKey' : k.mPid # p

DetachForgets == [][ForgetDetached]_vars

(* The comment of ClearModuleInfoForPid: a module that a detach leaves     *)
(* without a process loses its entry in gModuleInfoByName.                 *)
OrphansDropped ==
  [][task = Idle =>
       \A k \in DOMAIN gModuleInfoByKey \ DOMAIN gModuleInfoByKey' :
         gModuleInfoByKey[k] \in DOMAIN info' =>
           \E l \in DOMAIN gModuleInfoByKey' :
             gModuleInfoByKey'[l] = gModuleInfoByKey[k]]_vars

(* Between events, every filed module is one that its process has at that  *)
(* base, under that name.                                                  *)
FiledIsLoaded ==
  task = Idle =>
    \A k \in DOMAIN gModuleInfoByKey :
      /\ k.mPid \in DOMAIN image
      /\ k.mBase \in DOMAIN image[k.mPid]
      /\ info[gModuleInfoByKey[k]].mName = NameOf[image[k.mPid][k.mBase]]

Filed(p, base) == ModuleKey(p, base) \in DOMAIN gModuleInfoByKey

(* Between events, once a listener is registered for a process every       *)
(* library the process has is filed, across unloads, reloads and restarts. *)
DllsAreFiled ==
  task = Idle =>
    \A l \in {mModuleEventListeners[i] : i \in DOMAIN mModuleEventListeners} :
      l.pid \in DOMAIN image =>
        \A base \in DOMAIN image[l.pid] :
          image[l.pid][base] \in Dlls => Filed(l.pid, base)

(* The message of the refusal in LoadBpSymbolsForModules, "Breakpad        *)
(* symbols are already loaded for this process": the modules of a process  *)
(* for which the command refuses are all filed.                            *)
AlreadyLoadedIsTrue ==
  /\ task = Idle
  /\ current # Null
  /\ gBasePdbPath # Null
  /\ HasModuleInfoForPid(current)
  => \A base \in DOMAIN image[current] : Filed(current, base)

(* The comment "we only support loading from a single bp symbol path":     *)
(* while modules are filed, the path stays.                                *)
SingleSymbolPath ==
  [][gModuleInfoByKey # EmptyMap /\ gBasePdbPath # Null
       => gBasePdbPath' = gBasePdbPath]_vars

(* The comment "Don't load the symbols if we already have them": the       *)
(* symbols a filed module has are those of the build its process loaded.   *)
SymbolsAreOfModule ==
  task = Idle =>
    \A k \in DOMAIN gModuleInfoByKey :
      k.mPid \in DOMAIN image /\ k.mBase \in DOMAIN image[k.mPid] =>
        info[gModuleInfoByKey[k]].mSyms \in {Null, image[k.mPid][k.mBase]}

Service == INSTANCE ListenerService WITH
  connected <- sInstance,
  moduleListeners <- mModuleEventListeners,
  detachListeners <-
    IF kRegdPidUnload = TRUE THEN <<"ClearModuleInfoForPid">> ELSE << >>,
  ModuleEventListenerFns <- Listeners,
  ProcessDetachListenerFns <- {"ClearModuleInfoForPid"}

(* The cache listens to the engine only as the event callbacks promise: a  *)
(* listener it counts on was accepted, one that was refused is not there,  *)
(* and the detach listener is registered at most once.                     *)
ListensThroughService == Service!Spec

(* A session of one process: the modules that it has, and the symbols of   *)
(* those that are filed.                                                   *)
Process == CHOOSE p \in Pids : TRUE

ModulesLoaded == IF Process \in DOMAIN image THEN image[Process] ELSE EmptyMap

SymsFiled ==
  [base \in {b \in Bases : Filed(Process, b)} |->
     info[gModuleInfoByKey[ModuleKey(Process, base)]].mSyms]

SymsAvailable ==
  [x \in Builds |->
     IF \E path \in Paths : <<path, x>> \in SymFiles THEN x ELSE Null]

Followed == INSTANCE ProcessSymbols WITH
  modules <- ModulesLoaded,
  known <- SymsFiled,
  followed <- mModuleEventListeners # << >>,
  SymsOf <- SymsAvailable

(* To the one process of a session the cache is a symbol service that      *)
(* keeps up with it: each step of a command or a listener learns one       *)
(* module's own symbols or forgets one that is gone, refiling changes      *)
(* nothing, and the target never moves on while anything is outstanding,   *)
(* across unloads, reloads, restarts and repeated commands.                *)
FollowsProcess == Followed!Spec

(* A command or an event callback that has begun returns: the loops over   *)
(* modules and listeners end.                                              *)
CallsReturn == []<>(task = Idle)

=============================================================================
