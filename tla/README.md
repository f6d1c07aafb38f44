# mozdbgext in TLA+

mozdbgext is a WinDbg extension for debugging Mozilla applications. This
directory holds TLA+ models of its stateful parts, TLC configurations that check
them on small instances, and TLAPS proofs for all instances. Source references
below are to `src/` of the repository.

## 1. The system

The extension is a DLL. The debugger engine (dbgeng) loads it, calls
`DebugExtensionInitialize` once, and from then on calls one exported function
per command the user types, and the methods of one COM object per debugger
event. All of this happens on the engine's thread: a command or a callback runs
to its end before the target moves again. There are no locks and no threads of
its own. What makes it hard is the *order* in which commands and events of
several debugged processes reach state that is global to the extension, that
every engine call may fail in the middle of an operation, and that COM
reference counting decides the lifetime of the object all events come through.

### Components

| Component | Source | State | Operations |
|---|---|---|---|
| Breakpad symbol cache | `bpsyms.cpp` 174-266, 388-655 | `gModuleInfoByName`, `gModuleInfoByKey`, the `ModuleInfo` objects they share, `gBasePdbPath`, the static `kRegdPidUnload` | `bploadsyms`, `bpsynthsyms`, `bpsyminfo`, the module listener, `ClearModuleInfoForPid` |
| Symbol lookup | `bpsyms.cpp` 657-918 | none of its own; synthetic symbols in the engine | `NearestSymbol`, behind `bpln`, `bpk`, `iat` |
| Breakpoints | `bpsyms.cpp` 920-998 | breakpoints and synthetic symbols in the engine | `bpbp` |
| Symbol search | `bpsyms.cpp` 1000-1087 | none; reads the tables by name | `bpx` |
| Path of the .sym file | `bpsyms.cpp` 47-121, 388-420 | none; reads the image | `LoadBpSymbols` up to opening the file |
| .sym parser | `bpsyms.cpp` 123-168, 268-386 | the tables of one `ModuleInfo` | `LoadBpSymbolFile` |
| Event callbacks | `mozdbgextcb.cpp`, `.h` | `sInstance`, `mRefCnt`, two vectors of listeners | `Register*Listener`, `IUnknown`, the event methods |
| Initialisation | `mozdbgext.cpp`, `.h` | seven interface pointers, `gPointerWidth` | `DebugExtensionInitialize` |
| Import table walk | `iat.cpp`, `pe.cpp` | none; reads the target | `iat`, `GetDataDirectoryEntry` |
| Mutexes, activation contexts | `mozmutex.cpp`, `actctx.cpp` | `gStackTraceDbInit` (never set) and two offsets | `mozmutex`, `actctx` |
| Parameters, known structs | `params.cpp`, `knownstruct.cpp`, `mozilla.natvis` | none | `params`, `KnownStructOutput` |
| WinDbg windows | `uiext.cpp` | `sHwndWindbg` | `gotoline` |

### How they interact

- The user runs `bploadsyms <dir>`. Its first run registers
  `ClearModuleInfoForPid` as a process-detach listener; each run walks the
  modules of the current process, files a `ModuleInfo` for each under its name
  and under (process, base), reads its `.sym` file, and at the end registers a
  module listener that captured the process id.
- The engine reports module loads and unloads, process exits, ends of session
  and target removal to `DbgExtCallbacks`, which runs the listeners over the
  tables. *Every* module listener runs for *every* process's events.
- `bpln`, `bpk` and `iat` read the tables by address, `bpbp` and `bpx` by name;
  what they cannot resolve goes to the engine.

### What is hard, and what must hold

| Component | Hard behaviours | Must hold |
|---|---|---|
| Symbol cache | events of several processes in any order; one object shared by name between processes, bases and builds; reference counts as a test of use; failures inside the module loop; processes that exit and return under their id; commands repeated | the two tables agree; no process loses the symbols it has, and a module is forgotten only with a process that exits or when one at its base is unloaded, which may be another process's; a process that detaches leaves nothing; with one process the cache mirrors what is loaded |
| Lookup | boundaries of ranges, wrapping subtraction, neighbouring processes in the ordered map | inside a filed module the answer is exact |
| Callbacks | the singleton's own reference, self-destruction in `Release`, failure of the registration at each point | no leak, no dangling pointer, an exact count; a registered listener is called, a refused one is not |
| .sym parser | malformed and duplicate records, `operator()` names | the tables hold what the records say |
| Breakpoints | half-done `bpbp`; a symbol from the cache with a base from the engine | a breakpoint is armed at the symbol asked for, or not at all |
| Symbol search | the starting point in the sorted names; wildcards; case | every name that fits is listed, and no other |
| Path | numbers in hexadecimal side by side; several directory entries | the file opened is that of the module's own build |
| Initialisation | loaded without a target, or for one of another width; S_FALSE | pointers are read at the target's width |
| Walks over the target | memory the extension does not control, reads that fail or give a part | what is printed is what is there, in order, and all of it; termination |
| WinDbg windows | a cached handle; the user acts between two messages | the line shown is the one asked for; no other document moves |

The hazards behind this table are listed line by line in `PROJECT.json`.

## 2. Modules

| Module | Models |
|---|---|
| `Maps` | `std::map::emplace`, which keeps what is there; used by the cache and the parser |
| `ModuleKeys` | the ordered map: `ModuleKey`, `operator<`, the iterator ranges, `erase` |
| `SymbolCache` | the cache: every command, listener and engine event |
| `ProcessSymbols` | abstract: what the cache is to the one process of a session |
| `SymbolLookup` | `NearestSymbol` as an operator on the cache's state |
| `SymbolCommands` | `bpln` and `bpk` beside the cache, and the synthetic symbols they leave in the engine |
| `SymbolBreakpoints` | `bpbp` beside all of these, and the breakpoints it leaves |
| `SymbolText`, `SymbolFile` | `Split` and `Trim`; the reader of a `.sym` file and the tables it fills |
| `ListenerService` | abstract: what `mozdbgextcb.h` promises to those who register listeners |
| `EventCallbacks` | the COM object; implements `ListenerService` |
| `ImportTable` | `iat`: the walk over the import directory of a module |
| `Extension` | `DebugExtensionInitialize` and the pointer width |
| `CriticalSections`, `ActivationContexts`, `FunctionParameters`, `GotoLine` | `mozmutex`, `actctx`, `params`, `gotoline` |
| `SymbolPath`, `SymbolSearch` | the way from a module to its `.sym` file; `bpx` |
| `ExtensionCommands` | the session: the six modules above on the engine's thread, with loads of the extension and changes of target |
| `MCSymbols`, `MCCommands`, `MCSymbolFile`, `MCCallbacks`, `MCImportTable`, `MCExtensionCommands` | instances for TLC |
| `RecursionTheorems`, `SymbolCacheProofs`, `SymbolLookupProofs`, `SymbolCommandsProofs`, `SymbolFileProofs`, `EventCallbacksProofs`, `ImportTableProofs`, `ExtensionCommandsProofs` | theorems and proofs |

`SymbolCache` is built on `ModuleKeys` and `Maps`. `SymbolLookup` extends the
cache with lookup, `SymbolCommands` with the engine's synthetic symbols, and
`SymbolBreakpoints` with its breakpoints: the next-state relation of each is that of
the one before together with its own commands. `EventCallbacks` and `SymbolCache`
meet at `ListenerService`, which the one implements and the other uses. In a session of
one process `SymbolCache` implements `ProcessSymbols`.
`SymbolCache` takes a `.sym` file for the build it is of; `SymbolPath` shows
that the file it opens is of that build and `SymbolFile` that the tables then
hold its records. `ExtensionCommands` composes the commands that keep no
table, over the globals that outlive a command. `ImportTable` stands alone.

### SymbolCache and the code

`gModuleInfoByName`, `gModuleInfoByKey`, `gBasePdbPath`, `sInstance`,
`kRegdPidUnload` and `mModuleEventListeners` are the program's variables; a
`std::map` is a function from its keys. `info` is the heap: the `ModuleInfo`
objects that a table refers to (`Referenced` is `shared_ptr`). A `ModuleInfo` has
its name, its size, and the *build* whose records fill its symbol tables, `Null`
for none. The parser of `.sym` files is thus abstract, and a symbol file is taken
to hold at least one FUNC or PUBLIC record, so that having symbols is having
read a file. A listener is what its lambda captured: the process, and whether the
command was `bploadsyms` (it stores symbols) or `bpsynthsyms` (its `#if 0`
callback drops them). `image`, `current` and `eventPid` are the engine: which
process has which build at which base, and the answers to `GetCurrentProcessId` and
`GetEventProcess`. `task` is what the thread is inside.

| Action | Code |
|---|---|
| `BpLoad` | a command up to `gBasePdbPath = ...` (`bpsyms.cpp` 454-506, 617-621), or one of its early returns |
| `LoadNextModule`, `AbandonLoading`, `FinishLoading` | the loop over the modules (508-522), its early return (516), the registration of the listener (524-551) |
| `LoadModule`, `UnloadModule` | the event arrives, the `for_each` over the listeners begins (`mozdbgextcb.cpp` 177-200) |
| `RunListener` | one listener (`bpsyms.cpp` 525-551), each of its early returns a disjunct |
| `ExitProcess`, `EndSession` | the detach handlers (`mozdbgextcb.cpp` 160-175, 230-279) with `ClearModuleInfoForPid` |
| `StartProcess`, `SwitchProcess` | the engine: CreateProcess, which the interest mask leaves out (112-122), and the user's `\|Ns` |

`ClearModuleInfoForPid` runs within one action: nothing in it calls out. The
loops are one action per turn, so that an error in the middle, and the state in
between, are there to be seen.

`ProcessSymbols` leaves out the tables, the objects and the listeners: it has
the modules of the process, the symbols known of each, and whether the process is
followed. `FollowsProcess` maps them to the image of the process, to the symbols of
the object under each of its keys, and to whether a listener is registered
(`ModulesLoaded`, `SymsFiled`). A turn of the command's loop, or a listener on a load
event, is `Learn`, or a stutter if the module was filed before; a listener on an unload event is
`Forget`, and a second listener for the same event a stutter; `FinishLoading` is
`Follow`; the detach handlers are `Exit`. Its events have the
guard `CaughtUp`, so that the refinement also says that no event comes while the
tables lag behind the one before it.

### SymbolCommands and the code

`synthetic` is the engine's list of synthetic symbols. `bpln` and `bpk` call
`NearestSymbol` with `eLazyAddSynthSyms` (`LazyAddSynthSyms`) for one address and
for those of a stack; what they print is left out, what they add stays.
`AddSyntheticSymbol` of the engine is external, and its contract is taken to be the
documented one: the symbol goes into the module of the current process at
that address, an address outside every module or one that has a symbol already is
an error, which the code ignores, and the symbols of a module go with the module.

### SymbolBreakpoints and the code

`breakpoints` is the engine's list, each with the offset it has been given, if any,
whether it is enabled, and what the user asked for. `bpbp` is one action: it makes
no callback. Its three outcomes are the disjuncts `Unplaced` (the base
cannot be had, or `SetOffset` fails: the breakpoint stays, without an
address), `Placed` (`AddFlags` fails) and `Enabled`. The symbol comes from
`gModuleInfoByName`, whose names outlive the modules; the base from the current
process. `bpbp` and `bpx` are not in `mozdbgext.def`, so a user cannot call
them yet; they are modelled as the code has them.

### SymbolFile and the code

A line is a sequence of words, a word being what the parser never takes apart; the
characters it does look for (a space, a colon, parentheses, the carriage return)
are words of their own. `Written` is what `dump_syms` writes for a record; the
reader sees only the line. `file` is the module's file, `at` the reader's place in it,
`aCb` the command whose callback it was given; the tables have their names in
`ModuleInfo`.

| Action | Code |
|---|---|
| `Open` | `LoadBpSymbolFile` up to its loop (`bpsyms.cpp` 268-296): only a module without symbols is read |
| `ReadFunc`, `ReadPublic`, `ReadFile`, `ReadLineRecord` | the branch of each record (298-384), with the callback of the command (557-570, 621-641) |
| `SkipRecord` | a blank line, `MODULE`, or any other record |
| `EndOfStream` | `getline` fails: at the end or, the stream gone bad, before it |

What `dump_syms` is taken to keep to is `Record` and `WellFormed`. The records have
the fields they should have: the code indexes the tokens of a line without
counting them (306, 324, 358, 365, 372). A repository has no colon, and a path without one does not begin with
`hg:`, which `SanitizeFilePath` could not tell from one with. Names and paths do
not end in a space, and a file gives each of its ids once: `store` would keep the
last path of an id where `emplace` keeps the first symbol of a name. A stream that fails in the middle leaves
what it gave so far, and the module is then never read again (273), which
`TablesHoldRecords` therefore says of the lines *delivered*.

The line of a function has its name and its parameters as one text, and
nothing is assumed of the parentheses in either. `ParamPos` takes them apart at the
first parenthesis, or at the next one if the eight letters before it are
"operator" (330-338): `EndInOperator` is the set of the words that end so,
"operator" itself and any other. `ToldApart` says of which functions the reader
then finds the parameters. It does not find those of

- a function whose own name ends in these letters, such as `set_operator(int)`.
  The comment at 329 tells `func(params)` from `operator()(params)`, the code
  takes the one for the other: it looks for a second parenthesis, and files
  `set_operator(int)` as the name, with no parameters. If the parameters have
  parentheses themselves, as in `set_operator(void (*)())`, it cuts at the first
  of those;
- a function whose name has other parentheses, such as `run<void (int)>()`: it
  is cut at the first one, and filed as `run<void `.

`TablesHoldRecords` says this of them (`NameEnd`) and is checked with one of each.

### ExtensionCommands and the code

`Command` is the user's command, one of `mozmutex`, `actctx`, `params`,
`gotoline`, `bpx` and the search for a `.sym` file; `Step` is the next step of
the one that runs. A command begins when the extension is loaded and no other
runs (`Ready`). Its locals are gone when it returns, so that the state between commands is
what the program keeps: `gPointerWidth`, `sHwndWindbg`, `gStackTraceDbInit`. `LoadExtension`,
`UnloadExtension` and `NextTarget` are the engine's.

| Module | Variables | Actions |
|---|---|---|
| `Extension` (`mozdbgext.cpp`) | `gPointerWidth`; the target's own width; whether `IsPointer64Bit` answered | `DebugExtensionInitialize`, `Unload`, `DebugTarget` |
| `CriticalSections` (`mozmutex.cpp`) | the list in memory, `offset`, the last `Flink` read, what was printed with which trace | `MutexBegin`; `Visit`, one entry and `QueryStackTraceDatabase`; `VisitUntraced`, `VisitPart`, `VisitFails`, where reads fail or give a part; `BackAtHead` |
| `ActivationContexts` (`actctx.cpp`) | the stack in memory, `curActCtxFramePtr`, `index`, what was printed | `ActctxBegin`, `PrintContext`, `ReadPrevious`, and each failing read |
| `FunctionParameters` (`params.cpp`) | the words printed | `Params` with `GetParams32` and `GetParams64` |
| `GotoLine` (`uiext.cpp`) | the frames and documents of WinDbg, `sHwndWindbg`, the locals of the command | `FindWindbgWindow`, `FindRicheditWindow`, one action per message, and `UserActs` between them |
| `SymbolPath` (`bpsyms.cpp` 47-121, 388-420) | the debug directory, the entry looked at, the path | `PathBegin`, `NextEntry`, `OpenSymFile`, `NoPath` |
| `SymbolSearch` (`bpsyms.cpp` 1000-1087) | the table of names, the place in it, the names printed | `SearchBegin`, `NextName`, `LastName` |

External: the engine's answers, the memory of the target, WinDbg's windows. A
read fails, gives all, or, in `mozmutex` and `params`, gives the beginning only: these
do not look at `bytesRead`, and what was not read keeps its value. The
properties of `CriticalSections` are about sections read whole, of a target of the
width the extension was built for; that it goes wrong otherwise follows from
the code and contradicts nothing it says.

`QueryStackTraceDatabase` sets `gStackTraceDbInit` in a comment only (139); the model
keeps the variable, which is never true, because the rest of the function depends on
that.

### EventCallbacks and the code

A call of a Register function with no object is `BeginRegister` (construct,
assign `sInstance`, enter `SetEventCallbacksWide`), then any number of the engine's
`AddRef` and `Release`, then `RegisterSucceeds` or `RegisterFails`; with an object
it is `RegisterOnInstance`. `Release` includes the nested `Release` of the
singleton's own reference. The engine is external: it adds references only
to an object it has a reference to or is being given, drops only those it took,
has one when `SetEventCallbacksWide` succeeds and none when it fails. The
first and the last of these exclude an engine that touches an object after
dropping its last reference, or that accepts one after a transient
reference: in both the code would run on a destroyed object.

SymbolCache in turn shows (`ListensThroughService`) that it uses the callbacks as
`ListenerService` allows. It does not take the step `LetGo`: there the engine
keeps the callbacks for as long as the extension is loaded. What becomes of the
cache when the engine lets go is in the plan.

### ImportTable and the code

`importDescriptors`, `aPtr`, `thunk` and `index` are the variables of `iat` and
`WalkImageThunkData`; `i` is the descriptor the command is at. An image is its
directory of import descriptors, the data it is read from laid out as the linker
does: an address table runs from `FirstThunk` to its terminator, and no two
tables overlap (`Apart`). `unreadable` says whether reads of this image may fail;
where they may, each one may.

| Action | Code |
|---|---|
| `Begin` | `iat` up to the loop, or one of its early returns; `GetDataDirectoryEntry` with its reads |
| `SkipDescriptor`, `EnterTable` | the two conditions before `WalkImageThunkData` is called |
| `NextThunk`, `LeaveTable` | one turn of the walk; its `return false`, and with it `continue` |
| `Report`, `EntryUnread`, `ModuleUnread` | at the entry: the import is printed, or one of the reads fails |
| `NotFound` | the loop over the descriptors ends |

The lookup entry of the terminator is 0, which the code takes for the offset of a
name and reads from the start of the image; the model lets that read give any
function, or fail. The address of the terminator is therefore an
address for which `iat` may print something, and `TargetIsBound` says nothing of what.

## 3. Runs

| Run | Instance | Shows |
|---|---|---|
| `one_process` | one process, two libraries, three bases, engine calls succeed, fair | types; `FiledIsLoaded` and `DllsAreFiled`: with one process the cache mirrors the target, across unloads, restarts and repeated commands; `LookupIsExact` at every address of every filed module; `OrphansDropped`; `FollowsProcess`: the refinement of `ProcessSymbols`; `CallsReturn` |
| `two_processes` | two processes, two builds of a library, `bploadsyms`, every engine call may fail | `KeyedIsNamed`, `FiledKeepsSymbols`, `ForgottenForCause`, `ListensThroughService` |
| `commands` | one process, both loading commands, `bpln`, `bpk`, `bpbp` | `SyntheticIsTrue`: the names left in the engine stay true, whatever the cache forgets and rereads; `BreakpointsArmedAtSymbols`, `UnplacedIsDisabled`; `DetachForgets` |
| `symbol_file` | 9 symbols in every order of up to three, among them names whose parameters are not found, with paths, lines and other records; both callbacks, early ends, rereading | `TablesHoldRecords`, `TablesAgree` |
| `imports` | `iat` on 68 import directories, readable and not, fair | types; `TargetIsBound`: what is printed is what the loader bound; `WalkInTable`; `EntryIsReported`: every entry is found, however the tables are ordered |
| `callbacks` | two objects, two listeners, up to three references | `OnlyInstanceLives`, `RefCountExact`, `InstanceIsHeld`; `KeepsPromise`: the refinement of `ListenerService` |
| `session` | the commands of `ExtensionCommands`, targets of both widths, every list and stack of three entries, fair | types; `WidthIsTargets`; `WholeListFound`, `SectionsTraced`, `ContextsInOrder`, `ParamsOfFrame`: what is printed is what is there; `CaretOnLine`, `OnlyAskedMoves`; `PathIsOfBuild`; `SearchFindsAll`; `CommandsReturn` |
| `restart`, `two_paths`, `two_orphans`, `two_lookup`, `rebuild` | one or two processes | a violation each; see below |

### Bounds

- The cache: `MaxListeners` stops commands at two listeners, the first number
  at which listeners interact (one process twice, or two processes). The
  addresses are 0..15 with images of 3 or 4 bytes at 0, 4 and 8, so that images
  touch, there is free space above, and ULONG64 arithmetic wraps within reach.
  `dllA` and `dllA2` are two builds of one module, `dllB` has no symbol file. `Infos`
  has as many objects as there are names: the cache never has more.
- `commands`: `bpk` resolves stacks of up to two frames, two being enough for one
  to add the symbol that another asks for. Two modules have a symbol of the same
  name, which `bpbp` must tell apart. `MaxBreakpoints` is one: breakpoints do
  not touch each other, and one is judged when it is made.
- `callbacks`: `MaxHeld` and `MaxRegistered` cap the engine's references and the
  listeners.
- `imports`: up to two descriptors in either order, with or without a lookup
  table, of one or two entries of two bytes, so that the table asked about may come
  before, after or behind one that is skipped, and an address may fall inside an
  entry; `MaxPtr` lies past the last one.
- `symbol_file`: three symbols of nine are enough for two that share an offset and
  one that shares a name with one of them, in any order. The numbers 10 and
  16 are chosen so that reading either in the other base gives another number.
- `session`: three entries make a list with a part that never comes back to its
  head, or an entry that is on no list; lists that differ from these only in names are
  left out. `WordSize` 16 stands for 2^16, with indices that have a high word, a low
  word, or both; `IndexSize` 4 for 2^32, more than the numbers of a stack of three.
  `GuidWidths` <<3, 2>> in base 2 stands for the digits of a GUID, with values
  whose digits without padding would run together. Documents have up to three
  lines, among them a blank one, an empty last one and none at all; `MaxLine` 4 is
  past the end of each. Two windows have titles of which one begins as the other,
  a third is in the other WinDbg.

`FiledIsLoaded`, `DllsAreFiled`, `LookupIsExact` and `OrphansDropped` do not
hold with two processes, nor `SyntheticIsTrue` with two builds of a module, for
the reasons given under findings; the runs state the case in which the code
works. The runs with symmetry check safety only.

Fairness: weak fairness of `Proceed`, the steps of a command or callback that has
begun, in `SymbolCache`; of `Walk`, those of an `iat` that has begun, in `ImportTable`;
of `Step`, those of the command that runs, in `ExtensionCommands`. The thread is inside
ordinary C++ loops and goes on; the user, the engine and the target owe nothing.
`CommandsReturn` makes an exception of `Endless`: `mozmutex` and `actctx` follow
links in the target's memory until these come back, and check nothing, so that a list
that does not, or a link not read, can keep them for ever. That is said in
the property; it does not hold without it.

### Findings

Five runs end in a violation, each of something the source says of itself.

- `restart`: "Breakpad symbols are already loaded for this process"
  (`bpsyms.cpp` 469) is said of a restarted process whose executable has none. The
  listener filed the libraries; the executable's event is not in the mask.
- `two_paths`: "we only support loading from a single bp symbol path" (467), but
  a second process replaces `gBasePdbPath` under the first one's listener.
- `two_orphans`: `use_count() == 2` (597-604) misses a module that the process has
  under two keys, as it has when another process loaded the same library
  elsewhere.
- `two_lookup`: the entry before `upper_bound` (775-777) can be another process's
  module; the answer is then a symbol above the address.
- `rebuild`: "Don't load the symbols if we already have them" (273) keeps the
  symbols of the build that was unloaded.

## 4. Proofs

All proofs are for every value of the constants under the assumptions named in
the modules (`KeyAssumption`, `CacheAssumption`, `LookupAssumption`,
`BreakpointAssumption`, `CallbackAssumption`, `ImportAssumption`,
`SectionsAssumption`, `ContextsAssumption`, `FrameAssumption`, `GotoAssumption`,
`SearchAssumption`, `PathAssumption`, `SessionAssumption`, `FileAssumption`): process
ids and addresses are naturals, processes, addresses and names are finite in number,
`Null` is none of the values it stands in for, import tables do not overlap, an
index of a trace times the pointer width fits a DWORD, a stack has contexts,
WinDbg's windows show documents, a wildcard has no other case, the digits of a
GUID's fields have a base and widths, a `.sym` file is one that `dump_syms`
writes. A theorem that needs more says so in its own ASSUME.

- `RecursionTheorems`: what `emplace` and `erase` do to the type of a map; that a
  non-empty set of numbers, up to a bound, has a least and a greatest one, which is
  what stands behind each CHOOSE; and induction and recursion over the numbers.
  The library states these two of an operator, which the provers cannot
  instantiate. `InductionOverNat` is stated of a *set* (the numbers of which the
  claim holds) and follows from least elements; `RecursionOverNat` of a
  *function* that takes a value to the next, and gives the recursive function its
  equations. The proofs about loops over a sequence below rest on them.
- `SymbolCacheProofs`. `KeyLessIsOrder`: `KeyLess` is a strict total order;
  `PidRangeIsPid`: the iterator range of a process is exactly its keys. Everything
  that is said below of detaching rests on the second. `TypeCorrect` is inductive with one strengthening, `TaskOK`:
  the modules a command has still to file, and the one a load event is about, are
  loaded, and the loop over the listeners stands at one. `EventOK` says that
  there has been an event once there is a process. `KeyedIsNamed` needs `NamesOwn`, that
  an object filed under a name has that name: `ClearModuleInfoForPid` erases by
  `m->mName`, and erasing the entry of another object would leave keys without one. The
  heart is `UseCountIsTwo`: a use count of two, one of which is the table of names,
  leaves one key, which is within the range being erased. `IInv` is the
  conjunction `TypeInv /\ EventOK /\ TableInv`; from it follow the action
  properties `SymbolsKept`, `ForgottenOnlyForCause`, `DetachedForgotten`, and
  `ListensOnlyThroughService`, which maps each step to one of the service or a
  stutter.
- `SymbolLookupProofs`, what the cache tells. The runs show that with two
  processes, a failing engine, or two builds of a module it can be wrong; the
  theorems say that nothing else makes it wrong. Their hypotheses are named:
  `OneProcess`; `EngineAnswers`, no engine call fails; `OnlyBploadsyms`, the user
  keeps to that command; `OnePath`, and to one symbol directory; `NamesTellBuilds`,
  no module is replaced by another build of it.

  | Theorem | `OneProcess` | `EngineAnswers` | `OnlyBploadsyms` | `OnePath` | `NamesTellBuilds` |
  |---|---|---|---|---|---|
  | `FiledAlwaysLoaded`, `OrphansAlwaysDropped` | x | x | x | | |
  | `DllsAlwaysFiled` | x | x | | | |
  | `LookupAlwaysExact`, `AlwaysFollowsProcess` | x | x | x | x | x |
  | `SinglePathOfOneProcess`, `AtOrBelowOfOneProcess` | x | | | | |
  | `SymbolsKeptAreOfModule` | x | x | | | x |

  Each is needed where it is marked: without it TLC finds the property
  violated. `OnePath` and `NamesTellBuilds` are what "exact" means, the answer
  being compared with the build that is loaded and the directory that is named
  now, while the cache keeps what it has (`bpsyms.cpp` 273).

  The last three theorems are the other side of the runs `two_paths`, `two_lookup`
  and `rebuild`: the comments these quote hold where there is no second process
  and, for the third, no other build of a module and no failing call.

  `CacheInv` holds in every session: images lie apart and are never exchanged
  within a step (`LayoutOK`, `LayoutStep`), an object's symbols are of a build of
  its name (`SymsOfName`). `ProcessInv` adds what makes `FiledIsLoaded` inductive, which
  it is not by itself: in the middle of an unload event the module is gone and
  still filed (`KeysMirrored` allows that for the one event, before its first
  listener); the exit of the process is heard because `bploadsyms` has registered
  for it (`DetachHeard`); what is filed has a listener (`ObjectsHeard`). Where
  `bpsynthsyms` runs alone nobody hears the exit, but then no object has symbols
  (`SymsWhenStoring`). `OrphansAlwaysDropped` rests on `OwnObject`: with one process
  each key has an object to itself, so that a use count of two is what
  `ClearModuleInfoForPid` takes it for. `DllsAlwaysFiled` needs the same of
  the events under way (`DllsFiling`): a library that is loaded is filed, is still in the
  loop of the command, or its event has not come to the listener. For
  `LookupAlwaysExact`, `LastKey` shows that the entry before `upper_bound` is the module
  with the greatest base up to the address, and, since images lie apart, the one
  that the address is in (`LookupFindsModule`); no sum or difference wraps there.
  `AlwaysFollowsProcess` maps every step of the cache to one of
  `ProcessSymbols` or a stutter, from these invariants together (`FollowInv`). `IdleIsCaughtUp`
  gives the guard of every event; `SymsFiledStay`, that the symbols under a key never
  change, makes refiling a stutter and `Learn` and `Forget` steps of one module;
  `BuildSyms` that what is learned is of the module's own build; `DllsFiling`
  that nothing is missing when the listener comes.
- `SymbolCommandsProofs`. `UnplacedNeverEnabled` needs nothing: the address
  is set before the flag in every path through `bpbp`.
  `BreakpointsAlwaysArmedAtSymbols` holds for any processes and failures, since what
  `bpbp` takes from the cache is the *name's* symbols and the base is the
  engine's: `NamesTellBuilds`, and `SymbolsInside`, that the symbols in a `.sym` file
  lie in the image, are all it needs. `SyntheticAlwaysTrue` needs
  `OneProcess` and `EngineAnswers` besides, but not `OnlyBploadsyms`: after
  `bpsynthsyms` alone keys may be stale, yet lead to no symbols. The
  invariant is that a symbol given is one of a module still loaded
  (`TrueSymbol`); `AnswerIsLoaded` shows it of the next one. TLC violates both
  without any of their hypotheses.
- `EventCallbacksProofs`. The invariants are inductive together with the shape
  of a registration under way: while it lasts the object is either the singleton or
  has been destroyed already. `ServiceImplemented` maps registration to the step in
  which the call returns.
- `ImportTableProofs`. `WalkInTable` needs that an entry that is not 0 is not the
  terminator, which `Apart` gives (`FilledBelowTerminator`). `TargetIsBound` needs
  `WalkOK`, that the address asked for lies behind the entries passed: the walk
  stops at the first entry at or after it, which is then its own (`IndexOfPtr`).
- `SymbolFileProofs`. `TablesAlwaysAgree`, whose `TablesAgree` is inductive by itself, and
  `SymbolsAreKept`: a symbol that is filed is neither changed nor dropped by any
  further line, nor by a second reader. `TablesAlwaysHoldRecords` says what is
  filed. `SplitWords` shows what `Split` makes of words with delimiters between
  them, by induction over the tokens; from it `FuncLine`, `PublicLine`, `FileLine`,
  `LineRecordLine` and `OtherLine` show that each line reads back as what it
  was written from: a function's as its name and parameters in one text. Every text can
  be taken apart somewhere (`CutExists`), and in one place only
  (`NameAndParams`). `FunctionsUnderTheirNames` says that this is where the name ends
  if name and parameters are `ToldApart`, `NamesInOperatorKeepParams` that
  a name which ends in "operator" is filed with its parameters. `KindIs` shows
  that a line is taken for no other kind, although FUNC and FILE begin with a hexadecimal digit. `TableGrows` and `TableHas` show that
  `emplace` of one more line, or of one that was read before, gives the table of the lines
  read. The invariant `FileIInv` adds to the property that a reader is never
  further than its callback has been: a second reader meets what is there
  already, and then the one line that comes next.
- `ExtensionCommandsProofs`, over the whole session. `WidthAlwaysTargets` needs that
  before it is loaded the extension has the width 4 and no answer (`WidthIInv`).
  `ListFound` and `AlwaysTraced` rest on `MutexIInv`: while all was read whole,
  `offset` is on the list, and so is all that was found; what was found is closed
  under the links up to `offset` (`WalkOnList`), so that back at the head it is the
  list. That a trace is the creator's (`TraceIsCreators`) needs that the index
  times the width fits a DWORD, which `SectionsAssumption` states.
  `ContextsAlwaysInOrder` counts: the contexts printed so far are those up
  to the current one, each numbered with its place, and a ULONG that is larger than the
  number of frames never comes round to a number twice; hence its hypothesis that
  the frames are finite in number and fewer. `ParamsAlwaysOfFrame` holds after each
  width's loop. `AlwaysOnlyAskedMoves` needs that the document found is from then
  on closed or still the one asked for (`GotoIInv`): the user can close it, and
  reading its file again keeps its title. `CaretAlwaysOnLine` is of the case that
  nobody does: `CaretIInv` says that then the document is open, alone with its
  title in its own WinDbg, and its lines are those it had (`Undisturbed`); the
  character at which the n-th line begins is the sum of the lengths of those
  before it. `SearchAlwaysFindsAll` needs that what the search has passed is listed if it
  fits (`SearchIInv`), and that a name that fits matches the regular expression,
  by induction over the letters of the pattern from its end.
  `PathAlwaysOfBuild` needs that the entries passed are no references (`PathIInv`),
  and that digits of fixed width give back the number, so that two GUIDs have no
  path in common however their fields run together. `SessionAlwaysTyped` puts the types
  of the seven modules together; that of `actctx` needs that the frame whose
  `Previous` is read is one (`ActctxTypeInv`).

Only model-checked: liveness (`CallsReturn`, `EntryIsReported`, `CommandsReturn`),
which is out of the prover's reach, and the five violations, which are
counterexamples and not theorems. Every invariant and every action property of a
passing run, and each refinement, is proved.

## 5. Not modelled, and the plan

Not modelled:

- `knownstruct.cpp` and `mozilla.natvis`: they format a value for the
  debugger, and keep nothing. `bpsyminfo` counts and prints.
- What commands print, beyond the addresses, names and numbers the properties are about:
  `EscapeForDml`, `FindAndReplace`, the frames of a stack trace in
  `mozmutex` (whose buffer is of 32, the depth being the target's: 120).
- The line number in `NearestSymbol` (827): no caller asks for it. The displacement
  `bpln` prints where no symbol was found, which is not initialised (908).
- Interfaces missing in `DebugExtensionInitialize`: it reports them
  through `gDebugControl`, which may be the one missing (`mozdbgext.cpp` 21), and
  the load fails either way.
- In patterns of `bpx`, every character that a regular expression reads as
  something else, beside the three wildcards: brackets, `#`, parentheses, dots, bars and
  the rest (`Metacharacters`). The code passes them on (1012-1026), so that the
  pattern `operator()` does not fit the name `operator()`; the comment at 1004 says
  that it only handles the input it expects. Also names that fit only in the
  other case and sort before the prefix, which the search begins behind (1074), so
  that `SearchFindsAll` does not promise them.
- In `gotoline`, which of two WinDbgs is meant: the frame kept may be that of
  another (`uiext.cpp` 26-38), and `CaretOnLine` is about the extension's own.
  Documents the user opens while the command runs; handles that Windows gives
  out again, the ones of the model being never reused; the cut of titles and paths at
  `MAX_PATH` (72-78), two that agree so far being one title to the code.
- On the way to the `.sym` file, a read of the directory or of the CodeView data
  that gives a part and reports success (`bpsyms.cpp` 77, 86: the number of bytes is
  not asked for), and data of another format, whose `mSignature` (33) is not looked at.
- In `mozmutex`, a read of the list head that gives a part; of the entries
  this is modelled.

To come: `EventCallbacks` composed with `SymbolCache`, for an engine that lets go of
the callbacks.
