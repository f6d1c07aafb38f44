------------------------ MODULE SymbolCommandsProofs ------------------------
(***************************************************************************)
(* Theorems about the commands beside the symbol cache: the breakpoints of *)
(* bpbp, and the synthetic symbols that bpln, bpk and bpbp leave with the  *)
(* debugger engine.                                                        *)
(***************************************************************************)
EXTENDS SymbolBreakpoints, SymbolLookupProofs

(* The commands read the cache and never write it.                         *)
LEMMA CacheMoves == [BreakpointsNext]_allVars => [Next]_vars
BY DEF BreakpointsNext, CommandsNext, bpln, bpk, Resolve, bpbp, allVars

(* The offsets of a .sym file lie in the image it is of.                   *)
SymbolsInside == \A x \in Builds : SymRvas[x] \subseteq 0 .. SizeOf[x] - 1

-----------------------------------------------------------------------------
(* Breakpoints.                                                            *)

Askable == {<<m>> : m \in Names} \cup Names \X SymNames

Breakpoints == [offset : (0 .. MaxBase) \cup {Null}, enabled : BOOLEAN,
                asked : Askable]

LEMMA FoundSymbol ==
  ASSUME CacheInv, NEW module, NEW name,
         NEW sym \in LookupSymbolByName(module, name)
  PROVE  /\ sym.build \in Builds
         /\ NameOf[sym.build] = module
         /\ sym.mRva \in SymRvas[sym.build]
         /\ sym.mRva \in 0 .. MaxBase
         /\ SymNameOf[sym.build][sym.mRva] = name
<1> DEFINE m == gModuleInfoByName[module]
<1>1. /\ module \in DOMAIN gModuleInfoByName
      /\ info[m].mSyms # Null
      /\ sym.build = info[m].mSyms
      /\ sym.mRva \in SymRvas[info[m].mSyms]
      /\ SymNameOf[info[m].mSyms][sym.mRva] = name
  BY DEF LookupSymbolByName
<1>2. m \in DOMAIN info /\ info[m].mName = module
  BY <1>1 DEF CacheInv, IInv, TableInv, NamesOwn
<1>3. NameOf[info[m].mSyms] = module
  BY <1>1, <1>2 DEF CacheInv, SymsOfName
<1>4. info[m].mSyms \in Builds
  BY <1>1, <1>2 DEF CacheInv, IInv, TypeInv, TypeOK, TablesTypeOK, IsMap,
                    ModuleInfos
<1>5. QED
  BY <1>1, <1>3, <1>4, LookupAssumption

LEMMA FoundModule ==
  ASSUME CacheInv, NEW module, NEW base \in GetModuleByModuleName(module)
  PROVE  /\ current \in DOMAIN image
         /\ base \in DOMAIN image[current]
         /\ base \in 0 .. MaxBase
         /\ image[current][base] \in Builds
         /\ NameOf[image[current][base]] = module
BY KeyAssumption
DEF GetModuleByModuleName, CacheInv, IInv, TypeInv, TypeOK, EngineTypeOK,
    IsMap

(* The three ways in which a breakpoint is left.                           *)
LEMMA BpbpCases ==
  ASSUME NEW asked, bpbp(asked)
  PROVE  \/ Unplaced(asked)
         \/ \E sym \in LookupSymbolByName(asked[1], asked[2]),
               base \in GetModuleByModuleName(asked[1]) :
              \/ Placed(Wrap(base + sym.mRva), asked)
              \/ Enabled(base, sym, asked)
BY DEF bpbp

LEMMA BpbpTyped ==
  ASSUME CacheInv, breakpoints \in Seq(Breakpoints), NEW asked \in Askable,
         bpbp(asked)
  PROVE  \E bp \in Breakpoints :
           /\ breakpoints' = Append(breakpoints, bp)
           /\ bp.enabled => bp.offset # Null
<1>1. ASSUME NEW offset \in (0 .. MaxBase) \cup {Null}, NEW enabled \in BOOLEAN,
             AddBreakpoint(offset, enabled, asked),
             enabled => offset # Null
      PROVE  \E bp \in Breakpoints :
               /\ breakpoints' = Append(breakpoints, bp)
               /\ bp.enabled => bp.offset # Null
  <2> DEFINE bp == [offset |-> offset, enabled |-> enabled, asked |-> asked]
  <2>1. bp \in Breakpoints
    BY DEF Breakpoints
  <2>2. breakpoints' = Append(breakpoints, bp)
    BY <1>1 DEF AddBreakpoint
  <2>3. bp.enabled => bp.offset # Null
    BY <1>1
  <2>4. QED
    BY <2>1, <2>2, <2>3
<1>2. CASE Unplaced(asked)
  BY <1>1, <1>2 DEF Unplaced
<1>3. ASSUME NEW sym \in LookupSymbolByName(asked[1], asked[2]),
             NEW base \in GetModuleByModuleName(asked[1]),
             \/ Placed(Wrap(base + sym.mRva), asked)
             \/ Enabled(base, sym, asked)
      PROVE  \E bp \in Breakpoints :
               /\ breakpoints' = Append(breakpoints, bp)
               /\ bp.enabled => bp.offset # Null
  <2> DEFINE offset == Wrap(base + sym.mRva)
  <2>1. base \in Int /\ sym.mRva \in Int
    BY FoundSymbol, FoundModule
  <2>2. offset \in 0 .. MaxBase
    BY <2>1, KeyAssumption DEF Wrap
  <2>3. offset # Null
    BY <2>2, BreakpointAssumption
  <2>4. AddBreakpoint(offset, FALSE, asked) \/ AddBreakpoint(offset, TRUE, asked)
    BY <1>3 DEF Placed, Enabled
  <2> HIDE DEF offset
  <2>5. QED
    BY <1>1, <2>2, <2>3, <2>4
<1>4. QED
  BY <1>2, <1>3, BpbpCases

(* Unconditionally: any number of processes, any failure.                  *)
BreakpointInv ==
  CacheInv /\ breakpoints \in Seq(Breakpoints) /\ UnplacedIsDisabled

LEMMA BreakpointInductive ==
  /\ BreakpointsInit => BreakpointInv
  /\ BreakpointInv /\ [BreakpointsNext]_allVars => BreakpointInv'
<1>1. ASSUME BreakpointsInit
      PROVE  BreakpointInv
  <2>1. CacheInv
    BY <1>1, CacheInit DEF BreakpointsInit, CommandsInit
  <2>2. breakpoints = << >> /\ << >> \in Seq(Breakpoints)
    BY <1>1 DEF BreakpointsInit
  <2>3. UnplacedIsDisabled
    BY <2>2 DEF UnplacedIsDisabled
  <2>4. QED
    BY <2>1, <2>2, <2>3, Zenon DEF BreakpointInv
<1>2. ASSUME BreakpointInv, [BreakpointsNext]_allVars
      PROVE  BreakpointInv'
  <2>1. CacheInv'
    BY <1>2, CacheMoves, CacheStep DEF BreakpointInv
  <2>2. CASE UNCHANGED breakpoints
    BY <1>2, <2>1, <2>2 DEF BreakpointInv, UnplacedIsDisabled
  <2>3. ASSUME NEW asked \in Askable, bpbp(asked)
        PROVE  BreakpointInv'
    <3>1. PICK bp \in Breakpoints :
            /\ breakpoints' = Append(breakpoints, bp)
            /\ bp.enabled => bp.offset # Null
      BY <1>2, <2>3, BpbpTyped DEF BreakpointInv
    <3>2. breakpoints' \in Seq(Breakpoints)
      BY <1>2, <3>1 DEF BreakpointInv
    <3>3. ASSUME NEW k \in DOMAIN breakpoints', breakpoints'[k].enabled
          PROVE  breakpoints'[k].offset # Null
      <4>1. k \in DOMAIN breakpoints \/ k = Len(breakpoints) + 1
        BY <1>2, <3>1 DEF BreakpointInv
      <4>2. CASE k \in DOMAIN breakpoints
        <5>1. breakpoints'[k] = breakpoints[k]
          BY <1>2, <3>1, <4>2 DEF BreakpointInv
        <5>2. QED
          BY <1>2, <3>3, <4>2, <5>1 DEF BreakpointInv, UnplacedIsDisabled
      <4>3. CASE k = Len(breakpoints) + 1
        <5>1. breakpoints'[k] = bp
          BY <1>2, <3>1, <4>3 DEF BreakpointInv
        <5>2. QED
          BY <3>1, <3>3, <5>1
      <4>4. QED
        BY <4>1, <4>2, <4>3
    <3>4. QED
      BY <2>1, <3>2, <3>3 DEF BreakpointInv, UnplacedIsDisabled
  <2>4. QED
    BY <1>2, <2>2, <2>3 DEF BreakpointsNext, allVars, Askable
<1>3. QED
  BY <1>1, <1>2

(* A breakpoint that has no address is never enabled, whichever call of    *)
(* bpbp fails.                                                             *)
THEOREM UnplacedNeverEnabled == BreakpointsSpec => []UnplacedIsDisabled
<1>1. BreakpointInv => UnplacedIsDisabled
  BY DEF BreakpointInv
<1>2. QED
  BY BreakpointInductive, <1>1, PTL DEF BreakpointsSpec

(* Symbol rva of the module at base: its address is the sum, which does    *)
(* not wrap, and no other module of the process has it.                    *)
LEMMA SymbolOfImage ==
  ASSUME CacheInv, SymbolsInside, current \in DOMAIN image,
         NEW base \in DOMAIN image[current],
         NEW rva \in SymRvas[image[current][base]]
  PROVE  /\ Wrap(base + rva) = base + rva
         /\ \A b \in DOMAIN image[current] :
              base + rva \in b .. b + SizeOf[image[current][b]] - 1 => b = base
<1> DEFINE modules == image[current]
<1>1. IsMap(modules, Bases, Builds) /\ Separate(modules)
  BY DEF CacheInv, IInv, TypeInv, TypeOK, EngineTypeOK, LayoutOK
<1>2. base \in 0 .. MaxBase /\ modules[base] \in Builds
  BY <1>1, KeyAssumption DEF IsMap
<1>3. SizeOf[modules[base]] \in Nat /\ base + SizeOf[modules[base]] <= MaxBase
  BY <1>1, <1>2, CacheAssumption DEF Separate
<1>4. rva \in 0 .. SizeOf[modules[base]] - 1
  BY <1>2 DEF SymbolsInside
<1> HIDE DEF modules
<1>5. /\ base + rva \in 0 .. MaxBase
      /\ base + rva \in base .. base + SizeOf[modules[base]] - 1
  BY <1>2, <1>3, <1>4, KeyAssumption
<1>6. Wrap(base + rva) = base + rva
  BY <1>5, WrapSmall
<1>7. ASSUME NEW b \in DOMAIN modules,
             base + rva \in b .. b + SizeOf[modules[b]] - 1
      PROVE  b = base
  <2>1. base \in DOMAIN modules /\ base + rva \in Int
    BY <1>5 DEF modules
  <2>2. QED
    BY <1>1, <1>5, <1>7, <2>1, OneImageHolds
<1>8. QED
  BY <1>6, <1>7 DEF modules

LEMMA EnabledIsArmed ==
  ASSUME NamesTellBuilds, SymbolsInside, CacheInv, NEW asked,
         NEW sym \in LookupSymbolByName(asked[1], asked[2]),
         NEW base \in GetModuleByModuleName(asked[1])
  PROVE  /\ current \in DOMAIN image
         /\ base \in DOMAIN image[current]
         /\ image[current][base] = sym.build
         /\ NameOf[sym.build] = asked[1]
         /\ sym.mRva \in SymRvas[sym.build]
         /\ SymNameOf[sym.build][sym.mRva] = asked[2]
         /\ Wrap(base + sym.mRva) = base + sym.mRva
<1>1. /\ sym.build \in Builds
      /\ NameOf[sym.build] = asked[1]
      /\ sym.mRva \in SymRvas[sym.build]
      /\ SymNameOf[sym.build][sym.mRva] = asked[2]
  BY FoundSymbol
<1>2. /\ current \in DOMAIN image
      /\ base \in DOMAIN image[current]
      /\ image[current][base] \in Builds
      /\ NameOf[image[current][base]] = asked[1]
  BY FoundModule, Zenon
<1>3. image[current][base] = sym.build
  BY <1>1, <1>2 DEF NamesTellBuilds
<1>4. Wrap(base + sym.mRva) = base + sym.mRva
  BY <1>1, <1>2, <1>3, SymbolOfImage
<1>5. QED
  BY <1>1, <1>2, <1>3, <1>4

(* A breakpoint is armed at the symbol it was asked for, whatever process  *)
(* and whatever load the cache has the symbol from, and whichever calls of *)
(* the engine fail.  Without NamesTellBuilds the symbol may be that of     *)
(* another build of the module.                                            *)
THEOREM BreakpointsAlwaysArmedAtSymbols ==
  ASSUME NamesTellBuilds, SymbolsInside
  PROVE  BreakpointsSpec => BreakpointsArmedAtSymbols
<1>1. ASSUME BreakpointInv, [BreakpointsNext]_allVars
      PROVE  [ArmedAtSymbol]_allVars
  <2>1. CASE UNCHANGED breakpoints
    BY <2>1 DEF ArmedAtSymbol
  <2>2. ASSUME NEW asked \in Askable, bpbp(asked)
        PROVE  ArmedAtSymbol
    <3>1. /\ breakpoints \in Seq(Breakpoints)
          /\ UNCHANGED image /\ UNCHANGED current
      BY <1>1, <2>2 DEF BreakpointInv, bpbp, vars, engineVars
    <3>2. CASE Unplaced(asked)
      BY <3>1, <3>2 DEF Unplaced, AddBreakpoint, ArmedAtSymbol
    <3>3. ASSUME NEW sym \in LookupSymbolByName(asked[1], asked[2]),
                 NEW base \in GetModuleByModuleName(asked[1]),
                 \/ Placed(Wrap(base + sym.mRva), asked)
                 \/ Enabled(base, sym, asked)
          PROVE  ArmedAtSymbol
      <4>1. CASE Placed(Wrap(base + sym.mRva), asked)
        BY <3>1, <4>1 DEF Placed, AddBreakpoint, ArmedAtSymbol
      <4>2. CASE Enabled(base, sym, asked)
        <5>1. breakpoints' =
                Append(breakpoints, [offset |-> Wrap(base + sym.mRva),
                                     enabled |-> TRUE, asked |-> asked])
          BY <4>2 DEF Enabled, AddBreakpoint
        <5>2. /\ base \in DOMAIN image[current]
              /\ image[current][base] = sym.build
              /\ NameOf[sym.build] = asked[1]
              /\ sym.mRva \in SymRvas[sym.build]
              /\ SymNameOf[sym.build][sym.mRva] = asked[2]
              /\ Wrap(base + sym.mRva) = base + sym.mRva
          BY <1>1, EnabledIsArmed, Zenon DEF BreakpointInv
        <5>3. ASSUME NEW k \in DOMAIN breakpoints' \ DOMAIN breakpoints
              PROVE  /\ breakpoints'[k].asked = asked
                     /\ breakpoints'[k].offset = base + sym.mRva
          BY <3>1, <5>1, <5>2
        <5>4. QED
          BY <5>2, <5>3 DEF ArmedAtSymbol
      <4>3. QED
        BY <3>3, <4>1, <4>2
    <3>4. QED
      BY <2>2, <3>2, <3>3, BpbpCases
  <2>3. QED
    BY <1>1, <2>1, <2>2 DEF BreakpointsNext, allVars, Askable
<1>2. QED
  BY BreakpointInductive, <1>1, PTL
  DEF BreakpointsSpec, BreakpointsArmedAtSymbols

-----------------------------------------------------------------------------
(* Synthetic symbols.                                                      *)

TrueSymbol(s) ==
  /\ s.pid \in DOMAIN image
  /\ s.base \in DOMAIN image[s.pid]
  /\ image[s.pid][s.base] = s.build
  /\ s.rva \in SymRvas[s.build]
  /\ s.offset = s.base + s.rva

(* SyntheticIsTrue is not inductive: a symbol must also be of a module     *)
(* that is loaded, and the cache must tell the truth of the next one.      *)
SyntheticInv == ProcessInv /\ \A s \in synthetic : TrueSymbol(s)

(* A symbol given for the very module that has it.                         *)
LEMMA AddsTrue ==
  ASSUME CacheInv, SymbolsInside, current \in DOMAIN image,
         NEW base \in DOMAIN image[current],
         NEW rva \in SymRvas[image[current][base]],
         NEW s \in AddSyntheticSymbol(Wrap(base + rva), image[current][base],
                                      rva)
  PROVE  TrueSymbol(s)
<1>1. /\ Wrap(base + rva) = base + rva
      /\ \A b \in DOMAIN image[current] :
           base + rva \in b .. b + SizeOf[image[current][b]] - 1 => b = base
  BY SymbolOfImage
<1>2. PICK b \in DOMAIN image[current] :
        /\ base + rva \in b .. b + SizeOf[image[current][b]] - 1
        /\ s = [pid |-> current, base |-> b, offset |-> base + rva,
                build |-> image[current][base], rva |-> rva]
  BY <1>1 DEF AddSyntheticSymbol
<1>3. b = base
  BY <1>1, <1>2
<1>4. QED
  BY <1>2, <1>3 DEF TrueSymbol

(* What NearestSymbol answers is a symbol of the module at its key, which  *)
(* the current process has loaded.                                         *)
LEMMA AnswerIsLoaded ==
  ASSUME OneProcess, NamesTellBuilds, ProcessInv, task = Idle,
         current # Null, NEW offset \in 0 .. MaxBase,
         NearestSymbol(current, offset) # Unresolved
  PROVE  \E base \in Bases :
           /\ current \in DOMAIN image /\ base \in DOMAIN image[current]
           /\ \E rva \in SymRvas[image[current][base]] :
                LazyAddSynthSyms(offset) =
                  AddSyntheticSymbol(Wrap(base + rva), image[current][base],
                                     rva)
<1> DEFINE keys == DOMAIN gModuleInfoByKey
           here == ModuleKey(current, offset)
           key == LastNotAfter(keys, here)
           module == info[gModuleInfoByKey[key]]
           rvas == RvasUpTo(mSymsByRva(module), Wrap(offset - key.mBase))
           rva == Latest(rvas)
           answer == NearestSymbol(current, offset)
<1>1. /\ current \in DOMAIN image /\ current \in Pids
      /\ keys \in SUBSET Keys
  BY DEF ProcessInv, CacheInv, IInv, TypeInv, TypeOK, EngineTypeOK,
         TablesTypeOK, IsMap
<1>2. /\ keys # FromUpperBound(keys, here)
      /\ rvas # {}
      /\ answer = Resolved(key, rva, offset)
  BY DEF NearestSymbol, Latest
<1>3. key \in keys
  <2> DEFINE before == {j \in keys : j.mBase <= offset}
  <2>1. /\ keys \ FromUpperBound(keys, here) = before
        /\ before # {} => key \in before
    BY <1>1, LastKey
  <2>2. FromUpperBound(keys, here) \subseteq keys
    BY DEF FromUpperBound
  <2>3. QED
    BY <1>2, <2>1, <2>2
<1> HIDE DEF key, keys, here
<1>4. /\ gModuleInfoByKey[key] \in DOMAIN info
      /\ module \in ModuleInfos
  BY <1>3 DEF ProcessInv, CacheInv, IInv, TableInv, KeyedIsNamed, TypeInv,
              TypeOK, TablesTypeOK, IsMap, keys
<1>5. /\ module.mSyms # Null
      /\ rvas \subseteq SymRvas[module.mSyms]
  BY <1>2 DEF RvasUpTo, mSymsByRva
<1>6. module.mSyms \in Builds /\ NameOf[module.mSyms] = module.mName
  BY <1>4, <1>5 DEF ModuleInfos, ProcessInv, CacheInv, SymsOfName
<1>7. Storing
  BY <1>4, <1>5 DEF ProcessInv, SymsWhenStoring
<1>8. /\ key.mPid \in DOMAIN image
      /\ key.mBase \in DOMAIN image[key.mPid]
      /\ module.mName = NameOf[image[key.mPid][key.mBase]]
  BY <1>3, <1>7 DEF ProcessInv, KeysMirrored, Mirrored, Idle, keys
<1>9. key.mPid = current /\ key.mBase \in Bases
  BY <1>1, <1>3 DEF OneProcess, Keys
<1>10. image[current][key.mBase] \in Builds
  BY <1>1, <1>8, <1>9
  DEF ProcessInv, CacheInv, IInv, TypeInv, TypeOK, EngineTypeOK, IsMap
<1>11. module.mSyms = image[current][key.mBase]
  BY <1>6, <1>8, <1>9, <1>10 DEF NamesTellBuilds
<1>12. SymRvas[module.mSyms] \subseteq 0 .. MaxBase
  BY <1>6, LookupAssumption
<1> HIDE DEF module
<1>13. rva \in rvas
  <2>1. rvas \in SUBSET (0 .. MaxBase)
    BY <1>5, <1>12
  <2> HIDE DEF rvas
  <2>2. QED
    BY <1>2, <2>1, LastRva DEF Latest
<1>14. rva \in SymRvas[image[current][key.mBase]]
  BY <1>5, <1>11, <1>13
<1> HIDE DEF rva
<1>15. /\ answer.key = key /\ answer.rva = rva
       /\ answer.symOffset = Wrap(key.mBase + rva)
       /\ answer # Unresolved
  BY <1>2 DEF Resolved
<1> HIDE DEF answer
<1>16. LazyAddSynthSyms(offset) =
         AddSyntheticSymbol(Wrap(key.mBase + rva), module.mSyms, rva)
  BY <1>15 DEF LazyAddSynthSyms, answer, module
<1>17. QED
  BY <1>1, <1>8, <1>9, <1>11, <1>14, <1>16

LEMMA LazyAddsTrue ==
  ASSUME OneProcess, NamesTellBuilds, SymbolsInside, ProcessInv, task = Idle,
         current # Null, NEW offset \in 0 .. MaxBase,
         NEW s \in LazyAddSynthSyms(offset)
  PROVE  TrueSymbol(s)
<1>1. NearestSymbol(current, offset) # Unresolved
  BY DEF LazyAddSynthSyms
<1>2. PICK base \in Bases :
        /\ current \in DOMAIN image /\ base \in DOMAIN image[current]
        /\ \E rva \in SymRvas[image[current][base]] :
             LazyAddSynthSyms(offset) =
               AddSyntheticSymbol(Wrap(base + rva), image[current][base], rva)
  BY <1>1, AnswerIsLoaded
<1>3. CacheInv
  BY DEF ProcessInv
<1>4. QED
  BY <1>2, <1>3, AddsTrue

(* A loaded module stays, or its symbols go with it.                       *)
LEMMA TrueStays ==
  ASSUME ImagesStay, NEW s \in Surviving, TrueSymbol(s)
  PROVE  TrueSymbol(s)'
BY DEF ImagesStay, Surviving, TrueSymbol

LEMMA SyntheticInductive ==
  ASSUME OneProcess, EngineAnswers, NamesTellBuilds, SymbolsInside
  PROVE  /\ BreakpointsInit => SyntheticInv
         /\ SyntheticInv /\ [BreakpointsNext]_allVars => SyntheticInv'
<1>1. BreakpointsInit => SyntheticInv
  BY ProcessInductive DEF BreakpointsInit, CommandsInit, SyntheticInv
<1>2. ASSUME SyntheticInv, [BreakpointsNext]_allVars
      PROVE  SyntheticInv'
  <2>1. ProcessInv'
    BY <1>2, CacheMoves, ProcessInductive DEF SyntheticInv
  <2>2. ASSUME UNCHANGED image, NEW s \in synthetic
        PROVE  TrueSymbol(s)'
    BY <1>2, <2>2 DEF SyntheticInv, TrueSymbol
  <2>3. ASSUME UNCHANGED image, NEW s, TrueSymbol(s)
        PROVE  TrueSymbol(s)'
    BY <2>3 DEF TrueSymbol
  <2>4. CASE Next /\ synthetic' = Surviving
    <3>1. ImagesStay
      BY <1>2, <2>4, LayoutStep DEF SyntheticInv, ProcessInv, CacheInv, IInv
    <3>2. \A s \in synthetic' : TrueSymbol(s)'
      BY <1>2, <2>4, <3>1, TrueStays DEF SyntheticInv, Surviving
    <3>3. QED
      BY <2>1, <3>2 DEF SyntheticInv
  <2>5. ASSUME NEW offsets \in SUBSET (0 .. MaxBase), Resolve(offsets)
        PROVE  SyntheticInv'
    <3>1. /\ UNCHANGED image
          /\ task = Idle /\ current # Null
          /\ synthetic' =
               synthetic \cup UNION {LazyAddSynthSyms(o) : o \in offsets}
      BY <2>5 DEF Resolve, vars, engineVars
    <3>2. ASSUME NEW s \in synthetic'
          PROVE  TrueSymbol(s)'
      <4>1. CASE s \in synthetic
        BY <2>2, <3>1, <4>1
      <4>2. ASSUME NEW o \in offsets, s \in LazyAddSynthSyms(o)
            PROVE  TrueSymbol(s)'
        <5>1. o \in 0 .. MaxBase
          OBVIOUS
        <5>2. TrueSymbol(s)
          BY <1>2, <3>1, <4>2, <5>1, LazyAddsTrue DEF SyntheticInv
        <5>3. QED
          BY <2>3, <3>1, <5>2
      <4>3. QED
        BY <3>1, <4>1, <4>2
    <3>3. QED
      BY <2>1, <3>2 DEF SyntheticInv
  <2>6. ASSUME NEW asked, bpbp(asked)
        PROVE  SyntheticInv'
    <3>1. UNCHANGED image
      BY <2>6 DEF bpbp, vars, engineVars
    <3>2. CASE UNCHANGED synthetic
      BY <2>1, <2>2, <3>1, <3>2 DEF SyntheticInv
    <3>3. ASSUME NEW sym \in LookupSymbolByName(asked[1], asked[2]),
                 NEW base \in GetModuleByModuleName(asked[1]),
                 Enabled(base, sym, asked)
          PROVE  SyntheticInv'
      <4>1. CacheInv
        BY <1>2 DEF SyntheticInv, ProcessInv
      <4>2. /\ current \in DOMAIN image
            /\ base \in DOMAIN image[current]
            /\ image[current][base] = sym.build
            /\ sym.mRva \in SymRvas[sym.build]
        BY <4>1, EnabledIsArmed
      <4>3. synthetic' =
              synthetic \cup
                AddSyntheticSymbol(Wrap(base + sym.mRva), sym.build, sym.mRva)
        BY <3>3 DEF Enabled
      <4>4. ASSUME NEW s \in synthetic'
            PROVE  TrueSymbol(s)'
        <5>1. CASE s \in synthetic
          BY <2>2, <3>1, <5>1
        <5>2. CASE s \in AddSyntheticSymbol(Wrap(base + sym.mRva), sym.build,
                                            sym.mRva)
          <6>1. TrueSymbol(s)
            BY <4>1, <4>2, <5>2, AddsTrue
          <6>2. QED
            BY <2>3, <3>1, <6>1
        <5>3. QED
          BY <4>3, <5>1, <5>2
      <4>5. QED
        BY <2>1, <4>4 DEF SyntheticInv
    <3>4. QED
      BY <2>6, <3>2, <3>3, BpbpCases DEF Unplaced, Placed
  <2>7. CASE UNCHANGED allVars
    BY <2>1, <2>2, <2>7 DEF allVars, vars, engineVars, SyntheticInv
  <2>8. ASSUME NEW address \in 0 .. MaxBase, bpln(address)
        PROVE  SyntheticInv'
    BY <2>5, <2>8 DEF bpln
  <2>9. ASSUME NEW frames \in CallStacks, bpk(frames)
        PROVE  SyntheticInv'
    BY <2>5, <2>9 DEF bpk, CallStacks
  <2>10. QED
    BY <1>2, <2>4, <2>6, <2>7, <2>8, <2>9 DEF BreakpointsNext, CommandsNext
<1>3. QED
  BY <1>1, <1>2

(* The names that bpln, bpk and bpbp give the engine are true for as long  *)
(* as it keeps them: each is a symbol of the build that is loaded there,   *)
(* at that symbol's address, also after bpsynthsyms and bploadsyms have    *)
(* both been run, and whatever the cache forgets.  With a second process,  *)
(* a failing engine or another build of a module the cache has symbols of  *)
(* what is no longer loaded, and gives those.                              *)
THEOREM SyntheticAlwaysTrue ==
  ASSUME OneProcess, EngineAnswers, NamesTellBuilds, SymbolsInside
  PROVE  BreakpointsSpec => []SyntheticIsTrue
<1>1. SyntheticInv => SyntheticIsTrue
  BY DEF SyntheticInv, SyntheticIsTrue, TrueSymbol
<1>2. QED
  BY SyntheticInductive, <1>1, PTL DEF BreakpointsSpec

=============================================================================
