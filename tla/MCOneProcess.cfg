SPECIFICATION FairSpec
CONSTANTS
  exe = exe
  dllA = dllA
  dllA2 = dllA2
  dllB = dllB
  nExe = nExe
  nA = nA
  nB = nB
  Pids = {0}
  Bases <- MCBases
  MaxBase <- MCMaxBase
  Exes = {exe}
  Dlls = {dllA, dllB}
  Names = {nExe, nA, nB}
  NameOf <- MCNameOf
  SizeOf <- MCSizeOf
  SymRvas <- MCSymRvas
  Paths = {p1}
  SymFiles <- MCSymFiles
  Infos = {i1, i2, i3}
  Loads = {TRUE}
  EngineFails = FALSE
  MaxListeners = 2
  Null = Null
INVARIANTS
  TypeOK
  FiledIsLoaded
  DllsAreFiled
  LookupIsExact
PROPERTIES
  OrphansDropped
  FollowsProcess
  CallsReturn
