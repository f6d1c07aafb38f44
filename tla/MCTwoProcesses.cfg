SPECIFICATION Spec
CONSTANTS
  exe = exe
  dllA = dllA
  dllA2 = dllA2
  dllB = dllB
  nExe = nExe
  nA = nA
  nB = nB
  Pids = {0, 1}
  Bases <- MCTwoBases
  MaxBase <- MCMaxBase
  Exes = {exe}
  Dlls = {dllA, dllA2}
  Names = {nExe, nA}
  NameOf <- MCNameOf
  SizeOf <- MCSizeOf
  SymRvas <- MCSymRvas
  Paths = {p1}
  SymFiles <- MCSymFiles
  Infos = {i1, i2}
  Loads = {TRUE}
  EngineFails = TRUE
  MaxListeners = 2
  Null = Null
SYMMETRY InfoSymmetry
INVARIANTS
  KeyedIsNamed
PROPERTIES
  FiledKeepsSymbols
  ForgottenForCause
  ListensThroughService
