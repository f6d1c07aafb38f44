SPECIFICATION BreakpointsSpec
CONSTANTS
  exe = exe
  dllA = dllA
  dllA2 = dllA2
  dllB = dllB
  nExe = nExe
  nA = nA
  nB = nB
  Pids = {0}
  Bases <- MCBases
  MaxBase <- MCMaxBase
  Exes = {exe}
  Dlls = {dllA, dllB}
  Names = {nExe, nA, nB}
  NameOf <- MCNameOf
  SizeOf <- MCSizeOf
  SymRvas <- MCSymRvas
  SymNameOf <- MCSymNameOf
  Paths = {p1}
  SymFiles <- MCSymFiles
  Infos = {i1, i2, i3}
  Loads = {TRUE, FALSE}
  EngineFails = FALSE
  MaxListeners = 2
  BreakpointFails = TRUE
  MaxBreakpoints = 1
  Null = Null
SYMMETRY InfoSymmetry
INVARIANTS
  SyntheticIsTrue
  UnplacedIsDisabled
PROPERTIES
  DetachForgets
  BreakpointsArmedAtSymbols
