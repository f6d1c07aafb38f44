SPECIFICATION Spec
CONSTANTS
  exe = exe
  dllA = dllA
  dllA2 = dllA2
  dllB = dllB
  nExe = nExe
  nA = nA
  nB = nB
  Pids = {0, 1}
  Bases <- MCBases
  MaxBase <- MCMaxBase
  Exes = {exe}
  Dlls = {dllA}
  Names = {nExe, nA}
  NameOf <- MCNameOf
  SizeOf <- MCSizeOf
  SymRvas <- MCSymRvas
  Paths = {p1}
  SymFiles <- MCSymFiles
  Infos = {i1, i2}
  Loads = {TRUE}
  EngineFails = FALSE
  MaxListeners = 2
  Null = Null
PROPERTY
  OrphansDropped
