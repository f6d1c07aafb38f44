SPECIFICATION FairSpec
CONSTANTS
  dllA = dllA
  dllB = dllB
  f1 = f1
  f2 = f2
  f3 = f3
  ThunkSize = 2
  Dlls = {dllA, dllB}
  Functions = {f1, f2, f3}
  Images <- MCImages
  MaxPtr = 15
  Null = Null
INVARIANTS
  TypeOK
  TargetIsBound
  WalkInTable
PROPERTIES
  EntryIsReported
