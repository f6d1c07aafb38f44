SPECIFICATION SessionSpec
CONSTANTS
  s1 = s1
  s2 = s2
  s3 = s3
  head = head
  f1 = f1
  f2 = f2
  f3 = f3
  w1 = w1
  w2 = w2
  w3 = w3
  Sections = {s1, s2, s3}
  csListOffset = head
  Lists <- MCLists
  Creator <- MCCreator
  WordSize = 16
  BuildWidth = 8
  NoTrace = NoTrace
  Unreadable = Unreadable
  Frames = {f1, f2, f3}
  NullPtr = NullPtr
  Stacks <- MCStacks
  IndexSize = 4
  FrameWords <- MCFrameWords
  Garbage = 99
  Own = Own
  Foreign = Foreign
  Windows = {w1, w2, w3}
  FrameOf <- MCFrameOf
  Titles <- MCTitles
  Lower <- MCLower
  Texts <- MCTexts
  MaxLine = 4
  NullWnd = NullWnd
  HexBase = 2
  GuidWidths <- MCGuidWidths
  PdbNames = {"xul", "nss"}
  Directories <- MCDirectories
  NoInfo = NoInfo
  Code <- MCCode
  LowerCase <- MCLowerCase
  Names <- MCNames
  Globs <- MCGlobs
  Lines = {0, 1, 2, 3, 4}
  OpenDocs <- MCOpenDocs
INVARIANTS
  SessionTypeOK
  WidthIsTargets
  WholeListFound
  SectionsTraced
  ContextsInOrder
  ParamsOfFrame
  CaretOnLine
  PathIsOfBuild
  SearchFindsAll
PROPERTIES
  OnlyAskedMoves
  CommandsReturn
