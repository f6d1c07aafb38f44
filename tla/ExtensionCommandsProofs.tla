---------------------- MODULE ExtensionCommandsProofs ----------------------
(***************************************************************************)
(* Proofs about a session: the pointer width, whatever targets come after  *)
(* each other; mozmutex, for every list that may be in their memory, also  *)
(* those that never come back to their head, and every stack trace         *)
(* database whose size a DWORD can hold; actctx and params; gotoline, the  *)
(* caret it puts and the documents it leaves alone; the search of bpx; the *)
(* path of a .sym file; and the types.                                     *)
(***************************************************************************)
EXTENDS ExtensionCommands, FiniteSetTheorems, SequenceTheorems,
        RecursionTheorems

(* The sections printed are on the list, the walk is on it, too, and every *)
(* link out of what has been visited leads to what has been visited or to  *)
(* where the walk is.                                                      *)
WalkOnList ==
  mutexPc # "idle" /\ whole =>
    /\ found \subseteq OnList(Flink)
    /\ offset \in OnList(Flink) \cup {csListOffset}
    /\ \A l \in found \cup {csListOffset} :
         Flink[l] \in found \cup {csListOffset, offset}
    /\ mutexPc = "S_OK" => offset = csListOffset

(* Nothing is left of a walk, and the test of gStackTraceDbInit holds in   *)
(* every call.                                                             *)
MutexIInv ==
  /\ MutexTypeOK
  /\ gPointerWidth \in Widths /\ targetWidth \in Widths
  /\ gStackTraceDbInit = FALSE
  /\ mutexPc = "idle" => found = {}
  /\ WalkOnList
  /\ SectionsTraced

-----------------------------------------------------------------------------

(* The list goes on from its members to its members or to its head.        *)
LEMMA OnListClosed ==
  ASSUME NEW list \in [Links -> Links],
         NEW l \in OnList(list) \cup {csListOffset}
  PROVE  list[l] \in OnList(list) \cup {csListOffset}
<1> SUFFICES ASSUME list[l] # csListOffset
             PROVE  list[l] \in OnList(list)
  OBVIOUS
<1>1. l \in Links
  BY DEF OnList, Links
<1>2. list[l] \in Sections
  BY <1>1 DEF Links
<1>3. ASSUME NEW S \in SUBSET Sections, LinkClosed(list, S)
      PROVE  list[l] \in S
  <2>1. l \in S \cup {csListOffset}
    BY <1>3 DEF OnList
  <2>2. QED
    BY <1>3, <2>1 DEF LinkClosed
<1>4. QED
  BY <1>2, <1>3 DEF OnList

(* The entry read for a section is that of its own creation: the distance  *)
(* fits into a DWORD, and is counted in pointers of the target's width.    *)
LEMMA TraceIsCreators ==
  ASSUME targetWidth \in Widths, gPointerWidth = targetWidth,
         NEW s \in Sections
  PROVE  Trace(s) = CreatorTrace(s)
<1> DEFINE i == CreatorTrace(s)
<1>1. /\ Creator[s].high \in 0 .. WordSize - 1
      /\ Creator[s].low \in 0 .. WordSize - 1
      /\ WordSize \in Nat
  BY SectionsAssumption DEF WORD
<1>2. i \in Nat
  BY <1>1 DEF CreatorTrace
<1>3. DWORDs \in Nat /\ i * 8 < DWORDs
  BY <1>1, SectionsAssumption DEF DWORDs
<1>4. EntryDistance(Creator[s].high, Creator[s].low)
        = (i * targetWidth) % DWORDs
  BY DEF EntryDistance, CreatorTrace
<1> HIDE DEF i
<1>5. targetWidth \in {4, 8}
  BY DEF Widths
<1>6. i * targetWidth \in Nat /\ i * targetWidth < DWORDs
  BY <1>2, <1>3, <1>5
<1>7. (i * targetWidth) % DWORDs = i * targetWidth
  BY <1>3, <1>6
<1>8. /\ (i * targetWidth) % targetWidth = 0
      /\ (i * targetWidth) \div targetWidth = i
  <2>1. CASE targetWidth = 4
    BY <1>2, <2>1
  <2>2. CASE targetWidth = 8
    BY <1>2, <2>2
  <2>3. QED
    BY <1>5, <2>1, <2>2
<1>9. QED
  BY <1>4, <1>7, <1>8 DEF Trace, TraceAt, i

-----------------------------------------------------------------------------

LEMMA MutexInitial == SessionInit => MutexIInv
<1> SUFFICES ASSUME SessionInit
             PROVE  MutexIInv
  OBVIOUS
<1> USE DEF SessionInit, MutexInit, MutexLocalsInit
<1>1. (CHOOSE list \in Lists : TRUE) \in Lists
  BY SectionsAssumption
<1>2. MutexTypeOK
  BY <1>1 DEF MutexTypeOK, Links
<1>3. gPointerWidth \in Widths /\ targetWidth \in Widths
  BY DEF ExtensionInit, Widths
<1>4. WalkOnList /\ SectionsTraced
  BY DEF WalkOnList, SectionsTraced
<1>5. QED
  BY <1>2, <1>3, <1>4 DEF MutexIInv

(* The command begins.                                                     *)
LEMMA BeginKeeps ==
  ASSUME MutexIInv, UNCHANGED extensionVars,
         NEW list \in Lists, MutexBegin(list)
  PROVE  MutexIInv'
<1> USE DEF MutexBegin
<1>1. list \in [Links -> Links] /\ csListOffset \in Links
  BY SectionsAssumption DEF Links
<1>2. found' = {}
  BY DEF MutexIInv
<1>3. list[csListOffset] \in OnList(list) \cup {csListOffset}
  BY <1>1, OnListClosed
<1>4. MutexTypeOK'
  BY <1>1 DEF MutexIInv, MutexTypeOK
<1>5. WalkOnList'
  BY <1>2, <1>3 DEF WalkOnList
<1>6. SectionsTraced'
  BY <1>2 DEF SectionsTraced
<1>7. QED
  BY <1>2, <1>4, <1>5, <1>6 DEF MutexIInv, extensionVars

(* A section is visited, and the walk goes on along its link.              *)
LEMMA VisitKeeps ==
  ASSUME MutexIInv, UNCHANGED extensionVars,
         mutexPc = "walk", offset # csListOffset,
         found' = found \cup {offset}, offset' = Flink[offset],
         lastFlink' = Flink[offset],
         UNCHANGED <<mutexPc, Flink, whole, gStackTraceDbInit>>,
         NEW shown \in Int \cup {NoTrace, Unreadable},
         trace' = [trace EXCEPT ![offset] = shown],
         gPointerWidth = targetWidth =>
           shown \in {CreatorTrace(offset), Unreadable}
  PROVE  MutexIInv'
<1>1. /\ Flink \in [Links -> Links]
      /\ offset \in Sections /\ offset \in Links
      /\ found \subseteq Sections
      /\ trace \in [Sections -> Int \cup {NoTrace, Unreadable}]
  BY SectionsAssumption DEF MutexIInv, MutexTypeOK, Links
<1>2. MutexTypeOK'
  BY <1>1 DEF MutexIInv, MutexTypeOK
<1>3. ASSUME whole
      PROVE  WalkOnList'
  <2>1. /\ found \subseteq OnList(Flink)
        /\ offset \in OnList(Flink)
        /\ \A l \in found \cup {csListOffset} :
             Flink[l] \in found \cup {csListOffset, offset}
    BY <1>3 DEF MutexIInv, WalkOnList
  <2>2. Flink[offset] \in OnList(Flink) \cup {csListOffset}
    BY <1>1, <2>1, OnListClosed
  <2>3. QED
    BY <2>1, <2>2 DEF WalkOnList
<1>4. ASSUME ~whole
      PROVE  WalkOnList'
  BY <1>4 DEF WalkOnList
<1>5. SectionsTraced'
  <2>1. SUFFICES ASSUME whole, gPointerWidth = targetWidth,
                        NEW s \in found \cup {offset}
                 PROVE  trace'[s] \in {CreatorTrace(s), Unreadable}
    BY DEF SectionsTraced, extensionVars
  <2>2. CASE s = offset
    BY <1>1, <2>1, <2>2
  <2>3. CASE s # offset
    BY <1>1, <2>1, <2>3 DEF MutexIInv, SectionsTraced
  <2>4. QED
    BY <2>2, <2>3
<1>6. QED
  BY <1>2, <1>3, <1>4, <1>5 DEF MutexIInv, extensionVars

(* Every step of the command.                                              *)
LEMMA WalkKeeps ==
  ASSUME MutexIInv, MutexWalk, UNCHANGED extensionVars
  PROVE  MutexIInv'
<1> USE DEF mutexLocals
<1>1. CASE Visit
  <2>1. offset \in Sections
    BY <1>1 DEF Visit, MutexIInv, MutexTypeOK, Links
  <2>2. trace' = [trace EXCEPT ![offset] = Trace(offset)]
        /\ gStackTraceDbInit' = gStackTraceDbInit
    BY <1>1 DEF Visit, QueryStackTraceDatabase, MutexIInv
  <2>3. Trace(offset) \in Int \cup {NoTrace, Unreadable}
    <3>1. EntryDistance(Creator[offset].high, Creator[offset].low) \in Int
      <4>1. /\ Creator[offset].high \in Nat /\ Creator[offset].low \in Nat
            /\ WordSize \in Nat \ {0} /\ gPointerWidth \in Nat
        BY <2>1, SectionsAssumption DEF WORD, MutexIInv, Widths
      <4>2. DWORDs \in Nat \ {0}
        BY <4>1 DEF DWORDs
      <4>3. (Creator[offset].high * WordSize + Creator[offset].low)
               * gPointerWidth \in Nat
        BY <4>1
      <4>4. QED
        BY <4>2, <4>3 DEF EntryDistance
    <3>2. QED
      BY <3>1 DEF Trace, TraceAt, MutexIInv, Widths
  <2>4. gPointerWidth = targetWidth => Trace(offset) = CreatorTrace(offset)
    BY <2>1, TraceIsCreators DEF MutexIInv
  <2>5. QED
    BY <1>1, <2>2, <2>3, <2>4, VisitKeeps DEF Visit
<1>2. CASE VisitUntraced
  BY <1>2, VisitKeeps DEF VisitUntraced
<1>3. CASE VisitPart
  <2>1. MutexTypeOK'
    BY <1>3, SectionsAssumption DEF VisitPart, MutexIInv, MutexTypeOK, Links
  <2>2. QED
    BY <1>3, <2>1
    DEF VisitPart, MutexIInv, WalkOnList, SectionsTraced, extensionVars
<1>4. CASE VisitFails \/ BackAtHead
  BY <1>4 DEF VisitFails, BackAtHead, MutexIInv, MutexTypeOK, WalkOnList,
              SectionsTraced, extensionVars
<1>5. CASE MutexReturn
  <2>1. (CHOOSE list \in Lists : TRUE) \in Lists
    BY SectionsAssumption
  <2>2. MutexTypeOK'
    BY <1>5, <2>1 DEF MutexReturn, MutexIInv, MutexTypeOK, Links
  <2>3. QED
    BY <1>5, <2>2
    DEF MutexReturn, MutexIInv, WalkOnList, SectionsTraced, extensionVars
<1>6. QED
  BY <1>1, <1>2, <1>3, <1>4, <1>5 DEF MutexWalk

(* Outside the command its variables stay, or the globals are those of a   *)
(* library just loaded.                                                    *)
LEMMA ElsewhereKeeps ==
  ASSUME MutexIInv, UNCHANGED <<mutexPc, mutexLocals>>,
         gStackTraceDbInit' = FALSE,
         gPointerWidth' \in Widths, targetWidth' \in Widths,
         mutexPc = "idle" \/ UNCHANGED extensionVars
  PROVE  MutexIInv'
<1> USE DEF mutexLocals
<1>1. MutexTypeOK'
  BY DEF MutexIInv, MutexTypeOK
<1>2. WalkOnList'
  BY DEF MutexIInv, WalkOnList
<1>3. SectionsTraced'
  <2>1. CASE mutexPc = "idle"
    BY <2>1 DEF MutexIInv, SectionsTraced
  <2>2. CASE UNCHANGED extensionVars
    BY <2>2 DEF MutexIInv, SectionsTraced, extensionVars
  <2>3. QED
    BY <2>1, <2>2
<1>4. QED
  BY <1>1, <1>2, <1>3 DEF MutexIInv

LEMMA MutexInductive == MutexIInv /\ [SessionNext]_sessionVars => MutexIInv'
<1> SUFFICES ASSUME MutexIInv, [SessionNext]_sessionVars
             PROVE  MutexIInv'
  OBVIOUS
<1>1. ASSUME UNCHANGED <<extensionVars, mutexVars>>
      PROVE  MutexIInv'
  BY <1>1, ElsewhereKeeps DEF MutexIInv, mutexVars, extensionVars
<1>2. CASE Command
  <2>1. CASE OnlyMutex /\ \E list \in Lists : MutexBegin(list)
    BY <2>1, BeginKeeps DEF OnlyMutex
  <2>2. CASE OnlyActctx \/ OnlyParams \/ OnlyGoto \/ OnlyPath \/ OnlySearch
    BY <1>1, <2>2
    DEF OnlyActctx, OnlyParams, OnlyGoto, OnlyPath, OnlySearch, walkVars
  <2>3. QED
    BY <1>2, <2>1, <2>2 DEF Command
<1>3. CASE Step
  <2>1. CASE MutexWalk /\ OnlyMutex
    BY <2>1, WalkKeeps DEF OnlyMutex
  <2>2. CASE OnlyActctx \/ OnlyParams \/ OnlyGoto \/ OnlyPath \/ OnlySearch
    BY <1>1, <2>2
    DEF OnlyActctx, OnlyParams, OnlyGoto, OnlyPath, OnlySearch, walkVars
  <2>3. QED
    BY <1>3, <2>1, <2>2 DEF Step
<1>4. CASE UserActs /\ OnlyGoto
  BY <1>1, <1>4 DEF OnlyGoto, walkVars
<1>5. ASSUME AllIdle
      PROVE  mutexPc = "idle"
  BY <1>5 DEF AllIdle
<1>6. CASE LoadExtension
  <2>1. gPointerWidth' \in Widths
    BY <1>6 DEF LoadExtension, DebugExtensionInitialize, PointerWidth, MutexIInv,
                Widths
  <2>2. QED
    BY <1>5, <1>6, <2>1, ElsewhereKeeps
    DEF LoadExtension, DebugExtensionInitialize, MutexIInv, walkVars, mutexVars
<1>7. CASE UnloadExtension
  BY <1>5, <1>7, ElsewhereKeeps
  DEF UnloadExtension, Unload, MutexIInv, Widths
<1>8. CASE NextTarget
  BY <1>5, <1>8, ElsewhereKeeps
  DEF NextTarget, DebugTarget, MutexIInv, walkVars, mutexVars
<1>9. CASE UNCHANGED sessionVars
  BY <1>1, <1>9 DEF sessionVars, walkVars
<1>10. QED
  BY <1>2, <1>3, <1>4, <1>6, <1>7, <1>8, <1>9 DEF SessionNext

LEMMA MutexAlways == SessionSpec => []MutexIInv
BY MutexInitial, MutexInductive, PTL DEF SessionSpec

-----------------------------------------------------------------------------

(* mozmutex prints only sections on the list, and when it says S_OK all of *)
(* them: the walk is back at the head, so what it visited is closed.       *)
THEOREM ListFound == SessionSpec => []WholeListFound
<1>1. MutexIInv => WholeListFound
  <2> SUFFICES ASSUME MutexIInv, whole
               PROVE  /\ found \subseteq OnList(Flink)
                      /\ mutexPc = "S_OK" => OnList(Flink) \subseteq found
    BY DEF WholeListFound
  <2>1. found \subseteq OnList(Flink)
    BY DEF MutexIInv, WalkOnList
  <2>2. ASSUME mutexPc = "S_OK"
        PROVE  OnList(Flink) \subseteq found
    <3>1. LinkClosed(Flink, found)
      BY <2>2 DEF MutexIInv, WalkOnList, LinkClosed
    <3>2. found \in SUBSET Sections
      BY DEF MutexIInv, MutexTypeOK
    <3>3. QED
      BY <3>1, <3>2 DEF OnList
  <2>3. QED
    BY <2>1, <2>2
<1>2. QED
  BY <1>1, MutexAlways, PTL

(* Every trace printed under a section is that of its creation.            *)
THEOREM AlwaysTraced == SessionSpec => []SectionsTraced
<1>1. MutexIInv => SectionsTraced
  BY DEF MutexIInv
<1>2. QED
  BY <1>1, MutexAlways, PTL

-----------------------------------------------------------------------------

(* A library not yet loaded has its globals' initial values.               *)
WidthIInv ==
  /\ targetWidth \in Widths
  /\ ~loaded => gPointerWidth = 4 /\ answered = FALSE
  /\ WidthIsTargets

LEMMA WidthInductive == WidthIInv /\ [SessionNext]_sessionVars => WidthIInv'
<1> SUFFICES ASSUME WidthIInv, [SessionNext]_sessionVars
             PROVE  WidthIInv'
  OBVIOUS
<1> USE DEF WidthIInv, WidthIsTargets
<1>1. CASE UNCHANGED extensionVars
  BY <1>1 DEF extensionVars
<1>2. CASE LoadExtension
  <2>1. PICK hr \in IsPointer64Bit : DebugExtensionInitialize(hr)
    BY <1>2 DEF LoadExtension
  <2>2. CASE hr = "E_UNEXPECTED"
    BY <2>1, <2>2 DEF DebugExtensionInitialize
  <2>3. CASE hr # "E_UNEXPECTED"
    <3>1. hr = IF targetWidth = 8 THEN "S_OK" ELSE "S_FALSE"
      BY <2>1, <2>3 DEF IsPointer64Bit
    <3>2. QED
      BY <2>1, <3>1 DEF DebugExtensionInitialize, PointerWidth, Widths
  <2>4. QED
    BY <2>2, <2>3
<1>3. CASE UnloadExtension
  BY <1>3 DEF UnloadExtension, Unload
<1>4. CASE NextTarget
  BY <1>4 DEF NextTarget, DebugTarget
<1>5. CASE Command \/ Step \/ (UserActs /\ OnlyGoto) \/ UNCHANGED sessionVars
  <2>1. UNCHANGED extensionVars
    BY <1>5 DEF Command, Step, OnlyMutex, OnlyActctx, OnlyParams, OnlyGoto,
                OnlyPath, OnlySearch, sessionVars
  <2>2. QED
    BY <1>1, <2>1
<1>6. QED
  BY <1>2, <1>3, <1>4, <1>5 DEF SessionNext

(* Until another target comes, pointers are read with the width the target *)
(* has, unless the engine could not tell it when the extension was loaded. *)
THEOREM WidthAlwaysTargets == SessionSpec => []WidthIsTargets
<1>1. SessionInit => WidthIInv
  BY DEF SessionInit, ExtensionInit, WidthIInv, WidthIsTargets
<1>2. WidthIInv => WidthIsTargets
  BY DEF WidthIInv
<1>3. QED
  BY <1>1, <1>2, WidthInductive, PTL DEF SessionSpec

-----------------------------------------------------------------------------
(* One command runs at a time.                                             *)

(* What a step of the session can be for each of these commands; the       *)
(* window found is forgotten with the library.                             *)
LEMMA StepIsOfCommand ==
  ASSUME [SessionNext]_sessionVars
  PROVE  /\ \/ UNCHANGED paramsVars
            \/ \E n \in 0 .. Len(FrameWords) : Params(n)
            \/ ParamsReturn
         /\ \/ UNCHANGED actctxVars
            \/ \E s \in Stacks : ActctxBegin(s)
            \/ ActctxWalk
         /\ \/ /\ UNCHANGED <<inWindbg, gotoPc, gotoLocals>>
               /\ sHwndWindbg' \in {sHwndWindbg, NullWnd}
            \/ \E title \in Titles, line \in Lines, open \in OpenDocs :
                 \E others \in SUBSET {Foreign} :
                   GotoBegin(title, line, others, open)
            \/ GotoWalk
            \/ UserActs
         /\ \/ UNCHANGED pathVars
            \/ \E dir \in Directories : PathBegin(dir)
            \/ PathWalk
         /\ \/ UNCHANGED searchVars
            \/ \E names \in Names, glob \in Globs : SearchBegin(names, glob)
            \/ SearchWalk
<1> USE DEF SessionNext, Command, Step, LoadExtension, UnloadExtension,
            NextTarget, OnlyMutex, OnlyActctx, OnlyParams, OnlyGoto, OnlyPath,
            OnlySearch, sessionVars, walkVars, otherVars
<1>1. \/ UNCHANGED paramsVars
      \/ \E n \in 0 .. Len(FrameWords) : Params(n)
      \/ ParamsReturn
  OBVIOUS
<1>2. \/ UNCHANGED actctxVars
      \/ \E s \in Stacks : ActctxBegin(s)
      \/ ActctxWalk
  OBVIOUS
<1>3. \/ UNCHANGED gotoVars
      \/ /\ UNCHANGED <<inWindbg, gotoPc, gotoLocals>>
         /\ sHwndWindbg' = NullWnd
      \/ \E title \in Titles, line \in Lines, open \in OpenDocs :
           \E others \in SUBSET {Foreign} :
             GotoBegin(title, line, others, open)
      \/ GotoWalk
      \/ UserActs
  OBVIOUS
<1>4. UNCHANGED gotoVars =>
        UNCHANGED <<inWindbg, gotoPc, gotoLocals>> /\ sHwndWindbg' = sHwndWindbg
  BY DEF gotoVars
<1>5. \/ UNCHANGED pathVars
      \/ \E dir \in Directories : PathBegin(dir)
      \/ PathWalk
  OBVIOUS
<1>6. \/ UNCHANGED searchVars
      \/ \E names \in Names, glob \in Globs : SearchBegin(names, glob)
      \/ SearchWalk
  OBVIOUS
<1>7. \/ /\ UNCHANGED <<inWindbg, gotoPc, gotoLocals>>
         /\ sHwndWindbg' \in {sHwndWindbg, NullWnd}
      \/ \E title \in Titles, line \in Lines, open \in OpenDocs :
           \E others \in SUBSET {Foreign} :
             GotoBegin(title, line, others, open)
      \/ GotoWalk
      \/ UserActs
  BY <1>3, <1>4
<1>8. QED
  BY <1>1, <1>2, <1>5, <1>6, <1>7, Zenon

-----------------------------------------------------------------------------
(* params.                                                                 *)

(* The words of the buffer come out from the last to the first.            *)
LEMMA FrameReversed ==
  ASSUME NEW n \in Nat, NEW got \in 0 .. n
  PROVE  /\ Len(Reverse(ReadFrame(n, got))) = n
         /\ \A k \in 1 .. n :
              Reverse(ReadFrame(n, got))[n + 1 - k] \in {0, FrameWords[k]}
<1> DEFINE frame == ReadFrame(n, got)
<1>1. DOMAIN frame = 1 .. n /\ \A k \in 1 .. n : frame[k] \in {0, FrameWords[k]}
  BY DEF ReadFrame
<1>2. frame \in Seq({frame[k] : k \in 1 .. n}) /\ Len(frame) = n
  BY <1>1 DEF ReadFrame
<1> HIDE DEF frame
<1>3. Reverse(frame) = [k \in 1 .. n |-> frame[n - k + 1]]
  BY <1>2 DEF Reverse
<1>4. \A k \in 1 .. n : n + 1 - k \in 1 .. n /\ n - (n + 1 - k) + 1 = k
  OBVIOUS
<1>5. Len(Reverse(frame)) = n
  BY <1>3
<1>6. QED
  BY <1>1, <1>3, <1>4, <1>5 DEF frame

(* params prints what it was asked for, of the frame or zeros, for every   *)
(* frame and however much of it can be read.                               *)
THEOREM ParamsAlwaysOfFrame == SessionSpec => []ParamsOfFrame
<1>1. SessionInit => ParamsOfFrame
  BY DEF SessionInit, ParamsInit, ParamsOfFrame
<1>2. ParamsOfFrame /\ [SessionNext]_sessionVars => ParamsOfFrame'
  <2> SUFFICES ASSUME ParamsOfFrame, [SessionNext]_sessionVars
               PROVE  ParamsOfFrame'
    OBVIOUS
  <2>1. CASE UNCHANGED paramsVars
    BY <2>1 DEF paramsVars, ParamsOfFrame
  <2>2. ASSUME NEW n \in 0 .. Len(FrameWords), Params(n)
        PROVE  ParamsOfFrame'
    <3>1. SUFFICES ASSUME paramsResult' = "S_OK"
                   PROVE  ParamsOfFrame'
      BY DEF ParamsOfFrame
    <3>2. PICK got \in 0 .. n : params' = Reverse(ReadFrame(n, got))
      BY <2>2, <3>1 DEF Params, GetParams32, GetParams64
    <3>3. numParams' = n /\ n \in Nat
      BY <2>2 DEF Params
    <3>4. QED
      BY <3>2, <3>3, FrameReversed DEF ParamsOfFrame
  <2>3. CASE ParamsReturn
    BY <2>3 DEF ParamsReturn, ParamsOfFrame
  <2>4. QED
    BY <2>1, <2>2, <2>3, StepIsOfCommand
<1>3. QED
  BY <1>1, <1>2, PTL DEF SessionSpec

-----------------------------------------------------------------------------
(* actctx.                                                                 *)

Visited == {p[2] : p \in printed}

(* The contexts printed have the numbers below index, each one, and each   *)
(* frame has one.                                                          *)
Numbered ==
  /\ \A n \in 0 .. index - 1 : \E p \in printed : p[1] = n
  /\ \A p \in printed : p[1] < index
  /\ \A p, q \in printed : p[1] = q[1] <=> p[2] = q[2]

(* The numbers follow the stack.                                           *)
Follows ==
  \A p \in printed :
    /\ p[1] = 0 <=> p[2] = stack.ActiveFrame
    /\ \A q \in printed : q[1] = p[1] + 1 <=> q[2] = stack.Previous[p[2]]

(* The frame the loop is at comes after the last one printed, or is that   *)
(* one, and its own Previous has not been visited: a stack that ends does  *)
(* not come back.                                                          *)
AtFrame ==
  LET next == IF actctxPc = "test" THEN stack.Previous[curActCtxFramePtr]
                                   ELSE curActCtxFramePtr
  IN  /\ next \notin Visited
      /\ actctxPc = "test" => <<index - 1, curActCtxFramePtr>> \in printed
      /\ \A p \in printed : p[1] = index - 1 => stack.Previous[p[2]] = next
      /\ index = 0 => actctxPc = "body" /\ next = stack.ActiveFrame
      /\ actctxPc = "ok" => next = NullPtr

(* What the walk keeps on a stack that ends.                               *)
ContextWalk ==
  /\ Visited \subseteq OnStack
  /\ curActCtxFramePtr \in OnStack \cup {NullPtr}
  /\ index = Cardinality(Visited)
  /\ Numbered
  /\ Follows
  /\ actctxPc \in {"body", "test", "ok"} => AtFrame

ActctxIInv ==
  /\ ActctxTypeOK
  /\ actctxPc = "idle" => printed = {} /\ index = 0
  /\ actctxPc = "test" => curActCtxFramePtr # NullPtr
  /\ actctxPc # "idle" /\ Ends => ContextWalk

LEMMA StackType ==
  ASSUME stack \in Stacks
  PROVE  /\ stack.ActiveFrame \in Pointers
         /\ stack.Previous \in [Frames -> Pointers]
         /\ stack.ActiveFrame \in OnStack \cup {NullPtr}
         /\ \A f \in OnStack : stack.Previous[f] \in OnStack \cup {NullPtr}
         /\ OnStack \subseteq Frames
<1>1. /\ stack.ActiveFrame \in Pointers
      /\ stack.Previous \in [Frames -> Pointers]
  BY ContextsAssumption
<1>2. OnStack \subseteq Frames
  BY DEF OnStack
<1>3. stack.ActiveFrame \in OnStack \cup {NullPtr}
  BY <1>1 DEF OnStack, Pointers
<1>4. ASSUME NEW f \in OnStack
      PROVE  stack.Previous[f] \in OnStack \cup {NullPtr}
  <2>1. stack.Previous[f] \in Frames \cup {NullPtr}
    BY <1>1, <1>2 DEF Pointers
  <2>2. ASSUME NEW S \in SUBSET Frames,
               stack.ActiveFrame \in S \cup {NullPtr},
               \A g \in S : stack.Previous[g] \in S \cup {NullPtr}
        PROVE  stack.Previous[f] \in S \cup {NullPtr}
    <3>1. f \in S
      BY <2>2 DEF OnStack
    <3>2. QED
      BY <2>2, <3>1
  <2>3. QED
    BY <2>1, <2>2 DEF OnStack
<1>5. QED
  BY <1>1, <1>2, <1>3, <1>4

(* A stack that ends lies in no set of frames that its pointers never      *)
(* leave: the walk cannot come back to where it has been.                  *)
LEMMA EndIsLeft ==
  ASSUME stack \in Stacks, Ends, NEW S \in SUBSET Frames,
         stack.ActiveFrame \in S, \A g \in S : stack.Previous[g] \in S
  PROVE  FALSE
<1>1. OnStack \subseteq S
  BY DEF OnStack
<1>2. PICK f \in OnStack : stack.Previous[f] = NullPtr
  BY DEF Ends
<1>3. QED
  BY <1>1, <1>2, ContextsAssumption

LEMMA SameStack ==
  ASSUME stack' = stack
  PROVE  OnStack' = OnStack /\ (Ends' <=> Ends)
<1>1. OnStack' = OnStack
  BY DEF OnStack
<1>2. QED
  BY <1>1 DEF Ends

LEMMA ActctxBeginKeeps ==
  ASSUME ActctxIInv, NEW s \in Stacks, ActctxBegin(s)
  PROVE  ActctxIInv'
<1> USE DEF ActctxBegin
<1>1. ActctxTypeOK'
  BY ContextsAssumption DEF ActctxIInv, ActctxTypeOK, Pointers
<1>2. printed' = {} /\ index' = 0
  BY DEF ActctxIInv
<1>3. Visited' = {}
  BY <1>2 DEF Visited
<1>4. (stack.ActiveFrame \in OnStack \cup {NullPtr})'
  BY ContextsAssumption DEF OnStack, Pointers
<1>5. Cardinality(Visited') = 0
  BY <1>3, FS_EmptySet
<1>6. Numbered' /\ Follows'
  BY <1>2 DEF Numbered, Follows
<1>7. AtFrame'
  BY <1>2, <1>3 DEF AtFrame
<1>8. ContextWalk'
  BY <1>2, <1>3, <1>4, <1>5, <1>6, <1>7 DEF ContextWalk
<1>9. QED
  BY <1>1, <1>8 DEF ActctxIInv

(* The frame printed was not printed before, so the numbers stay in order, *)
(* and the ULONG that counts them does not wrap.                           *)
LEMMA PrintContextKeeps ==
  ASSUME ActctxIInv, PrintContext,
         IsFiniteSet(Frames), Cardinality(Frames) < IndexSize
  PROVE  ActctxIInv'
<1> USE DEF PrintContext
<1> DEFINE cur == curActCtxFramePtr
<1>1. /\ stack \in Stacks /\ cur \in Frames
      /\ index \in Nat /\ index < IndexSize /\ IndexSize \in Nat
      /\ printed \in SUBSET ((0 .. IndexSize - 1) \X Frames)
  BY ContextsAssumption DEF ActctxIInv, ActctxTypeOK, Pointers
<1>2. ActctxTypeOK'
  <2>1. index' \in 0 .. IndexSize - 1
    BY <1>1
  <2>2. QED
    BY <1>1, <2>1 DEF ActctxIInv, ActctxTypeOK
<1>3. ASSUME Ends'
      PROVE  ContextWalk'
  <2>1. Ends /\ ContextWalk /\ AtFrame
    BY <1>3, SameStack DEF ActctxIInv, ContextWalk
  <2>2. Visited' = Visited \cup {cur}
    <3>1. <<index, cur>>[2] = cur
      OBVIOUS
    <3>2. printed' = printed \cup {<<index, cur>>}
      OBVIOUS
    <3>3. QED
      BY <3>1, <3>2, Zenon DEF Visited
  <2>3. cur \notin Visited /\ Visited \subseteq Frames
    BY <1>1, <2>1 DEF AtFrame, Visited
  <2>4. index' = index + 1 /\ index' = Cardinality(Visited')
    <3>1. IsFiniteSet(Visited)
      BY <2>3, FS_Subset
    <3>2. Cardinality(Visited') = index + 1
      BY <2>1, <2>2, <2>3, <3>1, FS_AddElement DEF ContextWalk
    <3>3. Cardinality(Visited') <= Cardinality(Frames)
      BY <1>1, <2>2, <2>3, FS_Subset
    <3>4. Cardinality(Frames) \in Nat
      BY FS_CardinalityType
    <3>5. index + 1 < IndexSize
      BY <1>1, <3>2, <3>3, <3>4
    <3>6. QED
      BY <1>1, <3>2, <3>5
  <2>5. Numbered'
    <3>1. \A p, q \in printed : p[1] = q[1] <=> p[2] = q[2]
      BY <2>1 DEF ContextWalk, Numbered
    <3>2. \A p \in printed : p[1] < index /\ p[2] # cur
      BY <2>1, <2>3 DEF ContextWalk, Numbered, Visited
    <3>3. \A p, q \in printed' : p[1] = q[1] <=> p[2] = q[2]
      BY <1>1, <3>1, <3>2
    <3>4. \A n \in 0 .. index' - 1 : \E p \in printed' : p[1] = n
      <4>1. SUFFICES ASSUME NEW n \in 0 .. index' - 1
                     PROVE  \E p \in printed' : p[1] = n
        OBVIOUS
      <4>2. n = index \/ n \in 0 .. index - 1
        BY <1>1, <2>4
      <4>3. <<index, cur>> \in printed' /\ printed \subseteq printed'
        OBVIOUS
      <4>4. QED
        BY <2>1, <4>2, <4>3 DEF ContextWalk, Numbered
    <3>5. \A p \in printed' : p[1] < index'
      BY <1>1, <2>4, <3>2
    <3>6. QED
      BY <3>3, <3>4, <3>5 DEF Numbered
  <2>6. stack.ActiveFrame \in Visited'
    <3>1. CASE index = 0
      BY <2>1, <2>2, <3>1 DEF AtFrame
    <3>2. CASE index # 0
      <4>1. PICK p \in printed : p[1] = 0
        BY <1>1, <2>1, <3>2 DEF ContextWalk, Numbered
      <4>2. QED
        BY <2>1, <2>2, <4>1 DEF ContextWalk, Follows, Visited
    <3>3. QED
      BY <3>1, <3>2
  <2>7. \A p \in printed : stack.Previous[p[2]] \in Visited'
    <3>1. SUFFICES ASSUME NEW p \in printed
                   PROVE  stack.Previous[p[2]] \in Visited'
      OBVIOUS
    <3>2. p[1] \in Nat /\ p[1] < index
      BY <1>1, <2>1 DEF ContextWalk, Numbered
    <3>3. CASE p[1] = index - 1
      BY <2>1, <2>2, <3>3 DEF AtFrame
    <3>4. CASE p[1] # index - 1
      <4>1. PICK q \in printed : q[1] = p[1] + 1
        BY <1>1, <2>1, <3>2, <3>4 DEF ContextWalk, Numbered
      <4>2. QED
        BY <2>1, <2>2, <4>1 DEF ContextWalk, Follows, Visited
    <3>5. QED
      BY <3>3, <3>4
  <2>8. stack.Previous[cur] \notin Visited'
    <3>1. SUFFICES ASSUME stack.Previous[cur] \in Visited'
                   PROVE  FALSE
      OBVIOUS
    <3>2. Visited' \in SUBSET Frames
      BY <1>1, <2>2, <2>3
    <3>3. \A g \in Visited' : stack.Previous[g] \in Visited'
      BY <2>2, <2>7, <3>1 DEF Visited
    <3>4. QED
      BY <1>1, <2>1, <2>6, <3>2, <3>3, EndIsLeft
  <2>9. Follows'
    <3>1. ASSUME NEW p \in printed
          PROVE  /\ p[1] \in Nat /\ p[1] < index
                 /\ p[1] = 0 <=> p[2] = stack.ActiveFrame
                 /\ p[2] # cur /\ p[2] \in Visited'
                 /\ p[2] # stack.Previous[cur]
      BY <1>1, <2>1, <2>2, <2>3, <2>8
      DEF ContextWalk, Numbered, Follows, Visited
    <3>2. \A p, q \in printed :
            q[1] = p[1] + 1 <=> q[2] = stack.Previous[p[2]]
      BY <2>1 DEF ContextWalk, Follows
    <3>3. cur = stack.ActiveFrame <=> index = 0
      <4>1. index = 0 => cur = stack.ActiveFrame
        BY <2>1 DEF AtFrame
      <4>2. index # 0 => \E p \in printed : p[1] = 0
        BY <1>1, <2>1 DEF ContextWalk, Numbered
      <4>3. QED
        BY <3>1, <4>1, <4>2
    <3>4. \A p \in printed :
            index = p[1] + 1 <=> cur = stack.Previous[p[2]]
      <4>1. SUFFICES ASSUME NEW p \in printed
                     PROVE  index = p[1] + 1 <=> cur = stack.Previous[p[2]]
        OBVIOUS
      <4>2. CASE p[1] = index - 1
        BY <1>1, <2>1, <4>2 DEF AtFrame
      <4>3. CASE p[1] # index - 1
        <5>1. PICK q \in printed : q[1] = p[1] + 1
          BY <1>1, <2>1, <3>1, <4>3 DEF ContextWalk, Numbered
        <5>2. q[2] = stack.Previous[p[2]] /\ q[2] # cur
          BY <3>1, <3>2, <5>1
        <5>3. QED
          BY <1>1, <3>1, <4>3, <5>2
      <4>4. QED
        BY <4>2, <4>3
    <3>5. cur # stack.Previous[cur]
      BY <2>2, <2>8
    <3>6. \A p \in printed' :
            p[1] = 0 <=> p[2] = stack.ActiveFrame
      BY <3>1, <3>3
    <3>7. \A p, q \in printed' :
            q[1] = p[1] + 1 <=> q[2] = stack.Previous[p[2]]
      <4>1. SUFFICES ASSUME NEW p \in printed', NEW q \in printed'
                     PROVE  q[1] = p[1] + 1 <=> q[2] = stack.Previous[p[2]]
        OBVIOUS
      <4>2. CASE p \in printed /\ q \in printed
        BY <3>2, <4>2
      <4>3. CASE p \in printed /\ q = <<index, cur>>
        BY <3>4, <4>3
      <4>4. CASE p = <<index, cur>> /\ q \in printed
        BY <1>1, <3>1, <4>4
      <4>5. CASE p = <<index, cur>> /\ q = <<index, cur>>
        BY <1>1, <3>5, <4>5
      <4>6. QED
        BY <4>1, <4>2, <4>3, <4>4, <4>5
    <3>8. QED
      BY <3>6, <3>7 DEF Follows
  <2>10. AtFrame'
    <3>1. \A p \in printed' : p[1] = index' - 1 => p[2] = cur
      BY <1>1, <2>1, <2>4 DEF ContextWalk, Numbered
    <3>2. <<index' - 1, cur>> \in printed' /\ index' # 0
      BY <1>1, <2>4
    <3>3. QED
      BY <2>8, <3>1, <3>2 DEF AtFrame
  <2>11. Visited' \subseteq OnStack' /\ cur \in OnStack'
    BY <1>1, <2>1, <2>2, ContextsAssumption DEF ContextWalk, OnStack
  <2>12. QED
    BY <2>4, <2>5, <2>9, <2>10, <2>11 DEF ContextWalk
<1>4. QED
  BY <1>2, <1>3 DEF ActctxIInv

LEMMA ActctxWalkKeeps ==
  ASSUME ActctxIInv, ActctxWalk,
         IsFiniteSet(Frames), Cardinality(Frames) < IndexSize
  PROVE  ActctxIInv'
<1> USE DEF actctxLocals
<1>1. CASE ReadFails \/ PreviousUnread
  <2>1. /\ UNCHANGED actctxLocals
        /\ actctxPc \in {"body", "test"} /\ actctxPc' = "failed"
    BY <1>1 DEF ReadFails, PreviousUnread
  <2>2. ActctxTypeOK'
    BY <2>1 DEF ActctxIInv, ActctxTypeOK
  <2>3. Ends' => ContextWalk'
    BY <2>1, SameStack
    DEF ActctxIInv, ContextWalk, Visited, Numbered, Follows
  <2>4. QED
    BY <2>1, <2>2, <2>3 DEF ActctxIInv
<1>2. CASE PrintContext
  BY <1>2, PrintContextKeeps
<1>3. CASE ReadPrevious
  <2>1. /\ stack' = stack /\ index' = index /\ printed' = printed
        /\ curActCtxFramePtr' = stack.Previous[curActCtxFramePtr]
        /\ actctxPc = "test"
        /\ actctxPc' = IF curActCtxFramePtr' = NullPtr THEN "ok" ELSE "body"
    BY <1>3 DEF ReadPrevious
  <2>2. ASSUME Ends'
        PROVE  ContextWalk'
    <3>1. ContextWalk /\ AtFrame
      BY <2>1, <2>2 DEF ActctxIInv, ContextWalk, Ends, OnStack
    <3>2. AtFrame'
      BY <2>1, <3>1 DEF AtFrame, Visited
    <3>3. curActCtxFramePtr # NullPtr
      BY <2>1 DEF ActctxIInv
    <3>4. (curActCtxFramePtr \in OnStack \cup {NullPtr})'
      BY <2>1, <3>1, <3>3, StackType
      DEF ContextWalk, ActctxIInv, ActctxTypeOK, OnStack
    <3>5. QED
      BY <2>1, <3>1, <3>2, <3>4
      DEF ContextWalk, Visited, Numbered, Follows, OnStack
  <2>3. ActctxTypeOK'
    <3>1. curActCtxFramePtr \in Frames
      BY <2>1 DEF ActctxIInv, ActctxTypeOK, Pointers
    <3>2. QED
      BY <2>1, <3>1, StackType DEF ActctxIInv, ActctxTypeOK
  <2>4. QED
    BY <2>1, <2>2, <2>3 DEF ActctxIInv
<1>4. CASE ActctxReturn
  <2>1. (CHOOSE s \in Stacks : TRUE) \in Stacks
    BY DEF ActctxIInv, ActctxTypeOK
  <2>2. ActctxTypeOK'
    BY <1>4, <2>1, ContextsAssumption
    DEF ActctxReturn, ActctxTypeOK, Pointers
  <2>3. QED
    BY <1>4, <2>2 DEF ActctxReturn, ActctxIInv
<1>5. QED
  BY <1>1, <1>2, <1>3, <1>4 DEF ActctxWalk

(* actctx prints only contexts of the stack, numbered along it, and when   *)
(* it succeeds all of them, for every stack that ends and has fewer frames *)
(* than a ULONG has values.                                                *)
THEOREM ContextsAlwaysInOrder ==
  ASSUME IsFiniteSet(Frames), Cardinality(Frames) < IndexSize
  PROVE  SessionSpec => []ContextsInOrder
<1>1. SessionInit => ActctxIInv
  <2> SUFFICES ASSUME SessionInit PROVE ActctxIInv
    OBVIOUS
  <2>1. stack \in Stacks
    BY ContextsAssumption DEF SessionInit, ActctxInit, ActctxLocalsInit
  <2>2. QED
    BY <2>1, ContextsAssumption
    DEF SessionInit, ActctxInit, ActctxLocalsInit, ActctxIInv, ActctxTypeOK,
        Pointers
<1>2. ActctxIInv /\ [SessionNext]_sessionVars => ActctxIInv'
  <2> SUFFICES ASSUME ActctxIInv, [SessionNext]_sessionVars
               PROVE  ActctxIInv'
    OBVIOUS
  <2>1. CASE UNCHANGED actctxVars
    <3>1. ContextWalk => ContextWalk'
      BY <2>1, SameStack
      DEF actctxVars, actctxLocals, ContextWalk, Visited, Numbered, Follows,
          AtFrame
    <3>2. QED
      BY <2>1, <3>1, SameStack
      DEF actctxVars, actctxLocals, ActctxIInv, ActctxTypeOK
  <2>2. QED
    BY <2>1, ActctxBeginKeeps, ActctxWalkKeeps, StepIsOfCommand
<1>3. ActctxIInv => ContextsInOrder
  <2> SUFFICES ASSUME ActctxIInv, Ends
               PROVE  /\ \A p \in printed :
                           /\ p[2] \in OnStack
                           /\ p[1] = 0 <=> p[2] = stack.ActiveFrame
                           /\ \A q \in printed :
                                q[1] = p[1] + 1 <=> q[2] = stack.Previous[p[2]]
                      /\ actctxPc = "ok" => Visited = OnStack
    BY DEF ContextsInOrder, Visited
  <2>1. CASE actctxPc = "idle"
    BY <2>1 DEF ActctxIInv
  <2>2. CASE actctxPc # "idle"
    <3>1. ContextWalk /\ stack \in Stacks
      BY <2>2 DEF ActctxIInv, ActctxTypeOK
    <3>2. ASSUME actctxPc = "ok"
          PROVE  OnStack \subseteq Visited
      <4>1. AtFrame /\ index # 0
        BY <3>1, <3>2 DEF ContextWalk, AtFrame
      <4>2. index \in Nat
        BY DEF ActctxIInv, ActctxTypeOK
      <4>3. PICK p \in printed : p[1] = 0
        BY <3>1, <4>1, <4>2 DEF ContextWalk, Numbered
      <4>4. stack.ActiveFrame \in Visited
        BY <3>1, <4>3 DEF ContextWalk, Follows, Visited
      <4>5. ASSUME NEW q \in printed
            PROVE  stack.Previous[q[2]] \in Visited \cup {NullPtr}
        <5>1. q[1] \in Nat /\ q[1] < index
          BY <3>1 DEF ContextWalk, Numbered, ActctxIInv, ActctxTypeOK
        <5>2. CASE q[1] = index - 1
          BY <3>2, <4>1, <5>2 DEF AtFrame
        <5>3. CASE q[1] # index - 1
          <6>1. PICK r \in printed : r[1] = q[1] + 1
            BY <3>1, <4>2, <5>1, <5>3 DEF ContextWalk, Numbered
          <6>2. QED
            BY <3>1, <6>1 DEF ContextWalk, Follows, Visited
        <5>4. QED
          BY <5>2, <5>3
      <4>6. Visited \in SUBSET Frames
        BY DEF Visited, ActctxIInv, ActctxTypeOK
      <4>7. QED
        BY <4>4, <4>5, <4>6 DEF OnStack, Visited
    <3>3. QED
      BY <3>1, <3>2 DEF ContextWalk, Follows, Visited
  <2>3. QED
    BY <2>1, <2>2
<1>4. QED
  BY <1>1, <1>2, <1>3, PTL DEF SessionSpec

-----------------------------------------------------------------------------
(* gotoline.                                                               *)

IsDocument(doc) ==
  \E title, text, caret :
    doc = [title |-> title, text |-> text, caret |-> caret]

(* The document found is closed, or still the one of the path: reading its *)
(* file again changes no title.                                            *)
GotoIInv ==
  /\ docs = [w \in Windows |-> docs[w]]
  /\ \A w \in Windows : docs[w] = Closed \/ IsDocument(docs[w])
  /\ gotoPc \in {"count", "index", "select"} =>
       /\ richEditWindow \in Windows
       /\ docs[richEditWindow] = Closed \/ Asked(richEditWindow)

LEMMA GotoInitial == SessionInit => GotoIInv
BY DEF SessionInit, GotoInit, GotoLocalsInit, GotoIInv

LEMMA GotoBeginKeeps ==
  ASSUME NEW title, NEW line, NEW others, NEW open \in OpenDocs,
         GotoBegin(title, line, others, open)
  PROVE  GotoIInv'
<1>1. open \in [Windows -> {Closed} \cup Documents]
  BY SessionAssumption
<1>2. \A w \in Windows : open[w] = Closed \/ IsDocument(open[w])
  BY <1>1 DEF Documents, IsDocument
<1>3. QED
  BY <1>1, <1>2 DEF GotoBegin, GotoIInv

(* Moving the caret, and reading a file again, keep the title.             *)
LEMMA SetSelKeeps ==
  ASSUME GotoIInv, NEW w \in Windows, NEW pos, SetSel(w, pos)
  PROVE  /\ docs' = [v \in Windows |-> docs'[v]]
         /\ \A v \in Windows : docs'[v] = Closed \/ IsDocument(docs'[v])
         /\ \A v \in Windows : \/ docs'[v] = docs[v]
                               \/ v = w /\ IsOpen(w)
<1>1. CASE ~IsOpen(w)
  BY <1>1 DEF SetSel, GotoIInv
<1>2. CASE IsOpen(w)
  <2>1. PICK caret : docs' = [docs EXCEPT ![w].caret = caret]
    BY <1>2 DEF SetSel
  <2>2. PICK title, text, old :
          docs[w] = [title |-> title, text |-> text, caret |-> old]
    BY <1>2 DEF IsOpen, GotoIInv, IsDocument
  <2>3. docs'[w] = [title |-> title, text |-> text, caret |-> caret]
    BY <2>1, <2>2 DEF GotoIInv
  <2>4. \A v \in Windows : v # w => docs'[v] = docs[v]
    BY <2>1 DEF GotoIInv
  <2>5. docs' = [v \in Windows |-> docs'[v]]
    BY <2>1 DEF GotoIInv
  <2>6. QED
    BY <1>2, <2>2, <2>3, <2>4, <2>5 DEF GotoIInv, IsDocument
<1>3. QED
  BY <1>1, <1>2

LEMMA UserActsKeep ==
  ASSUME GotoIInv, UserActs
  PROVE  GotoIInv'
<1>1. UNCHANGED <<gotoPc, path, richEditWindow>>
  BY DEF UserActs, CloseDocument, ReloadDocument, CloseForeign, User, gotoArgs
<1>2. ASSUME NEW w \in Windows, CloseDocument(w)
      PROVE  GotoIInv'
  BY <1>1, <1>2 DEF CloseDocument, GotoIInv, Asked, InLower
<1>3. ASSUME NEW w \in Windows, NEW text \in Texts, ReloadDocument(w, text)
      PROVE  GotoIInv'
  <2>1. /\ docs[w] # Closed
        /\ docs' = [docs EXCEPT ![w].text = text, ![w].caret = 0]
    BY <1>3 DEF ReloadDocument, IsOpen
  <2>2. PICK title, old, caret :
          docs[w] = [title |-> title, text |-> old, caret |-> caret]
    BY <2>1 DEF GotoIInv, IsDocument
  <2> DEFINE read == [docs EXCEPT ![w].text = text]
  <2>3. /\ read = [v \in Windows |-> read[v]]
        /\ read[w] = [title |-> title, text |-> text, caret |-> caret]
        /\ \A v \in Windows : v # w => read[v] = docs[v]
    BY <2>2 DEF GotoIInv
  <2>4. docs' = [read EXCEPT ![w].caret = 0]
    BY <2>1
  <2> HIDE DEF read
  <2>5. /\ docs' = [v \in Windows |-> docs'[v]]
        /\ docs'[w] = [title |-> title, text |-> text, caret |-> 0]
        /\ \A v \in Windows : v # w => docs'[v] = docs[v]
    BY <2>3, <2>4
  <2>6. IsDocument(docs'[w]) /\ docs'[w].title = docs[w].title
    <3>1. IsDocument(docs'[w])
      BY <2>5, Zenon DEF IsDocument
    <3>2. QED
      BY <2>2, <2>5, <3>1
  <2>7. gotoPc' \in {"count", "index", "select"} =>
          \/ docs'[richEditWindow'] = Closed
          \/ Asked(richEditWindow)'
    <3>1. CASE richEditWindow = w
      BY <1>1, <2>1, <2>6, <3>1 DEF GotoIInv, Asked, InLower
    <3>2. CASE richEditWindow # w
      BY <1>1, <2>5, <3>2 DEF GotoIInv, Asked, InLower
    <3>3. QED
      BY <3>1, <3>2
  <2>8. QED
    BY <1>1, <2>5, <2>6, <2>7 DEF GotoIInv
<1>4. CASE CloseForeign
  BY <1>1, <1>4 DEF CloseForeign, GotoIInv, Asked, InLower
<1>5. QED
  BY <1>2, <1>3, <1>4 DEF UserActs

AskedMoves ==
  \A w \in Windows :
    gotoPc # "idle" /\ gotoPc' \notin {"idle", gotoPc}
      => docs'[w] = docs[w] \/ Asked(w)

LEMMA GotoWalkKeeps ==
  ASSUME GotoIInv, GotoWalk
  PROVE  GotoIInv' /\ AskedMoves
<1> USE DEF gotoLocals, gotoArgs
<1>1. CASE FindRicheditWindow
  <2>1. Asked(richEditWindow') /\ richEditWindow' \in Windows
    BY <1>1 DEF FindRicheditWindow, Found, IsOpen, IsTitled, Asked
  <2>2. QED
    BY <1>1, <2>1
    DEF FindRicheditWindow, GotoIInv, AskedMoves, Asked, InLower
<1>2. CASE Select
  <2>1. /\ gotoPc = "select" /\ gotoPc' = "S_OK"
        /\ SetSel(richEditWindow, charIndex)
    BY <1>2 DEF Select
  <2>2. /\ richEditWindow \in Windows
        /\ docs[richEditWindow] = Closed \/ Asked(richEditWindow)
    BY <2>1 DEF GotoIInv
  <2>3. /\ docs' = [v \in Windows |-> docs'[v]]
        /\ \A v \in Windows : docs'[v] = Closed \/ IsDocument(docs'[v])
        /\ \A v \in Windows : \/ docs'[v] = docs[v]
                              \/ v = richEditWindow /\ IsOpen(v)
    BY <2>1, <2>2, SetSelKeeps
  <2>4. AskedMoves
    BY <2>2, <2>3 DEF AskedMoves, IsOpen
  <2>5. QED
    BY <2>1, <2>3, <2>4 DEF GotoIInv
<1>3. CASE GotoReturn
  BY <1>3 DEF GotoReturn, GotoIInv, AskedMoves
<1>4. CASE \/ FindWindbgWindow \/ NoWindbgWindow \/ NoRicheditWindow
           \/ GetLineCount \/ OutOfBounds \/ GetLineIndex \/ NoLineIndex
  <2>1. UNCHANGED <<docs, path, richEditWindow>>
    BY <1>4 DEF FindWindbgWindow, NoWindbgWindow, NoRicheditWindow,
                GetLineCount, OutOfBounds, GetLineIndex, NoLineIndex, Fail
  <2>2. gotoPc' \in {"count", "index", "select"} =>
          gotoPc \in {"count", "index", "select"}
    BY <1>4 DEF FindWindbgWindow, NoWindbgWindow, NoRicheditWindow,
                GetLineCount, OutOfBounds, GetLineIndex, NoLineIndex, Fail
  <2>3. QED
    BY <2>1, <2>2 DEF GotoIInv, AskedMoves, Asked, InLower
<1>5. QED
  BY <1>1, <1>2, <1>3, <1>4 DEF GotoWalk

(* The caret of no document but the one of the path is moved, whatever the *)
(* user opens, closes and reloads, in any number of windows of any frames. *)
THEOREM AlwaysOnlyAskedMoves == SessionSpec => OnlyAskedMoves
<1>1. GotoIInv /\ [SessionNext]_sessionVars =>
        GotoIInv' /\ [AskedMoves]_gotoVars
  <2> SUFFICES ASSUME GotoIInv, [SessionNext]_sessionVars
               PROVE  GotoIInv' /\ AskedMoves
    OBVIOUS
  <2>1. CASE UNCHANGED <<gotoPc, gotoLocals>>
    BY <2>1 DEF gotoLocals, GotoIInv, AskedMoves, Asked, InLower
  <2>2. CASE UserActs
    BY <2>2, UserActsKeep
    DEF AskedMoves, UserActs, CloseDocument, ReloadDocument, CloseForeign, User
  <2>3. ASSUME NEW title, NEW line, NEW others, NEW open \in OpenDocs,
               GotoBegin(title, line, others, open)
        PROVE  GotoIInv' /\ AskedMoves
    BY <2>3, GotoBeginKeeps DEF GotoBegin, AskedMoves
  <2>4. QED
    BY <2>1, <2>2, <2>3, GotoWalkKeeps, StepIsOfCommand
<1>2. QED
  BY <1>1, GotoInitial, PTL DEF SessionSpec, OnlyAskedMoves, AskedMoves

-----------------------------------------------------------------------------
(* The lines of a text.                                                    *)

(* A line begins where the one before it ends.                             *)
LEMMA LineStartStep ==
  ASSUME NEW text \in Seq(Nat)
  PROVE  /\ LineStart(text, 0) = 0
         /\ \A n \in 0 .. Len(text) : LineStart(text, n) \in Nat
         /\ \A n \in 1 .. Len(text) :
              LineStart(text, n) = LineStart(text, n - 1) + text[n]
<1> DEFINE next == [p \in Nat \X Nat |->
                      IF p[1] < Len(text) THEN p[2] + text[p[1] + 1] ELSE p[2]]
           Starts(g) == g = [k \in 0 .. Len(text) |->
                               IF k = 0 THEN 0 ELSE g[k - 1] + text[k]]
<1>0. Len(text) \in Nat /\ \A k \in 1 .. Len(text) : text[k] \in Nat
  OBVIOUS
<1>1. /\ next \in [Nat \X Nat -> Nat]
      /\ \A k \in Nat, v \in Nat :
           k < Len(text) => next[<<k, v>>] = v + text[k + 1]
  BY <1>0
<1> HIDE DEF next
<1>2. PICK f \in [Nat -> Nat] : Recursive(f, 0, next)
  BY <1>1, RecursionOverNat
<1>3. ASSUME NEW k \in 1 .. Len(text)
      PROVE  f[k] = f[k - 1] + text[k]
  <2>1. k - 1 \in Nat /\ (k - 1) + 1 = k /\ k - 1 < Len(text)
    BY <1>0
  <2>2. f[k] = next[<<k - 1, f[k - 1]>>]
    BY <1>2, <2>1 DEF Recursive
  <2>3. f[k - 1] \in Nat
    BY <2>1
  <2>4. QED
    BY <1>1, <2>1, <2>2, <2>3
<1> DEFINE g == [k \in 0 .. Len(text) |-> f[k]]
<1>4. Starts(g)
  <2>1. \A k \in 0 .. Len(text) : k # 0 => g[k - 1] = f[k - 1]
    BY <1>0
  <2>2. g = [k \in 0 .. Len(text) |-> f[k]]
    OBVIOUS
  <2> HIDE DEF g
  <2>3. ASSUME NEW k \in 0 .. Len(text)
        PROVE  f[k] = IF k = 0 THEN 0 ELSE g[k - 1] + text[k]
    <3>1. k # 0 => k \in 1 .. Len(text)
      BY <1>0
    <3>2. QED
      BY <1>2, <1>3, <2>1, <3>1 DEF Recursive
  <2>4. QED
    BY <2>2, <2>3
<1>5. \A n : LineStart(text, n) = (CHOOSE h : Starts(h))[n]
  BY DEF LineStart
<1>6. PICK start : Starts(start) /\ \A n : LineStart(text, n) = start[n]
  BY <1>4, <1>5
<1>7. start[0] = 0
  BY <1>0, <1>6
<1>8. ASSUME NEW n \in 1 .. Len(text)
      PROVE  start[n] = start[n - 1] + text[n]
  <2>1. n \in 0 .. Len(text) /\ n # 0
    BY <1>0
  <2>2. QED
    BY <1>6, <2>1
<1> DEFINE Typed == {n \in Nat : n <= Len(text) => start[n] \in Nat}
<1>9. \A n \in Nat : n \in Typed
  <2>1. 0 \in Typed
    BY <1>7
  <2>2. ASSUME NEW m \in Nat, m \in Typed, m + 1 <= Len(text)
        PROVE  start[m + 1] \in Nat
    <3>1. m + 1 \in 1 .. Len(text) /\ (m + 1) - 1 = m
      BY <1>0, <2>2
    <3>2. start[m] \in Nat
      BY <2>2
    <3>3. start[m + 1] = start[m] + text[m + 1]
      BY <1>8, <3>1
    <3>4. text[m + 1] \in Nat
      BY <1>0, <3>1
    <3>5. \A a, b \in Nat : a + b \in Nat
      OBVIOUS
    <3>6. QED
      BY <3>2, <3>3, <3>4, <3>5, Zenon
  <2>3. ASSUME NEW m \in Nat, m \in Typed
        PROVE  m + 1 \in Typed
    <3>1. m + 1 \in Nat
      OBVIOUS
    <3>2. QED
      BY <2>2, <2>3, <3>1, Zenon
  <2> HIDE DEF Typed
  <2>4. QED
    BY <2>1, <2>3, InductionOverNat
<1>10. \A n \in 0 .. Len(text) : start[n] \in Nat
  BY <1>0, <1>9
<1> HIDE DEF Typed
<1>11. QED
  BY <1>6, <1>7, <1>8, <1>10

LEMMA LinesInOrder ==
  ASSUME NEW text \in Seq(Nat), NEW m \in 0 .. Len(text),
         NEW n \in 0 .. Len(text), m <= n
  PROVE  LineStart(text, m) <= LineStart(text, n)
<1> DEFINE Ordered == {k \in Nat : m <= k /\ k <= Len(text) =>
                         LineStart(text, m) <= LineStart(text, k)}
<1>1. Len(text) \in Nat /\ \A k \in 1 .. Len(text) : text[k] \in Nat
  OBVIOUS
<1>2. \A k \in 0 .. Len(text) : LineStart(text, k) \in Nat
  BY LineStartStep
<1>3. 0 \in Ordered
  BY <1>1, <1>2
<1>4. ASSUME NEW k \in Nat, k \in Ordered
      PROVE  k + 1 \in Ordered
  <2>1. SUFFICES ASSUME m <= k + 1, k + 1 <= Len(text)
                 PROVE  LineStart(text, m) <= LineStart(text, k + 1)
    OBVIOUS
  <2>2. CASE m = k + 1
    BY <1>2, <2>2
  <2>3. CASE m # k + 1
    <3>1. /\ k + 1 \in 1 .. Len(text) /\ k \in 0 .. Len(text)
          /\ (k + 1) - 1 = k
      BY <1>1, <2>1
    <3>2. LineStart(text, k + 1) = LineStart(text, k) + text[k + 1]
      BY <3>1, LineStartStep
    <3>3. LineStart(text, m) <= LineStart(text, k)
      BY <1>1, <1>4, <2>1, <2>3
    <3>4. /\ LineStart(text, m) \in Nat /\ LineStart(text, k) \in Nat
          /\ text[k + 1] \in Nat
      BY <1>1, <1>2, <3>1
    <3>5. \A a, b, c \in Nat : a <= b => a <= b + c
      OBVIOUS
    <3>6. QED
      BY <3>2, <3>3, <3>4, <3>5, Zenon
  <2>4. QED
    BY <2>2, <2>3
<1> HIDE DEF Ordered
<1>5. \A k \in Nat : k \in Ordered
  BY <1>3, <1>4, InductionOverNat
<1>6. QED
  BY <1>1, <1>5 DEF Ordered

(* The line a position is on, if a line begins there: it is that line, for *)
(* only the last line may be empty.                                        *)
LEMMA LineAtStart ==
  ASSUME NEW text \in Texts, NEW m \in 0 .. Len(text) - 1
  PROVE  LineAt(text, LineStart(text, m)) = m
<1>1. /\ text \in Seq(Nat) /\ Len(text) \in Nat \ {0}
      /\ \A n \in 1 .. Len(text) - 1 : text[n] \in Nat /\ text[n] > 0
  BY GotoAssumption
<1>2. \A n \in 0 .. Len(text) : LineStart(text, n) \in Nat
  BY <1>1, LineStartStep
<1>3. ASSUME NEW n \in 0 .. Len(text) - 2
      PROVE  LineStart(text, n) < LineStart(text, n + 1)
  <2>1. /\ n + 1 \in 1 .. Len(text) /\ (n + 1) - 1 = n /\ n \in 0 .. Len(text)
        /\ n + 1 \in 1 .. Len(text) - 1
    BY <1>1
  <2>2. LineStart(text, n + 1) = LineStart(text, n) + text[n + 1]
    BY <1>1, <2>1, LineStartStep
  <2>3. LineStart(text, n) \in Nat /\ text[n + 1] \in Nat /\ text[n + 1] > 0
    BY <1>1, <1>2, <2>1
  <2>4. \A a, b \in Nat : b > 0 => a < a + b
    OBVIOUS
  <2>5. QED
    BY <2>2, <2>3, <2>4, Zenon
<1> DEFINE At(n) ==
      /\ LineStart(text, n) <= LineStart(text, m)
      /\ n = Len(text) - 1 \/ LineStart(text, m) < LineStart(text, n + 1)
<1>4. At(m)
  BY <1>1, <1>2, <1>3
<1>5. ASSUME NEW n \in 0 .. Len(text) - 1, At(n)
      PROVE  n = m
  <2>1. CASE n < m
    <3>1. n # Len(text) - 1 /\ n + 1 \in 0 .. Len(text) /\ n + 1 <= m
          /\ m \in 0 .. Len(text)
      BY <1>1, <2>1
    <3>2. LineStart(text, n + 1) <= LineStart(text, m)
      BY <1>1, <3>1, LinesInOrder
    <3>3. QED
      BY <1>2, <1>5, <3>1, <3>2
  <2>2. CASE m < n
    <3>1. /\ m \in 0 .. Len(text) - 2 /\ m + 1 \in 0 .. Len(text)
          /\ m + 1 <= n /\ n \in 0 .. Len(text) /\ m \in 0 .. Len(text)
      BY <1>1, <2>2
    <3>2. LineStart(text, m + 1) <= LineStart(text, n)
      BY <1>1, <3>1, LinesInOrder
    <3>3. LineStart(text, m) < LineStart(text, m + 1)
      BY <1>3, <3>1
    <3>4. QED
      BY <1>2, <1>5, <3>1, <3>2, <3>3
  <2>3. QED
    BY <1>1, <2>1, <2>2
<1>6. LineAt(text, LineStart(text, m)) = CHOOSE n \in 0 .. Len(text) - 1 : At(n)
  BY DEF LineAt
<1> HIDE DEF At
<1>7. QED
  BY <1>4, <1>5, <1>6

-----------------------------------------------------------------------------
(* gotoline: the caret.                                                    *)

(* The types, and the bounds of the line once they are checked.            *)
GotoTypeInv ==
  /\ GotoTypeOK
  /\ docs = [w \in Windows |-> docs[w]]
  /\ gotoPc \in {"count", "index", "select", "S_OK"} =>
       richEditWindow \in Windows
  /\ gotoPc = "index" => lineNo > 0

LEMMA GotoTypeInitial == SessionInit => GotoTypeInv
<1> SUFFICES ASSUME SessionInit PROVE GotoTypeInv
  OBVIOUS
<1> USE DEF SessionInit, GotoInit, GotoLocalsInit
<1>1. path \in Titles /\ lineNo \in 0 .. MaxLine
  BY GotoAssumption
<1>2. \A w \in Windows : docs[w] = Closed
  OBVIOUS
<1>3. QED
  BY <1>1, <1>2 DEF GotoTypeInv, GotoTypeOK

LEMMA DocumentType ==
  ASSUME NEW doc \in Documents, NEW text \in Texts, NEW caret \in Nat
  PROVE  /\ doc = [title |-> doc.title, text |-> doc.text, caret |-> doc.caret]
         /\ [doc EXCEPT !.caret = caret] \in Documents
         /\ [doc EXCEPT !.caret = caret]
              = [title |-> doc.title, text |-> doc.text, caret |-> caret]
         /\ [doc EXCEPT !.text = text] \in Documents
         /\ [doc EXCEPT !.text = text].title = doc.title
<1>1. PICK t, u, c : doc = [title |-> t, text |-> u, caret |-> c]
  BY DEF Documents
<1>2. doc.title \in Titles /\ doc.text \in Texts /\ doc.caret \in Nat
  BY DEF Documents
<1>3. /\ doc.title = t /\ doc.text = u /\ doc.caret = c
      /\ [doc EXCEPT !.caret = caret]
           = [title |-> t, text |-> u, caret |-> caret]
      /\ [doc EXCEPT !.text = text] = [title |-> t, text |-> text, caret |-> c]
  BY <1>1
<1>4. QED
  BY <1>1, <1>2, <1>3 DEF Documents

(* EM_LINEINDEX answers with a position, or -1 where there is no such line *)
(* in an open document.                                                    *)
LEMMA LineIndexType ==
  ASSUME GotoTypeInv, NEW w \in Windows, NEW n \in Nat
  PROVE  /\ LineIndex(w, n) \in Nat \cup {-1}
         /\ IsOpen(w) /\ n < Len(docs[w].text) =>
              LineIndex(w, n) = LineStart(docs[w].text, n)
<1>1. CASE ~IsOpen(w) \/ ~ (n < Len(docs[w].text))
  BY <1>1 DEF LineIndex
<1>2. CASE IsOpen(w) /\ n < Len(docs[w].text)
  <2>1. docs[w].text \in Seq(Nat)
    BY <1>2, GotoAssumption DEF IsOpen, GotoTypeInv, GotoTypeOK, Documents
  <2>2. n \in 0 .. Len(docs[w].text)
    BY <1>2, <2>1
  <2>3. LineStart(docs[w].text, n) \in Nat
    BY <2>1, <2>2, LineStartStep
  <2>4. QED
    BY <1>2, <2>3 DEF LineIndex
<1>3. QED
  BY <1>1, <1>2

(* EM_SETSEL moves the caret of an open document, no further than its end, *)
(* and keeps all else.                                                     *)
LEMMA SetSelType ==
  ASSUME GotoTypeInv, NEW w \in Windows, NEW pos \in Nat, SetSel(w, pos)
  PROVE  /\ docs' = [v \in Windows |-> docs'[v]]
         /\ \A v \in Windows : docs'[v] = Closed \/ docs'[v] \in Documents
         /\ \A v \in Windows : v # w \/ ~IsOpen(w) => docs'[v] = docs[v]
         /\ IsOpen(w) =>
              LET text == docs[w].text
              IN  docs'[w] = [docs[w] EXCEPT !.caret =
                                IF pos < LineStart(text, Len(text))
                                THEN pos ELSE LineStart(text, Len(text))]
<1>1. CASE ~IsOpen(w)
  BY <1>1 DEF SetSel, GotoTypeInv, GotoTypeOK
<1>2. CASE IsOpen(w)
  <2> DEFINE text == docs[w].text
             end == LineStart(text, Len(text))
             caret == IF pos < end THEN pos ELSE end
  <2>1. docs[w] \in Documents
    BY <1>2 DEF IsOpen, GotoTypeInv, GotoTypeOK
  <2>2. text \in Texts
    BY <2>1 DEF Documents
  <2>3. end \in Nat
    BY <2>2, LineStartStep, GotoAssumption
  <2>4. docs' = [docs EXCEPT ![w] = [docs[w] EXCEPT !.caret = caret]]
    BY <1>2 DEF SetSel
  <2>5. caret \in Nat
    BY <2>3
  <2> HIDE DEF caret
  <2>6. [docs[w] EXCEPT !.caret = caret] \in Documents
    BY <2>1, <2>2, <2>5, DocumentType
  <2> DEFINE moved == [docs[w] EXCEPT !.caret = caret]
  <2> HIDE DEF moved
  <2>7. docs' = [docs EXCEPT ![w] = moved]
    BY <2>4 DEF moved
  <2>8. /\ docs'[w] = moved
        /\ \A v \in Windows : v # w => docs'[v] = docs[v]
        /\ docs' = [v \in Windows |-> docs'[v]]
    BY <2>7 DEF GotoTypeInv
  <2>9. \A v \in Windows : docs'[v] = Closed \/ docs'[v] \in Documents
    BY <2>6, <2>8 DEF moved, GotoTypeInv, GotoTypeOK
  <2>10. QED
    BY <1>2, <2>8, <2>9 DEF moved, caret
<1>3. QED
  BY <1>1, <1>2

LEMMA GotoBeginType ==
  ASSUME GotoTypeInv, UNCHANGED <<inWindbg, sHwndWindbg>>,
         NEW title \in Titles, NEW line \in Lines, NEW open \in OpenDocs,
         NEW others \in SUBSET {Foreign}, GotoBegin(title, line, others, open)
  PROVE  GotoTypeInv'
<1>1. /\ open = [w \in Windows |-> open[w]]
      /\ \A w \in Windows : open[w] = Closed \/ open[w] \in Documents
      /\ line \in 0 .. MaxLine
  BY SessionAssumption
<1>2. frames' \in {OwnFrames, OwnFrames \cup {Foreign}} /\ OwnFrames' = OwnFrames
  BY DEF GotoBegin, OwnFrames
<1>3. QED
  BY <1>1, <1>2 DEF GotoBegin, GotoTypeInv, GotoTypeOK

LEMMA GotoWalkType ==
  ASSUME GotoTypeInv, GotoWalk, UNCHANGED inWindbg
  PROVE  GotoTypeInv'
<1> USE DEF gotoLocals, gotoArgs
<1>0. OwnFrames' = OwnFrames
  BY DEF OwnFrames
<1>1. CASE FindWindbgWindow
  <2>1. frames \subseteq {Own, Foreign}
    BY DEF GotoTypeInv, GotoTypeOK, OwnFrames
  <2>2. sHwndWindbg' \in {Own, Foreign, NullWnd}
    BY <1>1, <2>1 DEF FindWindbgWindow, GotoTypeInv, GotoTypeOK
  <2>3. QED
    BY <1>0, <1>1, <2>2 DEF FindWindbgWindow, GotoTypeInv, GotoTypeOK
<1>2. CASE FindRicheditWindow
  <2>1. richEditWindow' \in Windows
    BY <1>2 DEF FindRicheditWindow, Found
  <2>2. QED
    BY <1>0, <1>2, <2>1 DEF FindRicheditWindow, GotoTypeInv, GotoTypeOK
<1>3. CASE NoWindbgWindow \/ NoRicheditWindow \/ OutOfBounds \/ NoLineIndex
  BY <1>0, <1>3 DEF NoWindbgWindow, NoRicheditWindow, OutOfBounds, NoLineIndex,
                    Fail, GotoTypeInv, GotoTypeOK
<1>4. CASE GetLineCount
  <2>1. lineNo > 0
    <3>1. lineNo \in Int /\ 1 <= lineNo
      BY <1>4, GotoAssumption
      DEF GetLineCount, InBounds, GotoTypeInv, GotoTypeOK
    <3>2. QED
      BY <3>1
  <2>2. QED
    BY <1>0, <1>4, <2>1 DEF GetLineCount, GotoTypeInv, GotoTypeOK
<1>5. CASE GetLineIndex
  <2>1. /\ gotoPc = "index" /\ gotoPc' = "select"
        /\ charIndex' = LineIndex(richEditWindow, lineNo - 1)
        /\ charIndex' # -1
    BY <1>5 DEF GetLineIndex, IndexAsked
  <2>2. richEditWindow \in Windows /\ lineNo > 0 /\ lineNo \in 0 .. MaxLine
    BY <2>1 DEF GotoTypeInv, GotoTypeOK
  <2>3. lineNo - 1 \in Nat
    BY <2>2, GotoAssumption
  <2>4. charIndex' \in Nat
    BY <2>1, <2>2, <2>3, LineIndexType
  <2>5. QED
    BY <1>0, <1>5, <2>4 DEF GetLineIndex, GotoTypeInv, GotoTypeOK
<1>6. CASE Select
  <2>1. /\ richEditWindow \in Windows /\ charIndex \in Nat
        /\ SetSel(richEditWindow, charIndex)
    BY <1>6 DEF Select, GotoTypeInv, GotoTypeOK
  <2>2. /\ docs' = [v \in Windows |-> docs'[v]]
        /\ \A v \in Windows : docs'[v] = Closed \/ docs'[v] \in Documents
    BY <2>1, SetSelType
  <2>3. QED
    BY <1>0, <1>6, <2>2 DEF Select, GotoTypeInv, GotoTypeOK
<1>7. CASE GotoReturn
  <2>1. path' \in Titles /\ lineNo' \in 0 .. MaxLine
    BY <1>7, GotoAssumption DEF GotoReturn
  <2>2. QED
    BY <1>0, <1>7, <2>1 DEF GotoReturn, GotoTypeInv, GotoTypeOK
<1>8. QED
  BY <1>1, <1>2, <1>3, <1>4, <1>5, <1>6, <1>7 DEF GotoWalk

LEMMA UserActsType ==
  ASSUME GotoTypeInv, UserActs
  PROVE  GotoTypeInv' /\ disturbed'
<1>1. User
  BY DEF UserActs, CloseDocument, ReloadDocument, CloseForeign
<1> USE DEF User, gotoArgs
<1>2. OwnFrames' = OwnFrames /\ disturbed' = TRUE
  BY <1>1 DEF OwnFrames
<1>3. ASSUME NEW w \in Windows, CloseDocument(w)
      PROVE  GotoTypeInv'
  <2>1. docs' = [docs EXCEPT ![w] = Closed]
    BY <1>3 DEF CloseDocument
  <2>2. /\ docs' = [v \in Windows |-> docs'[v]]
        /\ \A v \in Windows : docs'[v] = Closed \/ docs'[v] \in Documents
    BY <2>1 DEF GotoTypeInv, GotoTypeOK
  <2>3. QED
    BY <1>2, <1>3, <2>2 DEF CloseDocument, GotoTypeInv, GotoTypeOK
<1>4. ASSUME NEW w \in Windows, NEW text \in Texts, ReloadDocument(w, text)
      PROVE  GotoTypeInv'
  <2> DEFINE read == [docs[w] EXCEPT !.text = text]
             new == [read EXCEPT !.caret = 0]
  <2>1. docs[w] \in Documents
    BY <1>4 DEF ReloadDocument, IsOpen, GotoTypeInv, GotoTypeOK
  <2>2. read \in Documents
    BY <2>1, DocumentType
  <2> HIDE DEF read
  <2>3. new \in Documents
    BY <2>2, DocumentType
  <2>4. docs' = [docs EXCEPT ![w] = new]
    BY <1>4 DEF ReloadDocument, read, GotoTypeInv
  <2> HIDE DEF new
  <2>5. /\ docs' = [v \in Windows |-> docs'[v]]
        /\ \A v \in Windows : docs'[v] = Closed \/ docs'[v] \in Documents
    BY <2>3, <2>4 DEF GotoTypeInv, GotoTypeOK
  <2>6. QED
    BY <1>2, <1>4, <2>5 DEF ReloadDocument, GotoTypeInv, GotoTypeOK
<1>5. CASE CloseForeign
  BY <1>2, <1>5 DEF CloseForeign, GotoTypeInv, GotoTypeOK
<1>6. QED
  BY <1>2, <1>3, <1>4, <1>5 DEF UserActs

-----------------------------------------------------------------------------

(* WinDbg has a file open once in a frame.                                 *)
OneOpen ==
  \A v, w \in Windows :
    /\ docs[v] # Closed /\ docs[w] # Closed /\ FrameOf[v] = FrameOf[w]
    /\ InLower(docs[v].title) = InLower(docs[w].title)
    => v = w

NoSuchLine ==
  ~ \E w \in Windows :
      /\ FrameOf[w] = Own
      /\ Asked(w)
      /\ lineNo \in 1 .. Len(docs[w].text)

(* With its own frame, and nobody else's hand in it: the document found is *)
(* the one of the path, the line is checked against its text, and the      *)
(* position is that of the line in this text still when it is used.        *)
Undisturbed ==
  /\ OneOpen
  /\ gotoPc \in {"count", "index", "select", "S_OK"} =>
       FrameOf[richEditWindow] = Own /\ Asked(richEditWindow)
  /\ gotoPc \in {"index", "select", "S_OK"} =>
       lineNo \in 1 .. Len(docs[richEditWindow].text)
  /\ gotoPc = "select" =>
       charIndex = LineStart(docs[richEditWindow].text, lineNo - 1)
  /\ gotoPc = "S_OK" =>
       docs[richEditWindow].caret
         = LineStart(docs[richEditWindow].text, lineNo - 1)
  /\ gotoPc = "E_FAIL" => NoSuchLine

CaretIInv ==
  /\ GotoTypeInv
  /\ sHwndWindbg = Own => inWindbg
  /\ ~disturbed => OneOpen
  /\ ~disturbed /\ sHwndWindbg = Own => Undisturbed

LEMMA CaretInitial == SessionInit => CaretIInv
BY GotoTypeInitial, GotoAssumption
DEF SessionInit, GotoInit, GotoLocalsInit, CaretIInv, OneOpen

LEMMA CaretBegin ==
  ASSUME CaretIInv,
         NEW title \in Titles, NEW line \in Lines, NEW open \in OpenDocs,
         NEW others \in SUBSET {Foreign}, GotoBegin(title, line, others, open)
  PROVE  CaretIInv'
<1>1. GotoTypeInv'
  BY GotoBeginType DEF GotoBegin, CaretIInv
<1>2. OneOpen'
  BY SessionAssumption DEF GotoBegin, OneOpen, InLower
<1>3. Undisturbed'
  BY <1>2 DEF GotoBegin, Undisturbed
<1>4. QED
  BY <1>1, <1>2, <1>3 DEF CaretIInv, GotoBegin

(* Steps that look only.                                                   *)
LEMMA SameDocuments ==
  ASSUME UNCHANGED <<docs, path, lineNo>>
  PROVE  /\ OneOpen => OneOpen'
         /\ NoSuchLine => NoSuchLine'
         /\ \A w \in Windows : Asked(w)' = Asked(w)
BY DEF OneOpen, NoSuchLine, Asked, InLower

(* The document found of one's own frame is open.                          *)
LEMMA OwnIsOpen ==
  ASSUME CaretIInv, sHwndWindbg = Own, NEW w \in Windows,
         FrameOf[w] = Own, Asked(w)
  PROVE  IsOpen(w) /\ docs[w] \in Documents
BY DEF CaretIInv, GotoTypeInv, GotoTypeOK, OwnFrames, IsOpen, Asked

LEMMA CaretWalk ==
  ASSUME CaretIInv, GotoWalk
  PROVE  CaretIInv'
<1> USE DEF gotoLocals, gotoArgs
<1>1. UNCHANGED inWindbg
  BY DEF GotoWalk, FindWindbgWindow, NoWindbgWindow, FindRicheditWindow,
         NoRicheditWindow, GetLineCount, OutOfBounds, GetLineIndex,
         NoLineIndex, Select, GotoReturn, Fail
<1>2. GotoTypeInv'
  BY <1>1, GotoWalkType DEF CaretIInv
<1>3. CASE FindWindbgWindow
  <2>1. /\ gotoPc' = "window"
        /\ UNCHANGED <<docs, path, lineNo, frames, disturbed>>
        /\ sHwndWindbg' \in frames \cup {sHwndWindbg}
    BY <1>3 DEF FindWindbgWindow
  <2>2. sHwndWindbg' = Own => inWindbg
    BY <2>1, GotoAssumption DEF CaretIInv, GotoTypeInv, GotoTypeOK, OwnFrames
  <2>3. OneOpen => OneOpen'
    BY <2>1, SameDocuments
  <2>4. OneOpen' => Undisturbed'
    BY <2>1 DEF Undisturbed
  <2>5. QED
    BY <1>1, <1>2, <2>1, <2>2, <2>3, <2>4 DEF CaretIInv
<1>4. CASE NoWindbgWindow
  <2>1. /\ UNCHANGED <<docs, path, lineNo, disturbed, sHwndWindbg>>
        /\ sHwndWindbg # Own
    BY <1>4, GotoAssumption DEF NoWindbgWindow, Fail
  <2>2. OneOpen => OneOpen'
    BY <2>1, SameDocuments
  <2>3. QED
    BY <1>2, <2>1, <2>2 DEF CaretIInv
<1>5. CASE FindRicheditWindow
  <2>1. /\ gotoPc' = "count" /\ richEditWindow' \in Found
        /\ UNCHANGED <<docs, path, lineNo, disturbed, sHwndWindbg>>
    BY <1>5 DEF FindRicheditWindow
  <2>2. richEditWindow' \in Windows /\ FrameOf[richEditWindow'] = sHwndWindbg
        /\ Asked(richEditWindow')
    BY <2>1 DEF Found, IsOpen, IsTitled, Asked
  <2>3. /\ OneOpen => OneOpen'
        /\ Asked(richEditWindow)'
    <3>1. OneOpen => OneOpen'
      BY <2>1, SameDocuments
    <3>2. Asked(richEditWindow)'
      BY <2>1, <2>2 DEF Asked, InLower
    <3>3. QED
      BY <3>1, <3>2
  <2>4. ASSUME sHwndWindbg = Own, OneOpen
        PROVE  Undisturbed'
    BY <2>1, <2>2, <2>3, <2>4 DEF Undisturbed
  <2>5. QED
    BY <1>1, <1>2, <2>1, <2>3, <2>4 DEF CaretIInv
<1>6. CASE NoRicheditWindow
  <2>1. /\ gotoPc' = "E_FAIL" /\ Found = {}
        /\ UNCHANGED <<docs, path, lineNo, disturbed, sHwndWindbg>>
    BY <1>6 DEF NoRicheditWindow, Fail
  <2>2. ASSUME sHwndWindbg = Own
        PROVE  NoSuchLine
    <3>1. SUFFICES ASSUME NEW w \in Windows, FrameOf[w] = Own, Asked(w)
                   PROVE  FALSE
      BY DEF NoSuchLine
    <3>2. IsOpen(w)
      BY <2>2, <3>1, OwnIsOpen
    <3>3. w \in Found
      BY <2>2, <3>1, <3>2 DEF Found, IsTitled, Asked
    <3>4. QED
      BY <2>1, <3>3
  <2>3. (OneOpen => OneOpen') /\ (NoSuchLine => NoSuchLine')
    BY <2>1, SameDocuments
  <2>4. QED
    BY <1>1, <1>2, <2>1, <2>2, <2>3 DEF CaretIInv, Undisturbed
<1>7. CASE GetLineCount \/ OutOfBounds
  <2>1. /\ gotoPc = "count"
        /\ UNCHANGED <<docs, path, lineNo, richEditWindow, disturbed>>
        /\ sHwndWindbg' = sHwndWindbg
    BY <1>7 DEF GetLineCount, OutOfBounds, Fail
  <2>2. (OneOpen => OneOpen') /\ (NoSuchLine => NoSuchLine')
    BY <2>1, SameDocuments
  <2>3. ASSUME ~disturbed, sHwndWindbg = Own
        PROVE  Undisturbed'
    <3>1. /\ OneOpen /\ richEditWindow \in Windows
          /\ FrameOf[richEditWindow] = Own /\ Asked(richEditWindow)
      BY <2>1, <2>3 DEF CaretIInv, Undisturbed, GotoTypeInv
    <3>2. IsOpen(richEditWindow)
      BY <2>3, <3>1, OwnIsOpen
    <3>3. LineCount(richEditWindow) = Len(docs[richEditWindow].text)
      BY <3>2 DEF LineCount
    <3>4. Len(docs[richEditWindow].text) \in Nat /\ lineNo \in Nat
      BY <2>3, <3>1, OwnIsOpen, GotoAssumption
      DEF Documents, CaretIInv, GotoTypeInv, GotoTypeOK
    <3>5. InBounds(lineNo, LineCount(richEditWindow)) <=>
            lineNo \in 1 .. Len(docs[richEditWindow].text)
      BY <3>3, <3>4 DEF InBounds
    <3>6. Asked(richEditWindow)'
      BY <2>1, <3>1 DEF Asked, InLower
    <3>7. CASE GetLineCount
      <4>1. gotoPc' = "index" /\ lineNo \in 1 .. Len(docs[richEditWindow].text)
        BY <3>5, <3>7 DEF GetLineCount
      <4>2. QED
        BY <2>1, <2>2, <3>1, <3>6, <4>1 DEF Undisturbed
    <3>8. CASE OutOfBounds
      <4>1. gotoPc' = "E_FAIL"
            /\ ~ (lineNo \in 1 .. Len(docs[richEditWindow].text))
        BY <3>5, <3>8 DEF OutOfBounds, Fail
      <4>2. NoSuchLine
        BY <3>1, <4>1 DEF NoSuchLine, OneOpen, Asked
      <4>3. QED
        BY <2>2, <3>1, <4>1, <4>2 DEF Undisturbed
    <3>9. QED
      BY <1>7, <3>7, <3>8
  <2>4. QED
    BY <1>1, <1>2, <2>1, <2>2, <2>3 DEF CaretIInv
<1>8. CASE GetLineIndex \/ NoLineIndex
  <2>1. /\ gotoPc = "index"
        /\ UNCHANGED <<docs, path, lineNo, richEditWindow, disturbed>>
        /\ sHwndWindbg' = sHwndWindbg
    BY <1>8 DEF GetLineIndex, NoLineIndex, Fail
  <2>2. OneOpen => OneOpen'
    BY <2>1, SameDocuments
  <2>3. ASSUME ~disturbed, sHwndWindbg = Own
        PROVE  Undisturbed'
    <3> DEFINE text == docs[richEditWindow].text
    <3>1. /\ OneOpen /\ richEditWindow \in Windows
          /\ FrameOf[richEditWindow] = Own /\ Asked(richEditWindow)
          /\ lineNo \in 1 .. Len(text)
      BY <2>1, <2>3 DEF CaretIInv, Undisturbed, GotoTypeInv
    <3>2. IsOpen(richEditWindow) /\ text \in Seq(Nat)
      BY <2>3, <3>1, OwnIsOpen, GotoAssumption DEF Documents
    <3>3. /\ lineNo - 1 \in Nat /\ lineNo - 1 < Len(text)
          /\ lineNo - 1 \in 0 .. Len(text)
      BY <3>1, <3>2
    <3>4. LineIndex(richEditWindow, lineNo - 1) = LineStart(text, lineNo - 1)
      BY <3>1, <3>2, <3>3, LineIndexType DEF CaretIInv
    <3>5. LineStart(text, lineNo - 1) \in Nat
      BY <3>2, <3>3, LineStartStep
    <3>6. GetLineIndex
      BY <1>8, <3>4, <3>5 DEF NoLineIndex, IndexAsked
    <3>7. gotoPc' = "select" /\ charIndex' = LineStart(text, lineNo - 1)
      BY <3>4, <3>6 DEF GetLineIndex, IndexAsked
    <3>8. Asked(richEditWindow)'
      BY <2>1, <3>1 DEF Asked, InLower
    <3>9. QED
      BY <2>1, <2>2, <3>1, <3>7, <3>8 DEF Undisturbed
  <2>4. QED
    BY <1>1, <1>2, <2>1, <2>2, <2>3 DEF CaretIInv
<1>9. CASE Select
  <2>1. /\ gotoPc = "select" /\ gotoPc' = "S_OK"
        /\ SetSel(richEditWindow, charIndex)
        /\ UNCHANGED <<path, lineNo, richEditWindow, disturbed, sHwndWindbg>>
        /\ richEditWindow \in Windows /\ charIndex \in Nat
    BY <1>9 DEF Select, CaretIInv, GotoTypeInv, GotoTypeOK
  <2> DEFINE text == docs[richEditWindow].text
             end == LineStart(text, Len(text))
             caret == IF charIndex < end THEN charIndex ELSE end
  <2>2. /\ \A v \in Windows : v # richEditWindow \/ ~IsOpen(richEditWindow) =>
             docs'[v] = docs[v]
        /\ IsOpen(richEditWindow) =>
             docs'[richEditWindow] = [docs[richEditWindow] EXCEPT !.caret = caret]
    BY <2>1, SetSelType DEF CaretIInv
  <2>3. IsOpen(richEditWindow) =>
          /\ docs[richEditWindow] \in Documents
          /\ text \in Seq(Nat) /\ Len(text) \in Nat /\ end \in Nat
          /\ caret \in Nat
    <3>1. IsOpen(richEditWindow) => docs[richEditWindow] \in Documents
      BY <2>1 DEF IsOpen, CaretIInv, GotoTypeInv, GotoTypeOK
    <3>2. docs[richEditWindow] \in Documents => text \in Seq(Nat)
      BY GotoAssumption DEF Documents
    <3>3. text \in Seq(Nat) => Len(text) \in Nat /\ end \in Nat
      BY LineStartStep
    <3>4. QED
      BY <2>1, <3>1, <3>2, <3>3
  <2>4. IsOpen(richEditWindow) =>
          docs'[richEditWindow] = [title |-> docs[richEditWindow].title,
                                   text |-> text, caret |-> caret]
    BY <2>2, <2>3, DocumentType, GotoAssumption DEF Documents
  <2> HIDE DEF caret, text
  <2>5. IsOpen(richEditWindow) =>
          /\ docs'[richEditWindow] # Closed
          /\ docs'[richEditWindow].title = docs[richEditWindow].title
          /\ docs'[richEditWindow].text = text
          /\ docs'[richEditWindow].caret = caret
    <3>1. SUFFICES ASSUME IsOpen(richEditWindow)
                   PROVE  docs'[richEditWindow] # Closed
      BY <2>4
    <3>2. docs'[richEditWindow] \in Documents
      BY <2>2, <2>3, <3>1, DocumentType, GotoAssumption DEF Documents, text
    <3>3. QED
      BY <3>2 DEF Documents, Closed
  <2>6. ASSUME NEW v \in Windows
        PROVE  /\ docs[v] = Closed <=> docs'[v] = Closed
               /\ docs[v] # Closed => docs'[v].title = docs[v].title
    BY <2>2, <2>5 DEF IsOpen
  <2>7. OneOpen => OneOpen'
    BY <2>6 DEF OneOpen, InLower
  <2>8. ASSUME ~disturbed, sHwndWindbg = Own
        PROVE  Undisturbed'
    <3>1. /\ OneOpen
          /\ FrameOf[richEditWindow] = Own /\ Asked(richEditWindow)
          /\ lineNo \in 1 .. Len(text)
          /\ charIndex = LineStart(text, lineNo - 1)
      BY <2>1, <2>8 DEF CaretIInv, Undisturbed, text
    <3>2. IsOpen(richEditWindow)
      BY <2>1, <2>8, <3>1, OwnIsOpen
    <3>3. LineStart(text, lineNo - 1) <= end
      <4>1. /\ lineNo - 1 \in 0 .. Len(text) /\ Len(text) \in 0 .. Len(text)
            /\ lineNo - 1 <= Len(text) /\ text \in Seq(Nat)
        BY <2>3, <3>1, <3>2
      <4>2. QED
        BY <4>1, LinesInOrder
    <3>4. caret = charIndex
      BY <2>1, <2>3, <3>1, <3>2, <3>3 DEF caret
    <3>5. Asked(richEditWindow)'
      BY <2>1, <2>5, <3>1, <3>2 DEF Asked, InLower
    <3>6. QED
      BY <2>1, <2>5, <2>7, <3>1, <3>2, <3>4, <3>5 DEF Undisturbed
  <2>9. QED
    BY <1>1, <1>2, <2>1, <2>7, <2>8 DEF CaretIInv
<1>10. CASE GotoReturn
  <2>1. OneOpen'
    BY <1>10 DEF GotoReturn, OneOpen
  <2>2. QED
    BY <1>1, <1>2, <1>10, <2>1 DEF GotoReturn, CaretIInv, Undisturbed
<1>11. QED
  BY <1>3, <1>4, <1>5, <1>6, <1>7, <1>8, <1>9, <1>10 DEF GotoWalk

LEMMA CaretInductive == CaretIInv /\ [SessionNext]_sessionVars => CaretIInv'
<1> SUFFICES ASSUME CaretIInv, [SessionNext]_sessionVars
             PROVE  CaretIInv'
  OBVIOUS
<1>1. CASE /\ UNCHANGED <<inWindbg, gotoPc, gotoLocals>>
           /\ sHwndWindbg' \in {sHwndWindbg, NullWnd}
  <2>1. GotoTypeInv'
    BY <1>1 DEF gotoLocals, CaretIInv, GotoTypeInv, GotoTypeOK, OwnFrames
  <2>2. sHwndWindbg' = Own => sHwndWindbg = Own
    BY <1>1, GotoAssumption
  <2>3. OneOpen' = OneOpen
    BY <1>1 DEF gotoLocals, OneOpen, InLower
  <2>4. Undisturbed => Undisturbed'
    BY <1>1, <2>3, SameDocuments DEF gotoLocals, Undisturbed, Asked, InLower
  <2>5. QED
    BY <1>1, <2>1, <2>2, <2>3, <2>4 DEF gotoLocals, CaretIInv
<1>2. CASE UserActs
  <2>1. GotoTypeInv' /\ disturbed'
    BY <1>2, UserActsType DEF CaretIInv
  <2>2. UNCHANGED <<inWindbg, sHwndWindbg>>
    <3>1. User
      BY <1>2 DEF UserActs, CloseDocument, ReloadDocument, CloseForeign
    <3>2. QED
      BY <3>1 DEF User, gotoArgs
  <2>3. QED
    BY <2>1, <2>2 DEF CaretIInv
<1>3. QED
  BY <1>1, <1>2, CaretBegin, CaretWalk, StepIsOfCommand

LEMMA CaretAlways == SessionSpec => []CaretIInv
BY CaretInitial, CaretInductive, PTL DEF SessionSpec

(* Left alone in its own WinDbg, gotoline puts the caret on the line asked *)
(* for, of a document of the path, and fails only if none has that line:   *)
(* for all titles, texts, windows and lines.                               *)
THEOREM CaretAlwaysOnLine == SessionSpec => []CaretOnLine
<1>1. CaretIInv => CaretOnLine
  <2> SUFFICES ASSUME CaretIInv, ~disturbed, sHwndWindbg = Own
               PROVE  /\ gotoPc = "S_OK" =>
                           /\ Asked(richEditWindow)
                           /\ LineAt(docs[richEditWindow].text,
                                     docs[richEditWindow].caret) + 1 = lineNo
                      /\ gotoPc = "E_FAIL" => NoSuchLine
    BY DEF CaretOnLine, NoSuchLine
  <2>1. Undisturbed
    BY DEF CaretIInv
  <2>2. ASSUME gotoPc = "S_OK"
        PROVE  LineAt(docs[richEditWindow].text,
                      docs[richEditWindow].caret) + 1 = lineNo
    <3> DEFINE text == docs[richEditWindow].text
    <3>1. /\ richEditWindow \in Windows
          /\ FrameOf[richEditWindow] = Own /\ Asked(richEditWindow)
          /\ lineNo \in 1 .. Len(text)
          /\ docs[richEditWindow].caret = LineStart(text, lineNo - 1)
      BY <2>1, <2>2 DEF Undisturbed, CaretIInv, GotoTypeInv
    <3>2. text \in Texts /\ Len(text) \in Nat
      BY <3>1, OwnIsOpen, GotoAssumption DEF Documents
    <3> HIDE DEF text
    <3>3. lineNo - 1 \in 0 .. Len(text) - 1 /\ (lineNo - 1) + 1 = lineNo
      BY <3>1, <3>2
    <3>4. LineAt(text, LineStart(text, lineNo - 1)) = lineNo - 1
      BY <3>2, <3>3, LineAtStart
    <3>5. QED
      BY <3>1, <3>3, <3>4 DEF text
  <2>3. QED
    BY <2>1, <2>2 DEF Undisturbed
<1>2. QED
  BY <1>1, CaretAlways, PTL

-----------------------------------------------------------------------------
(* bpx.  A pattern fits a name if the name can be cut so that each piece   *)
(* is one its character of the pattern takes.                              *)

Cuts(glob, name) == [1 .. Len(glob) + 1 -> 1 .. Len(name) + 1]

(* The table of std::regex_match, from the end of the pattern back.        *)
Matches(glob, name, from) ==
  from = [g \in 1 .. Len(glob) + 1 |->
            IF g > Len(glob) THEN {Len(name) + 1}
            ELSE {n \in 1 .. Len(name) + 1 :
                    \E m \in from[g + 1] : Takes(glob[g], name, n, m)}]

Rows(glob, name, from) ==
  /\ from[Len(glob) + 1] = {Len(name) + 1}
  /\ \A g \in 1 .. Len(glob) + 1 : from[g] \subseteq 1 .. Len(name) + 1
  /\ \A g \in 1 .. Len(glob) : \A n \in 1 .. Len(name) + 1 :
       n \in from[g] <=> \E m \in from[g + 1] : Takes(glob[g], name, n, m)

LEMMA MatchRows ==
  ASSUME NEW glob, Len(glob) \in Nat, NEW name, Len(name) \in Nat,
         NEW from, Matches(glob, name, from)
  PROVE  Rows(glob, name, from)
<1>1. ASSUME NEW g \in 1 .. Len(glob) + 1
      PROVE  from[g] = IF g > Len(glob) THEN {Len(name) + 1}
                       ELSE {n \in 1 .. Len(name) + 1 :
                               \E m \in from[g + 1] :
                                 Takes(glob[g], name, n, m)}
  BY Zenon DEF Matches
<1>2. from[Len(glob) + 1] = {Len(name) + 1}
  <2>1. Len(glob) + 1 \in 1 .. Len(glob) + 1 /\ Len(glob) + 1 > Len(glob)
    OBVIOUS
  <2>2. QED
    BY <1>1, <2>1, Zenon
<1>3. ASSUME NEW g \in 1 .. Len(glob)
      PROVE  from[g] = {n \in 1 .. Len(name) + 1 :
                          \E m \in from[g + 1] : Takes(glob[g], name, n, m)}
  <2>1. g \in 1 .. Len(glob) + 1 /\ ~ (g > Len(glob))
    OBVIOUS
  <2>2. QED
    BY <1>1, <2>1, Zenon
<1>4. ASSUME NEW g \in 1 .. Len(glob) + 1
      PROVE  from[g] \subseteq 1 .. Len(name) + 1
  <2>1. CASE g = Len(glob) + 1
    BY <1>2, <2>1
  <2>2. CASE g # Len(glob) + 1
    BY <1>3, <2>2
  <2>3. QED
    BY <2>1, <2>2
<1>5. QED
  BY <1>2, <1>3, <1>4, Zenon DEF Rows

LEMMA MatchTable ==
  ASSUME NEW glob, Len(glob) \in Nat, NEW name, Len(name) \in Nat
  PROVE  \E from : /\ Rows(glob, name, from)
                   /\ RegexMatch(glob, name) <=> 1 \in from[1]
<1> DEFINE L == Len(glob)
           E == Len(name) + 1
           T == SUBSET (1 .. E)
           step == [p \in Nat \X T |->
                      {n \in 1 .. E :
                         \E m \in p[2] : Takes(glob[L - p[1]], name, n, m)}]
<1>1. {E} \in T /\ step \in [Nat \X T -> T]
  OBVIOUS
<1>2. \A k \in Nat, S \in T : \A g : L - k = g =>
        step[<<k, S>>] = {n \in 1 .. E :
                            \E m \in S : Takes(glob[g], name, n, m)}
  OBVIOUS
<1> HIDE DEF step
<1>3. PICK f \in [Nat -> T] : Recursive(f, {E}, step)
  BY <1>1, RecursionOverNat
<1> DEFINE from == [g \in 1 .. L + 1 |-> f[L + 1 - g]]
<1>4. ASSUME NEW g \in 1 .. L + 1
      PROVE  from[g] = IF g > L THEN {E}
                       ELSE {n \in 1 .. E :
                               \E m \in from[g + 1] : Takes(glob[g], name, n, m)}
  <2>1. CASE g > L
    <3>1. L + 1 - g = 0
      BY <2>1
    <3>2. QED
      BY <1>3, <2>1, <3>1 DEF Recursive
  <2>2. CASE g <= L
    <3>1. /\ L - g \in Nat /\ (L - g) + 1 = L + 1 - g
          /\ g + 1 \in 1 .. L + 1 /\ L + 1 - (g + 1) = L - g
          /\ L - (L - g) = g
      BY <2>2
    <3>2. f[(L - g) + 1] = step[<<L - g, f[L - g]>>] /\ f[L - g] \in T
      BY <1>3, <3>1 DEF Recursive
    <3>3. from[g] = f[(L - g) + 1] /\ from[g + 1] = f[L - g]
      BY <3>1
    <3>4. step[<<L - g, f[L - g]>>]
            = {n \in 1 .. E :
                 \E m \in f[L - g] : Takes(glob[g], name, n, m)}
      BY <1>2, <3>1, <3>2
    <3> HIDE DEF from
    <3>5. from[g] = {n \in 1 .. E :
                       \E m \in from[g + 1] : Takes(glob[g], name, n, m)}
      BY <3>2, <3>3, <3>4, Zenon
    <3>6. ~ (g > L)
      BY <2>2
    <3>7. QED
      BY <3>5, <3>6, Zenon
  <2>3. QED
    BY <2>1, <2>2
<1>5. Matches(glob, name, from)
  <2>1. from = [g \in 1 .. L + 1 |-> from[g]]
    OBVIOUS
  <2> HIDE DEF from
  <2>2. QED
    BY <1>4, <2>1 DEF Matches
<1> HIDE DEF from
<1>6. \E g : Matches(glob, name, g)
  BY <1>5
<1>7. Matches(glob, name, CHOOSE g : Matches(glob, name, g))
  BY <1>6
<1>8. RegexMatch(glob, name)
        <=> 1 \in (CHOOSE g : Matches(glob, name, g))[1]
  BY DEF RegexMatch, Matches
<1>9. QED
  BY <1>7, <1>8, MatchRows

(* A way through the table from its first row to its last is a cut.        *)
LEMMA CutIsMatch ==
  ASSUME NEW glob, Len(glob) \in Nat, NEW name, Len(name) \in Nat,
         NEW cut \in Cuts(glob, name),
         cut[1] = 1, cut[Len(glob) + 1] = Len(name) + 1,
         \A g \in 1 .. Len(glob) : Takes(glob[g], name, cut[g], cut[g + 1])
  PROVE  RegexMatch(glob, name)
<1> DEFINE L == Len(glob)
           E == Len(name) + 1
<1>1. PICK from : /\ Rows(glob, name, from)
                  /\ RegexMatch(glob, name) <=> 1 \in from[1]
  BY MatchTable
<1>2. from[L + 1] = {E}
  BY <1>1 DEF Rows
<1>3. \A g \in 1 .. L : \A n \in 1 .. E :
        n \in from[g] <=> \E m \in from[g + 1] : Takes(glob[g], name, n, m)
  BY <1>1 DEF Rows
<1> DEFINE S == {k \in Nat : k <= L => cut[L + 1 - k] \in from[L + 1 - k]}
<1>4. 0 \in S
  BY <1>2
<1>5. ASSUME NEW k \in Nat, k \in S
      PROVE  k + 1 \in S
  <2>1. SUFFICES ASSUME k + 1 <= L
                 PROVE  cut[L + 1 - (k + 1)] \in from[L + 1 - (k + 1)]
    OBVIOUS
  <2>2. PICK g \in 1 .. L : g = L - k
    <3>1. L - k \in 1 .. L
      BY <2>1
    <3>2. QED
      BY <3>1
  <2>3. g + 1 = L + 1 - k /\ g = L + 1 - (k + 1) /\ g \in 1 .. L + 1
    BY <2>2
  <2>4. cut[g + 1] \in from[g + 1]
    BY <1>5, <2>1, <2>3
  <2>5. cut[g] \in 1 .. E
    BY <2>3 DEF Cuts
  <2>6. cut[g] \in from[g]
    BY <1>3, <2>4, <2>5
  <2>7. QED
    BY <2>3, <2>6
<1> HIDE DEF S
<1>6. \A k \in Nat : k \in S
  BY <1>4, <1>5, InductionOverNat
<1>7. cut[L + 1 - L] \in from[L + 1 - L]
  BY <1>6 DEF S
<1>8. QED
  BY <1>1, <1>7

LEMMA MatchIsCut ==
  ASSUME NEW glob, Len(glob) \in Nat, NEW name, Len(name) \in Nat,
         RegexMatch(glob, name)
  PROVE  \E cut \in Cuts(glob, name) :
           /\ cut[1] = 1 /\ cut[Len(glob) + 1] = Len(name) + 1
           /\ \A g \in 1 .. Len(glob) :
                Takes(glob[g], name, cut[g], cut[g + 1])
<1> DEFINE L == Len(glob)
           E == Len(name) + 1
           T == 1 .. E
<1>1. PICK from : Rows(glob, name, from) /\ 1 \in from[1]
  BY MatchTable
<1>2. from[L + 1] = {E} /\ \A g \in 1 .. L + 1 : from[g] \subseteq T
  BY <1>1 DEF Rows
<1>3. \A g \in 1 .. L : \A n \in from[g] :
        \E m \in from[g + 1] : Takes(glob[g], name, n, m)
  <2>1. \A g \in 1 .. L : g \in 1 .. L + 1
    OBVIOUS
  <2>2. QED
    BY <1>1, <1>2, <2>1 DEF Rows
<1> DEFINE Next1(g, n) ==
             IF g \in 1 .. L /\ n \in from[g]
             THEN CHOOSE m \in from[g + 1] : Takes(glob[g], name, n, m)
             ELSE 1
           step == [p \in Nat \X T |-> Next1(p[1] + 1, p[2])]
<1>4. \A g \in Nat, n \in T : Next1(g, n) \in T
  BY <1>2, <1>3
<1>5. \A g \in 1 .. L : \A n \in from[g] :
        Next1(g, n) \in from[g + 1] /\ Takes(glob[g], name, n, Next1(g, n))
  BY <1>3
<1> HIDE DEF Next1
<1>6. 1 \in T /\ step \in [Nat \X T -> T]
  <2>1. \A p \in Nat \X T : p[1] + 1 \in Nat /\ p[2] \in T
    OBVIOUS
  <2>2. \A p \in Nat \X T : Next1(p[1] + 1, p[2]) \in T
    BY <1>4, <2>1, Zenon
  <2>3. 1 \in T
    OBVIOUS
  <2> HIDE DEF T
  <2>4. QED
    BY <2>2, <2>3
<1>7. \A k \in Nat, n \in T : step[<<k, n>>] = Next1(k + 1, n)
  OBVIOUS
<1> HIDE DEF step
<1>8. PICK f \in [Nat -> T] : Recursive(f, 1, step)
  BY <1>6, RecursionOverNat
<1>9. f[0] = 1 /\ \A k \in Nat : f[k + 1] = Next1(k + 1, f[k])
  BY <1>7, <1>8 DEF Recursive
<1> DEFINE S == {k \in Nat : k <= L => f[k] \in from[k + 1]}
<1>10. 0 \in S
  <2>1. f[0] \in from[0 + 1]
    BY <1>1, <1>9
  <2>2. QED
    BY <2>1, Zenon
<1>11. ASSUME NEW k \in Nat, k \in S
       PROVE  k + 1 \in S
  <2>1. SUFFICES ASSUME k + 1 <= L
                 PROVE  f[k + 1] \in from[(k + 1) + 1]
    OBVIOUS
  <2>2. k + 1 \in 1 .. L /\ f[k] \in from[k + 1]
    BY <1>11, <2>1
  <2>3. QED
    BY <1>5, <1>9, <2>2
<1> HIDE DEF S
<1>12. \A k \in Nat : k \in S
  BY <1>10, <1>11, InductionOverNat
<1>13. \A k \in Nat : k <= L => f[k] \in from[k + 1]
  BY <1>12 DEF S
<1> DEFINE cut == [g \in 1 .. L + 1 |-> f[g - 1]]
<1>14. cut \in Cuts(glob, name)
  <2>1. \A g \in 1 .. L + 1 : g - 1 \in Nat
    OBVIOUS
  <2>2. QED
    BY <1>8, <2>1 DEF Cuts
<1>15. cut[1] = 1
  BY <1>9
<1>16. cut[L + 1] = E
  <2>1. cut[L + 1] = f[L]
    OBVIOUS
  <2>2. QED
    BY <1>2, <1>13, <2>1, L \in Nat, L <= L
<1>17. ASSUME NEW g \in 1 .. L
       PROVE  Takes(glob[g], name, cut[g], cut[g + 1])
  <2>1. PICK k \in Nat : g = k + 1 /\ k <= L
    <3>1. g - 1 \in Nat /\ g = (g - 1) + 1 /\ g - 1 <= L
      OBVIOUS
    <3>2. QED
      BY <3>1
  <2>2. cut[g] = f[k] /\ cut[g + 1] = f[k + 1]
    BY <2>1
  <2>3. f[k] \in from[g] /\ f[k + 1] = Next1(g, f[k])
    BY <1>9, <1>13, <2>1
  <2>4. QED
    BY <1>5, <2>2, <2>3
<1> HIDE DEF cut
<1>18. QED
  BY <1>14, <1>15, <1>16, <1>17

(* A name that fits letter by letter matches.                              *)
LEMMA FitsMatches ==
  ASSUME NEW glob \in Seq(DOMAIN Code), NEW name \in Seq(DOMAIN Code),
         Fits(glob, name)
  PROVE  RegexMatch(glob, name)
<1>1. PICK cut \in Cuts(glob, name) :
        /\ cut[1] = 1 /\ cut[Len(glob) + 1] = Len(name) + 1
        /\ \A g \in 1 .. Len(glob) :
             StandsFor(glob[g], name, cut[g], cut[g + 1])
  BY DEF Fits, Cuts
<1>2. ASSUME NEW g \in 1 .. Len(glob)
      PROVE  Takes(glob[g], name, cut[g], cut[g + 1])
  <2>1. /\ g \in 1 .. Len(glob) + 1 /\ g + 1 \in 1 .. Len(glob) + 1
        /\ Len(name) + 1 \in Int
    OBVIOUS
  <2>2. cut[g] \in Int /\ cut[g + 1] \in Int
    BY <2>1 DEF Cuts
  <2>3. StandsFor(glob[g], name, cut[g], cut[g + 1])
    BY <1>1
  <2>4. QED
    BY <2>2, <2>3 DEF Takes, StandsFor
<1>3. QED
  BY <1>1, <1>2, CutIsMatch

(* A name that matches fits in one case.                                   *)
LEMMA MatchesFit ==
  ASSUME NEW glob \in Seq(DOMAIN Code), NEW name \in Seq(DOMAIN Code),
         RegexMatch(glob, name)
  PROVE  Fits(InOneCase(glob), InOneCase(name))
<1>1. PICK cut \in Cuts(glob, name) :
        /\ cut[1] = 1 /\ cut[Len(glob) + 1] = Len(name) + 1
        /\ \A g \in 1 .. Len(glob) :
             Takes(glob[g], name, cut[g], cut[g + 1])
  BY MatchIsCut
<1>2. /\ Len(InOneCase(glob)) = Len(glob)
      /\ Len(InOneCase(name)) = Len(name)
      /\ \A g \in 1 .. Len(glob) : InOneCase(glob)[g] = LowerCase[glob[g]]
      /\ \A n \in 1 .. Len(name) : InOneCase(name)[n] = LowerCase[name[n]]
  BY DEF InOneCase
<1>3. ASSUME NEW g \in 1 .. Len(glob)
      PROVE  StandsFor(LowerCase[glob[g]], InOneCase(name),
                       cut[g], cut[g + 1])
  <2>1. cut[g] \in 1 .. Len(name) + 1 /\ cut[g + 1] \in 1 .. Len(name) + 1
    BY DEF Cuts
  <2>2. glob[g] \in DOMAIN Code
    OBVIOUS
  <2>3. \A c \in Wildcards : glob[g] = c <=> LowerCase[glob[g]] = c
    BY <2>2, SearchAssumption
  <2>4. Takes(glob[g], name, cut[g], cut[g + 1])
    BY <1>1
  <2>5. CASE glob[g] \in Wildcards
    BY <2>1, <2>3, <2>4, <2>5 DEF Takes, StandsFor, Wildcards
  <2>6. CASE glob[g] \notin Wildcards
    <3>1. /\ cut[g + 1] = cut[g] + 1
          /\ LowerCase[glob[g]] = LowerCase[name[cut[g]]]
      BY <2>4, <2>6 DEF Takes, Wildcards
    <3>2. cut[g] \in 1 .. Len(name) /\ cut[g + 1] - cut[g] = 1
      BY <2>1, <3>1
    <3>3. InOneCase(name)[cut[g]] = LowerCase[glob[g]]
      BY <1>2, <3>1, <3>2
    <3>4. LowerCase[glob[g]] \notin Wildcards
      BY <2>3, <2>6
    <3>5. QED
      BY <3>2, <3>3, <3>4 DEF StandsFor, Wildcards
  <2>7. QED
    BY <2>5, <2>6
<1>4. QED
  BY <1>1, <1>2, <1>3 DEF Fits, Cuts

(* The part of the pattern before its first wildcard.                      *)
LEMMA PrefixOfGlob ==
  ASSUME NEW glob \in Seq(DOMAIN Code)
  PROVE  \E p \in 0 .. Len(glob) :
           /\ InitialNonGlobChars(glob) = SubSeq(glob, 1, p)
           /\ \A k \in 1 .. p : glob[k] \notin Wildcards
<1> DEFINE stops == {k \in 1 .. Len(glob) :
                       glob[k] \in Wildcards \cup {"#", "["}}
           wild == IF stops # {} THEN Min(stops) ELSE 0
<1>1. InitialNonGlobChars(glob)
        = IF wild = 0 THEN glob ELSE SubSeq(glob, 1, wild - 1)
  BY DEF InitialNonGlobChars, SelectInSeq
<1>2. CASE stops = {}
  <2>1. InitialNonGlobChars(glob) = SubSeq(glob, 1, Len(glob))
    BY <1>1, <1>2
  <2>2. \A k \in 1 .. Len(glob) : glob[k] \notin Wildcards
    BY <1>2
  <2>3. Len(glob) \in 0 .. Len(glob)
    OBVIOUS
  <2>4. QED
    BY <2>1, <2>2, <2>3
<1>3. CASE stops # {}
  <2>1. PICK least \in stops : \A k \in stops : least <= k
    BY <1>3, HasLeast, stops \in SUBSET Nat
  <2>2. wild \in stops /\ \A k \in stops : wild <= k
    BY <1>3, <2>1 DEF Min
  <2>3. /\ wild - 1 \in 0 .. Len(glob)
        /\ InitialNonGlobChars(glob) = SubSeq(glob, 1, wild - 1)
    <3>1. wild \in 1 .. Len(glob)
      BY <2>2
    <3> HIDE DEF wild
    <3>2. QED
      BY <1>1, <3>1
  <2>4. \A k \in 1 .. wild - 1 : glob[k] \notin Wildcards
    <3>1. SUFFICES ASSUME NEW k \in 1 .. wild - 1, glob[k] \in Wildcards
                   PROVE  FALSE
      OBVIOUS
    <3>2. wild \in 1 .. Len(glob)
      BY <2>2
    <3> HIDE DEF wild
    <3>3. k \in 1 .. Len(glob) /\ k < wild
      BY <3>2
    <3>4. k \in stops
      BY <3>1, <3>3
    <3>5. QED
      BY <2>2, <3>2, <3>3, <3>4
  <2> HIDE DEF wild
  <2>5. QED
    BY <2>3, <2>4
<1>4. QED
  BY <1>2, <1>3

(* A name that fits letter by letter does not sort before this part.       *)
LEMMA FitsNotBefore ==
  ASSUME NEW glob \in Seq(DOMAIN Code), NEW name \in Seq(DOMAIN Code),
         Fits(glob, name)
  PROVE  ~Before(name, InitialNonGlobChars(glob))
<1>1. PICK p \in 0 .. Len(glob) :
        /\ InitialNonGlobChars(glob) = SubSeq(glob, 1, p)
        /\ \A k \in 1 .. p : glob[k] \notin Wildcards
  BY PrefixOfGlob
<1> DEFINE prefix == SubSeq(glob, 1, p)
<1>2. /\ prefix \in Seq(DOMAIN Code) /\ Len(prefix) = p
      /\ \A k \in 1 .. p : prefix[k] = glob[k]
  OBVIOUS
<1>3. PICK cut \in Cuts(glob, name) :
        /\ cut[1] = 1
        /\ \A g \in 1 .. Len(glob) :
             StandsFor(glob[g], name, cut[g], cut[g + 1])
  BY DEF Fits, Cuts
<1>4. ASSUME NEW g \in 1 .. p, cut[g] = g
      PROVE  cut[g + 1] = g + 1 /\ name[g] = glob[g]
  <2>1. /\ g \in 1 .. Len(glob) /\ g + 1 \in 1 .. Len(glob) + 1
        /\ Len(name) + 1 \in Int
    OBVIOUS
  <2>2. cut[g + 1] \in Int
    BY <2>1 DEF Cuts
  <2>3. StandsFor(glob[g], name, g, cut[g + 1]) /\ glob[g] \notin Wildcards
    BY <1>1, <1>3, <1>4, <2>1
  <2>4. QED
    BY <2>2, <2>3 DEF StandsFor, Wildcards
<1> DEFINE S == {k \in Nat : k <= p => cut[k + 1] = k + 1}
<1>5. 0 \in S
  <2>1. cut[0 + 1] = 0 + 1
    BY <1>3
  <2>2. QED
    BY <2>1, Zenon
<1>6. ASSUME NEW k \in Nat, k \in S
      PROVE  k + 1 \in S
  <2>1. SUFFICES ASSUME k + 1 <= p
                 PROVE  cut[(k + 1) + 1] = (k + 1) + 1
    OBVIOUS
  <2>2. k + 1 \in 1 .. p /\ cut[k + 1] = k + 1
    BY <1>6, <2>1
  <2>3. QED
    BY <1>4, <2>2
<1> HIDE DEF S
<1>7. \A k \in Nat : k \in S
  BY <1>5, <1>6, InductionOverNat
<1>8. \A k \in Nat : k <= p => cut[k + 1] = k + 1
  BY <1>7 DEF S
<1>9. \A g \in 1 .. p : name[g] = prefix[g]
  <2>1. TAKE g \in 1 .. p
  <2>2. g - 1 \in Nat /\ g - 1 <= p /\ (g - 1) + 1 = g
    OBVIOUS
  <2>3. cut[g] = g
    BY <1>8, <2>2
  <2>4. QED
    BY <1>2, <1>4, <2>3
<1>10. p <= Len(name)
  <2>1. cut[p + 1] = p + 1 /\ p + 1 \in 1 .. Len(glob) + 1
    BY <1>8
  <2>2. cut[p + 1] \in 1 .. Len(name) + 1
    BY <2>1 DEF Cuts
  <2>3. QED
    BY <2>1, <2>2
<1> HIDE DEF prefix
<1>11. ~IsStrictPrefix(name, prefix)
  <2>1. SUFFICES ASSUME Len(name) <= Len(prefix), name # prefix
                 PROVE  FALSE
    BY DEF IsStrictPrefix, IsPrefix
  <2>2. Len(name) = Len(prefix)
    BY <1>2, <1>10, <2>1
  <2>3. QED
    BY <1>2, <1>9, <2>1, <2>2
<1>12. ASSUME NEW k \in DOMAIN name \cap DOMAIN prefix
       PROVE  ~ (Code[name[k]] < Code[prefix[k]])
  <2>1. k \in 1 .. p /\ name[k] \in DOMAIN Code
    BY <1>2, <1>12
  <2>2. name[k] = prefix[k] /\ Code[name[k]] \in Int
    BY <1>9, <2>1, SearchAssumption
  <2>3. QED
    BY <2>2
<1>13. QED
  BY <1>1, <1>11, <1>12 DEF Before, prefix

-----------------------------------------------------------------------------

(* What the search has passed and fits is printed, what is printed         *)
(* matches, and in the end everything has been passed.                     *)
SearchIInv ==
  /\ SearchTypeOK
  /\ \A name \in itr : Fits(symGlob, name) => name \in matched
  /\ \A name \in matched : RegexMatch(symGlob, name)
  /\ searchPc = "S_OK" => itr = symsByName

(* The initial values, and those a command leaves behind.                  *)
LEMMA NothingFound ==
  ASSUME symsByName' = CHOOSE names \in Names : TRUE,
         symGlob' = CHOOSE glob \in Globs : TRUE,
         itr' = {}, matched' = {}, searchPc' = "idle"
  PROVE  SearchIInv'
<1>1. symsByName' \in Names /\ symGlob' \in Globs
  BY SearchAssumption
<1>2. QED
  BY <1>1 DEF SearchIInv, SearchTypeOK

LEMMA SearchTypes ==
  ASSUME NEW names \in Names, NEW glob \in Globs
  PROVE  /\ \A name \in names : name \in Seq(DOMAIN Code)
         /\ glob \in Seq(DOMAIN Code)
<1>1. glob \in Seq(DOMAIN Code \ Metacharacters)
  BY SearchAssumption
<1>2. glob \in Seq(DOMAIN Code)
  BY <1>1
<1>3. QED
  BY <1>2, SearchAssumption

LEMMA SearchBegins ==
  ASSUME NEW names \in Names, NEW glob \in Globs, SearchBegin(names, glob)
  PROVE  SearchIInv'
<1>1. ASSUME NEW name \in BeforeFirst(names, glob)
      PROVE  name \in names /\ ~Fits(glob, name)
  BY SearchTypes, FitsNotBefore DEF BeforeFirst
<1>2. QED
  BY <1>1 DEF SearchBegin, SearchIInv, SearchTypeOK

LEMMA SearchInductive == SearchIInv /\ [SessionNext]_sessionVars => SearchIInv'
<1> SUFFICES ASSUME SearchIInv, [SessionNext]_sessionVars
             PROVE  SearchIInv'
  OBVIOUS
<1>1. CASE UNCHANGED searchVars
  BY <1>1 DEF searchVars, SearchIInv, SearchTypeOK
<1>2. CASE NextName
  <2>1. PICK name \in symsByName \ itr :
          /\ itr' = itr \cup {name}
          /\ matched' = IF RegexMatch(symGlob, name) THEN matched \cup {name}
                                                     ELSE matched
    BY <1>2 DEF NextName
  <2>2. UNCHANGED <<symsByName, symGlob, searchPc>> /\ searchPc = "search"
    BY <1>2 DEF NextName
  <2>3. Fits(symGlob, name) => RegexMatch(symGlob, name)
    BY SearchTypes, FitsMatches DEF SearchIInv, SearchTypeOK
  <2>4. QED
    BY <2>1, <2>2, <2>3 DEF SearchIInv, SearchTypeOK
<1>3. CASE LastName
  BY <1>3 DEF LastName, SearchIInv, SearchTypeOK
<1>4. CASE SearchReturn
  BY <1>4, NothingFound DEF SearchReturn
<1>5. QED
  BY <1>1, <1>2, <1>3, <1>4, SearchBegins, StepIsOfCommand DEF SearchWalk

LEMMA SearchInitial == SessionInit => SearchIInv
<1>1. SearchInit => SearchIInv
  <2>1. (CHOOSE names \in Names : TRUE) \in Names
        /\ (CHOOSE glob \in Globs : TRUE) \in Globs
    BY SearchAssumption
  <2>2. QED
    BY <2>1 DEF SearchInit, SearchIInv, SearchTypeOK
<1>2. QED
  BY <1>1 DEF SessionInit

LEMMA SearchAlways == SessionSpec => []SearchIInv
BY SearchInitial, SearchInductive, PTL DEF SessionSpec

(* bpx prints every name that fits the pattern letter by letter, and only  *)
(* names that fit it in either case, for all tables, patterns and orders   *)
(* of the characters.                                                      *)
THEOREM SearchAlwaysFindsAll == SessionSpec => []SearchFindsAll
<1>1. SearchIInv => SearchFindsAll
  BY SearchTypes, MatchesFit DEF SearchIInv, SearchTypeOK, SearchFindsAll
<1>2. QED
  BY <1>1, SearchAlways, PTL

-----------------------------------------------------------------------------
(* The path of a symbol file.  First, the digits of a number.              *)

LEMMA Division ==
  ASSUME NEW q \in Nat
  PROVE  /\ q \div HexBase \in Nat
         /\ q % HexBase \in 0 .. HexBase - 1
         /\ q = HexBase * (q \div HexBase) + (q % HexBase)
         /\ q # 0 => q \div HexBase < q
<1>1. HexBase \in Nat /\ HexBase > 1
  BY PathAssumption
<1>2. q % HexBase \in 0 .. HexBase - 1 /\ q \div HexBase \in Int
  BY <1>1
<1>3. q = HexBase * (q \div HexBase) + (q % HexBase)
  BY <1>1
<1>4. PICK d \in Int : d = q \div HexBase
  BY <1>2
<1>5. q - HexBase * d \in 0 .. HexBase - 1
  BY <1>1, <1>2, <1>3, <1>4
<1>6. d >= 0
  <2>1. SUFFICES ASSUME d + 1 <= 0
                 PROVE  FALSE
    OBVIOUS
  <2>2. HexBase * (d + 1) <= 0
    BY <1>1, <2>1
  <2>3. QED
    BY <1>1, <1>5, <2>2
<1>7. q # 0 => d < q
  <2>1. SUFFICES ASSUME q # 0, d >= q
                 PROVE  FALSE
    OBVIOUS
  <2>2. HexBase * d >= 2 * d
    BY <1>1, <1>6
  <2>3. q - HexBase * d >= 0 /\ HexBase * d \in Int
    BY <1>1, <1>5
  <2>4. QED
    BY <2>1, <2>2, <2>3
<1>8. QED
  BY <1>2, <1>3, <1>4, <1>6, <1>7

Rests(n, rest) ==
  rest = [j \in Nat |-> IF j = 0 THEN n ELSE rest[j - 1] \div HexBase]

LEMMA DigitsLeave ==
  ASSUME NEW n \in Nat
  PROVE  /\ WithoutLast(n, 0) = n
         /\ \A k \in Nat :
              /\ WithoutLast(n, k) \in Nat
              /\ WithoutLast(n, k + 1) = WithoutLast(n, k) \div HexBase
<1> DEFINE step == [p \in Nat \X Nat |-> p[2] \div HexBase]
<1>1. step \in [Nat \X Nat -> Nat]
  <2>1. \A p \in Nat \X Nat : p[2] \div HexBase \in Nat
    BY Division
  <2>2. QED
    BY <2>1
<1>2. \A k, q \in Nat : step[<<k, q>>] = q \div HexBase
  OBVIOUS
<1> HIDE DEF step
<1>3. PICK f \in [Nat -> Nat] : Recursive(f, n, step)
  BY <1>1, RecursionOverNat
<1>4. f[0] = n /\ \A k \in Nat : f[k + 1] = f[k] \div HexBase
  BY <1>2, <1>3 DEF Recursive
<1>5. \A j \in Nat : f[j] = IF j = 0 THEN n ELSE f[j - 1] \div HexBase
  <2>1. TAKE j \in Nat
  <2>2. j # 0 => j - 1 \in Nat /\ (j - 1) + 1 = j
    OBVIOUS
  <2>3. QED
    BY <1>4, <2>2
<1>6. Rests(n, f)
  <2>1. f = [j \in Nat |-> f[j]]
    BY <1>3
  <2>2. QED
    BY <1>5, <2>1, Zenon DEF Rests
<1>7. \A k : WithoutLast(n, k) = (CHOOSE rest : Rests(n, rest))[k]
  BY DEF WithoutLast, Rests
<1>8. PICK rest : /\ Rests(n, rest)
                  /\ \A k : WithoutLast(n, k) = rest[k]
  BY <1>6, <1>7
<1>9. \A j \in Nat : rest[j] = IF j = 0 THEN n ELSE rest[j - 1] \div HexBase
  BY <1>8, Zenon DEF Rests
<1>10. rest[0] = n
  BY <1>9
<1>11. \A k \in Nat : rest[k + 1] = rest[k] \div HexBase
  BY <1>9
<1> DEFINE S == {k \in Nat : rest[k] \in Nat}
<1>12. 0 \in S
  BY <1>10
<1>13. \A k \in Nat : k \in S => k + 1 \in S
  BY <1>11, Division
<1> HIDE DEF S
<1>14. \A k \in Nat : k \in S
  BY <1>12, <1>13, InductionOverNat
<1>15. QED
  BY <1>8, <1>10, <1>11, <1>14 DEF S

(* Numbers with the same last digits, and the same rest, are the same.     *)
LEMMA SameNumber ==
  ASSUME NEW a \in Nat, NEW b \in Nat, NEW width \in Nat,
         WithoutLast(a, width) = WithoutLast(b, width),
         Digits(a, width) = Digits(b, width)
  PROVE  a = b
<1>1. ASSUME NEW k \in 0 .. width - 1
      PROVE  WithoutLast(a, k) % HexBase = WithoutLast(b, k) % HexBase
  <2>1. width - k \in 1 .. width /\ width - (width - k) = k
    OBVIOUS
  <2>2. /\ Digits(a, width)[width - k] = WithoutLast(a, k) % HexBase
        /\ Digits(b, width)[width - k] = WithoutLast(b, k) % HexBase
    BY <2>1 DEF Digits
  <2>3. QED
    BY <2>2
<1> DEFINE S == {k \in Nat : k <= width =>
                   WithoutLast(a, width - k) = WithoutLast(b, width - k)}
<1>2. 0 \in S
  <2>1. width - 0 = width
    OBVIOUS
  <2>2. QED
    BY <2>1
<1>3. ASSUME NEW k \in Nat, k \in S
      PROVE  k + 1 \in S
  <2>1. SUFFICES ASSUME k + 1 <= width
                 PROVE  WithoutLast(a, width - (k + 1))
                          = WithoutLast(b, width - (k + 1))
    OBVIOUS
  <2>2. PICK j \in 0 .. width - 1 : j = width - (k + 1)
    <3>1. width - (k + 1) \in 0 .. width - 1
      BY <2>1
    <3>2. QED
      BY <3>1
  <2>3. j \in Nat /\ j + 1 = width - k
    BY <2>2
  <2>4. WithoutLast(a, j + 1) = WithoutLast(b, j + 1)
    BY <1>3, <2>1, <2>3
  <2>5. WithoutLast(a, j) \div HexBase = WithoutLast(b, j) \div HexBase
    BY <2>3, <2>4, DigitsLeave
  <2>6. WithoutLast(a, j) % HexBase = WithoutLast(b, j) % HexBase
    BY <1>1
  <2>7. WithoutLast(a, j) \in Nat /\ WithoutLast(b, j) \in Nat
    BY <2>3, DigitsLeave
  <2>8. WithoutLast(a, j) = WithoutLast(b, j)
    BY <2>5, <2>6, <2>7, Division, Zenon
  <2>9. QED
    BY <2>2, <2>8
<1> HIDE DEF S
<1>4. \A k \in Nat : k \in S
  BY <1>2, <1>3, InductionOverNat
<1>5. WithoutLast(a, width - width) = WithoutLast(b, width - width)
  BY <1>4 DEF S
<1>6. width - width = 0
  OBVIOUS
<1>7. QED
  BY <1>5, <1>6, DigitsLeave

LEMMA DigitsType ==
  ASSUME NEW n \in Nat, NEW width \in Nat
  PROVE  /\ Digits(n, width) \in Seq(0 .. HexBase - 1)
         /\ Len(Digits(n, width)) = width
<1>1. ASSUME NEW k \in 1 .. width
      PROVE  WithoutLast(n, width - k) % HexBase \in 0 .. HexBase - 1
  <2>1. width - k \in Nat
    OBVIOUS
  <2>2. WithoutLast(n, width - k) \in Nat
    BY <2>1, DigitsLeave
  <2>3. QED
    BY <2>2, Division
<1>2. QED
  BY <1>1 DEF Digits

(* A number has as many digits as it takes, and one at least.              *)
LEMMA UnpaddedWidth ==
  ASSUME NEW n \in Nat
  PROVE  \E width \in Nat : /\ Unpadded(n) = Digits(n, width)
                            /\ WithoutLast(n, width) = 0
<1> DEFINE S == {k \in Nat : \/ WithoutLast(n, k) = 0
                             \/ WithoutLast(n, k) + k <= n}
<1>1. 0 \in S
  BY DigitsLeave
<1>2. ASSUME NEW k \in Nat, k \in S
      PROVE  k + 1 \in S
  <2>1. /\ WithoutLast(n, k) \in Nat
        /\ WithoutLast(n, k + 1) = WithoutLast(n, k) \div HexBase
        /\ WithoutLast(n, k + 1) \in Nat
    BY DigitsLeave, k + 1 \in Nat
  <2>2. CASE WithoutLast(n, k) = 0
    <3>1. 0 \div HexBase = 0
      BY PathAssumption
    <3>2. WithoutLast(n, k + 1) = 0
      BY <2>1, <2>2, <3>1
    <3>3. QED
      BY <3>2
  <2>3. CASE WithoutLast(n, k) # 0
    <3>1. WithoutLast(n, k + 1) < WithoutLast(n, k)
      BY <2>1, <2>3, Division
    <3>2. QED
      BY <1>2, <2>1, <2>3, <3>1
  <2>4. QED
    BY <2>2, <2>3
<1> HIDE DEF S
<1>3. \A k \in Nat : k \in S
  BY <1>1, <1>2, InductionOverNat
<1> DEFINE enough == {k \in 1 .. n + 1 : WithoutLast(n, k) = 0}
<1>4. n + 1 \in enough
  <2>1. n + 1 \in S /\ WithoutLast(n, n + 1) \in Nat
    BY <1>3, DigitsLeave
  <2>2. QED
    BY <2>1 DEF S
<1>5. PICK least \in enough : \A k \in enough : least <= k
  BY <1>4, HasLeast, enough \in SUBSET Nat
<1>6. /\ least \in 1 .. n + 1 /\ WithoutLast(n, least) = 0
      /\ least > 1 => WithoutLast(n, least - 1) # 0
  <2>1. least \in 1 .. n + 1 /\ WithoutLast(n, least) = 0
    BY <1>5
  <2>2. ASSUME least > 1, WithoutLast(n, least - 1) = 0
        PROVE  FALSE
    <3>1. least - 1 \in 1 .. n + 1
      BY <2>1, <2>2
    <3>2. least - 1 \in enough
      BY <2>2, <3>1
    <3>3. QED
      BY <1>5, <2>1, <3>2
  <2>3. QED
    BY <2>1, <2>2
<1> DEFINE w == CHOOSE width \in 1 .. n + 1 :
                  /\ WithoutLast(n, width) = 0
                  /\ width > 1 => WithoutLast(n, width - 1) # 0
<1>7. w \in 1 .. n + 1 /\ WithoutLast(n, w) = 0
  BY <1>6
<1>8. Unpadded(n) = Digits(n, w)
  BY DEF Unpadded
<1> HIDE DEF w
<1>9. w \in Nat
  BY <1>7
<1>10. QED
  BY <1>7, <1>8, <1>9

LEMMA UnpaddedIsNumber ==
  ASSUME NEW a \in Nat, NEW b \in Nat
  PROVE  /\ Unpadded(a) \in Seq(0 .. HexBase - 1)
         /\ Unpadded(a) = Unpadded(b) => a = b
<1>1. PICK v \in Nat : Unpadded(a) = Digits(a, v) /\ WithoutLast(a, v) = 0
  BY UnpaddedWidth
<1>2. PICK w \in Nat : Unpadded(b) = Digits(b, w) /\ WithoutLast(b, w) = 0
  BY UnpaddedWidth
<1>3. Len(Unpadded(a)) = v /\ Len(Unpadded(b)) = w
  BY <1>1, <1>2, DigitsType
<1>4. ASSUME Unpadded(a) = Unpadded(b)
      PROVE  a = b
  <2>1. v = w
    BY <1>3, <1>4
  <2>2. WithoutLast(a, v) = WithoutLast(b, v) /\ Digits(a, v) = Digits(b, v)
    BY <1>1, <1>2, <1>4, <2>1
  <2>3. QED
    BY <2>2, SameNumber
<1>5. QED
  BY <1>1, <1>4, DigitsType

-----------------------------------------------------------------------------
(* Sequences put one behind the other.                                     *)

LEMMA ConcatSplits ==
  ASSUME NEW T, NEW s \in Seq(T), NEW t \in Seq(T),
         NEW u \in Seq(T), NEW v \in Seq(T),
         Len(s) = Len(u), s \o t = u \o v
  PROVE  s = u /\ t = v
<1>1. /\ Len(s \o t) = Len(s) + Len(t) /\ Len(u \o v) = Len(u) + Len(v)
      /\ \A i \in 1 .. Len(s) + Len(t) :
           (s \o t)[i] = IF i <= Len(s) THEN s[i] ELSE t[i - Len(s)]
      /\ \A i \in 1 .. Len(u) + Len(v) :
           (u \o v)[i] = IF i <= Len(u) THEN u[i] ELSE v[i - Len(u)]
  BY ConcatProperties
<1>2. /\ Len(s) \in Nat /\ Len(t) \in Nat /\ Len(v) \in Nat
      /\ Len(t) = Len(v)
  BY <1>1
<1>3. \A i \in 1 .. Len(s) : s[i] = u[i]
  <2>1. TAKE i \in 1 .. Len(s)
  <2>2. i \in 1 .. Len(s) + Len(t) /\ i <= Len(s)
    BY <1>2
  <2>3. (s \o t)[i] = s[i] /\ (u \o v)[i] = u[i]
    BY <1>1, <1>2, <2>2
  <2>4. QED
    BY <2>3
<1>4. \A i \in 1 .. Len(t) : t[i] = v[i]
  <2>1. TAKE i \in 1 .. Len(t)
  <2>2. /\ i + Len(s) \in 1 .. Len(s) + Len(t) /\ ~ (i + Len(s) <= Len(s))
        /\ (i + Len(s)) - Len(s) = i
    BY <1>2
  <2>3. (s \o t)[i + Len(s)] = t[i] /\ (u \o v)[i + Len(s)] = v[i]
    BY <1>1, <1>2, <2>2
  <2>4. QED
    BY <2>3
<1>5. /\ s \in [1 .. Len(s) -> T] /\ u \in [1 .. Len(s) -> T]
      /\ t \in [1 .. Len(t) -> T] /\ v \in [1 .. Len(t) -> T]
  BY <1>2
<1>6. s = u
  BY <1>3, <1>5
<1>7. t = v
  BY <1>4, <1>5
<1>8. QED
  BY <1>6, <1>7

Flattens(seqs, flat) ==
  flat = [i \in 1 .. Len(seqs) |->
            IF i = 1 THEN seqs[i] ELSE flat[i - 1] \o seqs[i]]

(* What flat holds after each of the sequences.                            *)
Joins(seqs, flat) ==
  /\ flat[1] = seqs[1]
  /\ \A i \in 1 .. Len(seqs) - 1 : flat[i + 1] = flat[i] \o seqs[i + 1]

LEMMA FlattenJoins ==
  ASSUME NEW T, NEW seqs \in Seq(Seq(T)), Len(seqs) > 0
  PROVE  \E flat : /\ Joins(seqs, flat)
                   /\ \A i \in 1 .. Len(seqs) : flat[i] \in Seq(T)
                   /\ FlattenSeq(seqs) = flat[Len(seqs)]
<1> DEFINE N == Len(seqs)
           Longer(k, s) == IF k + 2 \in 1 .. N THEN s \o seqs[k + 2] ELSE s
           step == [p \in Nat \X Seq(T) |-> Longer(p[1], p[2])]
<1>1. N \in Nat /\ seqs[1] \in Seq(T) /\ \A i \in 1 .. N : seqs[i] \in Seq(T)
  OBVIOUS
<1>2. \A k \in Nat, s \in Seq(T) : Longer(k, s) \in Seq(T)
  BY <1>1, ConcatProperties
<1>3. \A k \in Nat, s \in Seq(T) :
        k + 2 \in 1 .. N => Longer(k, s) = s \o seqs[k + 2]
  OBVIOUS
<1> HIDE DEF Longer
<1>4. step \in [Nat \X Seq(T) -> Seq(T)]
  <2>1. \A p \in Nat \X Seq(T) : p[1] \in Nat /\ p[2] \in Seq(T)
    OBVIOUS
  <2>2. \A p \in Nat \X Seq(T) : Longer(p[1], p[2]) \in Seq(T)
    BY <1>2, <2>1, Zenon
  <2>3. QED
    BY <2>2, Zenon
<1>5. \A k \in Nat, s \in Seq(T) : step[<<k, s>>] = Longer(k, s)
  OBVIOUS
<1> HIDE DEF step
<1>6. PICK f \in [Nat -> Seq(T)] : Recursive(f, seqs[1], step)
  BY <1>1, <1>4, RecursionOverNat
<1>7. f[0] = seqs[1] /\ \A k \in Nat : f[k + 1] = Longer(k, f[k])
  BY <1>5, <1>6 DEF Recursive
<1> DEFINE g == [i \in 1 .. N |-> f[i - 1]]
<1>8. ASSUME NEW i \in 1 .. N
      PROVE  g[i] = IF i = 1 THEN seqs[i] ELSE g[i - 1] \o seqs[i]
  <2>1. CASE i = 1
    BY <1>7, <2>1
  <2>2. CASE i # 1
    <3>1. PICK k \in Nat : i = k + 2
      <4>1. i - 2 \in Nat /\ i = (i - 2) + 2
        BY <2>2
      <4>2. QED
        BY <4>1
    <3>2. /\ i - 1 = k + 1 /\ i - 1 \in 1 .. N /\ (i - 1) - 1 = k
          /\ k + 2 \in 1 .. N
      BY <3>1
    <3>3. g[i] = f[k + 1] /\ g[i - 1] = f[k]
      BY <3>2
    <3> HIDE DEF g
    <3>4. f[k + 1] = f[k] \o seqs[k + 2]
      BY <1>3, <1>6, <1>7, <3>2
    <3>5. QED
      BY <2>2, <3>1, <3>3, <3>4, Zenon
  <2>3. QED
    BY <2>1, <2>2
<1>9. g = [i \in 1 .. N |-> g[i]]
  OBVIOUS
<1> HIDE DEF g
<1>10. Flattens(seqs, g)
  BY <1>8, <1>9, Zenon DEF Flattens
<1>11. FlattenSeq(seqs) = (CHOOSE flat : Flattens(seqs, flat))[N]
  BY DEF FlattenSeq, Flattens
<1>12. PICK flat : Flattens(seqs, flat) /\ FlattenSeq(seqs) = flat[N]
  BY <1>10, <1>11
<1>13. \A i \in 1 .. N :
         flat[i] = IF i = 1 THEN seqs[i] ELSE flat[i - 1] \o seqs[i]
  BY <1>12, Zenon DEF Flattens
<1>14. Joins(seqs, flat)
  <2>1. flat[1] = seqs[1]
    BY <1>13, 1 \in 1 .. N
  <2>2. ASSUME NEW i \in 1 .. N - 1
        PROVE  flat[i + 1] = flat[i] \o seqs[i + 1]
    <3>1. i + 1 \in 1 .. N /\ i + 1 # 1 /\ (i + 1) - 1 = i
      OBVIOUS
    <3>2. QED
      BY <1>13, <3>1, Zenon
  <2>3. QED
    BY <2>1, <2>2 DEF Joins
<1> DEFINE S == {k \in Nat : k + 1 \in 1 .. N => flat[k + 1] \in Seq(T)}
<1>15. 0 \in S
  <2>1. 0 + 1 = 1
    OBVIOUS
  <2>2. flat[0 + 1] \in Seq(T)
    BY <1>1, <1>14, <2>1, Zenon DEF Joins
  <2>3. QED
    BY <2>2, Zenon
<1>16. ASSUME NEW k \in Nat, k \in S
       PROVE  k + 1 \in S
  <2> k + 1 \in Nat
    OBVIOUS
  <2>1. SUFFICES ASSUME (k + 1) + 1 \in 1 .. N
                 PROVE  flat[(k + 1) + 1] \in Seq(T)
    BY Zenon
  <2>2. k + 1 \in 1 .. N - 1 /\ k + 1 \in 1 .. N
    BY <2>1
  <2>3. flat[(k + 1) + 1] = flat[k + 1] \o seqs[(k + 1) + 1]
    BY <1>14, <2>2 DEF Joins
  <2>4. flat[k + 1] \in Seq(T) /\ seqs[(k + 1) + 1] \in Seq(T)
    BY <1>1, <1>16, <2>1, <2>2
  <2>5. QED
    BY <2>3, <2>4, ConcatProperties
<1> HIDE DEF S
<1>17. \A k \in Nat : k \in S
  BY <1>15, <1>16, InductionOverNat
<1>18. ASSUME NEW i \in 1 .. N
       PROVE  flat[i] \in Seq(T)
  <2>1. i - 1 \in Nat /\ (i - 1) + 1 = i
    OBVIOUS
  <2>2. i - 1 \in S
    BY <1>17, <2>1
  <2>3. QED
    BY <2>1, <2>2, Zenon DEF S
<1>19. QED
  BY <1>12, <1>14, <1>18

(* Of sequences of the same lengths, joined, each can be told.             *)
LEMMA SameParts ==
  ASSUME NEW T, NEW s \in Seq(Seq(T)), NEW t \in Seq(Seq(T)),
         Len(s) > 0, Len(s) = Len(t),
         \A i \in 1 .. Len(s) : Len(s[i]) = Len(t[i])
  PROVE  /\ FlattenSeq(s) \in Seq(T)
         /\ Len(FlattenSeq(s)) = Len(FlattenSeq(t))
         /\ FlattenSeq(s) = FlattenSeq(t) => \A i \in 1 .. Len(s) : s[i] = t[i]
<1> DEFINE N == Len(s)
<1>1. N \in Nat /\ \A i \in 1 .. N : s[i] \in Seq(T) /\ t[i] \in Seq(T)
  OBVIOUS
<1>2. PICK f : /\ Joins(s, f) /\ FlattenSeq(s) = f[N]
               /\ \A i \in 1 .. N : f[i] \in Seq(T)
  BY FlattenJoins
<1>3. PICK g : /\ Joins(t, g) /\ FlattenSeq(t) = g[N]
               /\ \A i \in 1 .. N : g[i] \in Seq(T)
  BY FlattenJoins
<1> DEFINE Told(k) == /\ Len(f[k]) = Len(g[k])
                      /\ f[k] = g[k] => \A i \in 1 .. k : s[i] = t[i]
<1>4. Told(1)
  BY <1>2, <1>3, 1 \in 1 .. N DEF Joins
<1>5. ASSUME NEW k \in 1 .. N - 1, Told(k)
      PROVE  Told(k + 1)
  <2>1. k \in 1 .. N /\ k + 1 \in 1 .. N
    OBVIOUS
  <2>2. /\ f[k + 1] = f[k] \o s[k + 1] /\ g[k + 1] = g[k] \o t[k + 1]
        /\ f[k] \in Seq(T) /\ g[k] \in Seq(T)
        /\ s[k + 1] \in Seq(T) /\ t[k + 1] \in Seq(T)
    BY <1>1, <1>2, <1>3, <2>1 DEF Joins
  <2>3. Len(f[k + 1]) = Len(g[k + 1])
    <3>1. \A p, q \in Seq(T) : Len(p \o q) = Len(p) + Len(q)
      OBVIOUS
    <3>2. /\ Len(f[k + 1]) = Len(f[k]) + Len(s[k + 1])
          /\ Len(g[k + 1]) = Len(g[k]) + Len(t[k + 1])
      BY <2>2, <3>1, Zenon
    <3>3. Len(f[k]) = Len(g[k]) /\ Len(s[k + 1]) = Len(t[k + 1])
      BY <1>5, <2>1, Zenon
    <3>4. QED
      BY <3>2, <3>3, Zenon
  <2>4. ASSUME f[k + 1] = g[k + 1]
        PROVE  \A i \in 1 .. k + 1 : s[i] = t[i]
    <3>1. f[k] = g[k] /\ s[k + 1] = t[k + 1]
      <4>1. f[k] \o s[k + 1] = g[k] \o t[k + 1]
        BY <2>2, <2>4
      <4>2. Len(f[k]) = Len(g[k])
        BY <1>5
      <4>3. PICK p \in Seq(T), q \in Seq(T), r \in Seq(T), w \in Seq(T) :
              /\ p = f[k] /\ q = s[k + 1]
              /\ r = g[k] /\ w = t[k + 1]
        BY <2>2, Zenon
      <4>4. Len(p) = Len(r) /\ p \o q = r \o w
        BY <4>1, <4>2, <4>3, Zenon
      <4>5. p = r /\ q = w
        BY <4>4, ConcatSplits
      <4>6. QED
        BY <4>3, <4>5, Zenon
    <3>2. \A i \in 1 .. k : s[i] = t[i]
      BY <1>5, <3>1
    <3>3. QED
      BY <3>1, <3>2
  <2>5. QED
    BY <2>3, <2>4
<1> DEFINE S == {k \in Nat : k + 1 \in 1 .. N => Told(k + 1)}
<1> HIDE DEF Told
<1>6. 0 \in S
  <2>1. Told(0 + 1)
    BY <1>4
  <2>2. QED
    BY <2>1, Zenon
<1>7. ASSUME NEW k \in Nat, k \in S
      PROVE  k + 1 \in S
  <2> k + 1 \in Nat
    OBVIOUS
  <2>1. SUFFICES ASSUME (k + 1) + 1 \in 1 .. N
                 PROVE  Told((k + 1) + 1)
    BY Zenon
  <2>2. k + 1 \in 1 .. N - 1 /\ k + 1 \in 1 .. N
    BY <2>1
  <2>3. QED
    BY <1>5, <1>7, <2>2, Zenon
<1> HIDE DEF S
<1>8. \A k \in Nat : k \in S
  BY <1>6, <1>7, InductionOverNat
<1>9. Told(N)
  <2>1. N - 1 \in Nat /\ (N - 1) + 1 = N /\ N \in 1 .. N
    BY <1>1
  <2>2. N - 1 \in S
    BY <1>8, <2>1
  <2>3. QED
    BY <2>1, <2>2, Zenon DEF S
<1>10. FlattenSeq(s) \in Seq(T)
  BY <1>1, <1>2, N \in 1 .. N
<1>11. QED
  BY <1>2, <1>3, <1>9, <1>10 DEF Told

-----------------------------------------------------------------------------

Fields(guid) == [n \in DOMAIN guid |-> Padded(guid[n], GuidWidths[n])]

LEMMA FieldsType ==
  ASSUME NEW guid \in Guids
  PROVE  /\ Fields(guid) \in Seq(Seq(0 .. HexBase - 1))
         /\ Len(Fields(guid)) = Len(GuidWidths)
         /\ \A n \in 1 .. Len(GuidWidths) :
              /\ guid[n] \in Nat /\ GuidWidths[n] \in Nat
              /\ Fields(guid)[n] = Digits(guid[n], GuidWidths[n])
              /\ Len(Fields(guid)[n]) = GuidWidths[n]
              /\ WithoutLast(guid[n], GuidWidths[n]) = 0
<1>1. /\ guid \in [1 .. Len(GuidWidths) -> Nat]
      /\ \A n \in 1 .. Len(GuidWidths) :
           WithoutLast(guid[n], GuidWidths[n]) = 0
  BY DEF Guids
<1>2. /\ GuidWidths \in Seq(Nat) /\ Len(GuidWidths) \in Nat
      /\ \A n \in 1 .. Len(GuidWidths) : GuidWidths[n] \in Nat
  BY PathAssumption
<1>3. \A n \in 1 .. Len(GuidWidths) :
        /\ Digits(guid[n], GuidWidths[n]) \in Seq(0 .. HexBase - 1)
        /\ Len(Digits(guid[n], GuidWidths[n])) = GuidWidths[n]
  BY <1>1, <1>2, DigitsType
<1>4. Fields(guid)
        = [n \in 1 .. Len(GuidWidths) |-> Digits(guid[n], GuidWidths[n])]
  BY <1>1 DEF Fields, Padded
<1>5. Fields(guid) \in Seq(Seq(0 .. HexBase - 1))
  BY <1>2, <1>3, <1>4
<1>6. Len(Fields(guid)) = Len(GuidWidths)
  BY <1>2, <1>4
<1>7. QED
  BY <1>1, <1>2, <1>3, <1>4, <1>5, <1>6

(* Two builds do not have the same ID.                                     *)
LEMMA UniqueIdIsUnique ==
  ASSUME NEW g \in Guids, NEW h \in Guids, NEW a \in Nat, NEW b \in Nat
  PROVE  /\ UniqueId(g, a) \in Seq(0 .. HexBase - 1)
         /\ UniqueId(g, a) = UniqueId(h, b) => g = h /\ a = b
<1> DEFINE digit == 0 .. HexBase - 1
<1>1. /\ UniqueId(g, a) = FlattenSeq(Fields(g)) \o Unpadded(a)
      /\ UniqueId(h, b) = FlattenSeq(Fields(h)) \o Unpadded(b)
  BY DEF UniqueId, Fields
<1>2. /\ Fields(g) \in Seq(Seq(digit)) /\ Fields(h) \in Seq(Seq(digit))
      /\ Len(Fields(g)) > 0 /\ Len(Fields(h)) = Len(Fields(g))
      /\ \A n \in 1 .. Len(Fields(g)) : Len(Fields(g)[n]) = Len(Fields(h)[n])
  BY FieldsType, PathAssumption
<1>3. /\ FlattenSeq(Fields(g)) \in Seq(digit)
      /\ Len(FlattenSeq(Fields(g))) = Len(FlattenSeq(Fields(h)))
      /\ FlattenSeq(Fields(g)) = FlattenSeq(Fields(h)) =>
           \A n \in 1 .. Len(Fields(g)) : Fields(g)[n] = Fields(h)[n]
  BY <1>2, SameParts
<1>4. FlattenSeq(Fields(h)) \in Seq(digit)
  BY <1>2, SameParts
<1>5. Unpadded(a) \in Seq(digit) /\ Unpadded(b) \in Seq(digit)
  BY UnpaddedIsNumber
<1>6. ASSUME UniqueId(g, a) = UniqueId(h, b)
      PROVE  g = h /\ a = b
  <2>1. /\ FlattenSeq(Fields(g)) = FlattenSeq(Fields(h))
        /\ Unpadded(a) = Unpadded(b)
    BY <1>1, <1>3, <1>4, <1>5, <1>6, ConcatSplits
  <2>2. \A n \in 1 .. Len(GuidWidths) : Fields(g)[n] = Fields(h)[n]
    BY <1>3, <2>1, FieldsType
  <2>3. \A n \in 1 .. Len(GuidWidths) : g[n] = h[n]
    <3>1. TAKE n \in 1 .. Len(GuidWidths)
    <3>2. /\ g[n] \in Nat /\ h[n] \in Nat /\ GuidWidths[n] \in Nat
          /\ WithoutLast(g[n], GuidWidths[n]) = 0
          /\ WithoutLast(h[n], GuidWidths[n]) = 0
      BY FieldsType
    <3>3. Digits(g[n], GuidWidths[n]) = Digits(h[n], GuidWidths[n])
      BY <2>2, FieldsType
    <3>4. QED
      BY <3>2, <3>3, SameNumber
  <2>4. g = h
    BY <2>3 DEF Guids
  <2>5. QED
    BY <2>1, <2>4, UnpaddedIsNumber
<1> HIDE DEF digit
<1>7. UniqueId(g, a) \in Seq(digit)
  BY <1>1, <1>3, <1>5, ConcatProperties
<1>8. QED
  BY <1>6, <1>7 DEF digit

-----------------------------------------------------------------------------

IsReference(k) == dbgDir[k].type = "CODEVIEW"

(* The entries passed are no references, but for the one the path is made  *)
(* of.                                                                     *)
PathIInv ==
  /\ PathTypeOK
  /\ pathPc = "idle" => entry = 0
  /\ pathPc # "idle" => dbgDir \in Directories /\ entry \in 0 .. Len(dbgDir)
  /\ pathPc = "entries" => \A k \in 1 .. entry : ~IsReference(k)
  /\ pathPc \in {"read", "true"} =>
       /\ entry \in 1 .. Len(dbgDir) /\ IsReference(entry)
       /\ \A k \in 1 .. entry - 1 : ~IsReference(k)
  /\ pathPc = "true" => pdbPath = PathOf(dbgDir[entry])

LEMMA DirectoryType ==
  ASSUME NEW dir \in Directories
  PROVE  /\ DOMAIN dir = 1 .. Len(dir) /\ Len(dir) \in Nat
         /\ \A k \in 1 .. Len(dir) :
              /\ dir[k].guid \in Guids /\ dir[k].age \in Nat
              /\ dir[k].pdb \in PdbNames
<1> DEFINE Entry == [type : STRING, guid : Guids, age : Nat, pdb : PdbNames]
<1>1. dir \in Seq(Entry)
  BY PathAssumption
<1>2. \A e \in Entry : e.guid \in Guids /\ e.age \in Nat /\ e.pdb \in PdbNames
  OBVIOUS
<1> HIDE DEF Entry
<1>3. /\ DOMAIN dir = 1 .. Len(dir) /\ Len(dir) \in Nat
      /\ \A k \in 1 .. Len(dir) : dir[k] \in Entry
  BY <1>1
<1>4. QED
  BY <1>2, <1>3, Zenon

LEMMA PathOfType ==
  ASSUME NEW dir \in Directories, NEW k \in 1 .. Len(dir)
  PROVE  PathOf(dir[k]) \in PdbNames \X Seq(0 .. HexBase - 1) \X PdbNames
BY DirectoryType, UniqueIdIsUnique DEF PathOf

LEMMA PathInductive == PathIInv /\ [SessionNext]_sessionVars => PathIInv'
<1> SUFFICES ASSUME PathIInv, [SessionNext]_sessionVars
             PROVE  PathIInv'
  OBVIOUS
<1> USE DEF IsReference
<1>1. CASE UNCHANGED pathVars
  BY <1>1 DEF pathVars, PathIInv, PathTypeOK
<1>2. ASSUME NEW dir \in Directories, PathBegin(dir)
      PROVE  PathIInv'
  BY <1>2, DirectoryType DEF PathBegin, PathIInv, PathTypeOK
<1>3. CASE NextEntry
  <2>1. /\ dbgDir \in Directories /\ Len(dbgDir) \in Nat
        /\ entry \in 0 .. Len(dbgDir) /\ entry < Len(dbgDir)
        /\ \A k \in 1 .. entry : ~IsReference(k)
        /\ entry' = entry + 1 /\ UNCHANGED <<dbgDir, pdbPath>>
        /\ pathPc' = IF IsReference(entry + 1) THEN "read" ELSE "entries"
    BY <1>3, DirectoryType DEF NextEntry, PathIInv
  <2>2. entry' \in 1 .. Len(dbgDir) /\ entry' - 1 = entry
    BY <2>1
  <2>3. PathTypeOK'
    BY <2>1, <2>2 DEF PathIInv, PathTypeOK
  <2>4. pathPc' = "entries" => \A k \in 1 .. entry + 1 : ~IsReference(k)
    <3>1. \A k \in 1 .. entry + 1 : k \in 1 .. entry \/ k = entry + 1
      BY <2>1
    <3>2. QED
      BY <2>1, <3>1
  <2>5. QED
    BY <2>1, <2>2, <2>3, <2>4 DEF PathIInv
<1>4. CASE NoPdbReference
  BY <1>4 DEF NoPdbReference, PathIInv, PathTypeOK
<1>5. CASE NoPath
  BY <1>5 DEF NoPath, PathIInv, PathTypeOK
<1>6. CASE OpenSymFile
  <2>1. /\ pathPc = "read" /\ pathPc' = "true"
        /\ pdbPath' = PathOf(dbgDir[entry]) /\ UNCHANGED <<dbgDir, entry>>
    BY <1>6 DEF OpenSymFile, PathOf
  <2>2. dbgDir \in Directories /\ entry \in 1 .. Len(dbgDir)
    BY <2>1 DEF PathIInv
  <2>3. PathOf(dbgDir[entry]) \in PdbNames \X Seq(0 .. HexBase - 1) \X PdbNames
    BY <2>2, PathOfType
  <2>4. PathTypeOK'
    BY <2>1, <2>3 DEF PathIInv, PathTypeOK
  <2>5. (PathOf(dbgDir[entry]))' = PathOf(dbgDir[entry])
    BY <2>1
  <2>6. QED
    BY <2>1, <2>4, <2>5 DEF PathIInv
<1>7. CASE PathReturn
  BY <1>7 DEF PathReturn, PathIInv, PathTypeOK
<1>8. QED
  BY <1>1, <1>2, <1>3, <1>4, <1>5, <1>6, <1>7, StepIsOfCommand DEF PathWalk

LEMMA PathAlways == SessionSpec => []PathIInv
<1>1. SessionInit => PathIInv
  BY DEF SessionInit, PathInit, PathIInv, PathTypeOK
<1>2. QED
  BY <1>1, PathInductive, PTL DEF SessionSpec

(* The symbol file opened is that of the module's own build: no other GUID *)
(* or age, in any base and widths of the fields, gives the same path.      *)
THEOREM PathAlwaysOfBuild == SessionSpec => []PathIsOfBuild
<1>1. PathIInv => PathIsOfBuild
  <2> SUFFICES ASSUME PathIInv, pathPc = "true"
               PROVE  /\ pdbPath = PathOf(PdbOf(dbgDir))
                      /\ \A dir \in Directories : \A k \in References(dir) :
                           PathOf(dir[k]) = pdbPath =>
                             SameBuild(dir[k], PdbOf(dbgDir))
    BY DEF PathIsOfBuild
  <2>1. /\ dbgDir \in Directories /\ entry \in 1 .. Len(dbgDir)
        /\ IsReference(entry) /\ \A k \in 1 .. entry - 1 : ~IsReference(k)
        /\ pdbPath = PathOf(dbgDir[entry])
    BY DEF PathIInv
  <2>2. PdbOf(dbgDir) = dbgDir[entry]
    <3>1. entry \in References(dbgDir)
      BY <2>1, DirectoryType DEF References, IsReference
    <3>2. \A k \in References(dbgDir) : k \in Nat /\ entry <= k
      <4>1. TAKE k \in References(dbgDir)
      <4>2. k \in 1 .. Len(dbgDir) /\ IsReference(k)
        BY <2>1, DirectoryType DEF References, IsReference
      <4>3. k \notin 1 .. entry - 1
        BY <2>1, <4>2
      <4>4. QED
        BY <2>1, <4>2, <4>3
    <3> DEFINE first == CHOOSE k \in References(dbgDir) :
                          \A other \in References(dbgDir) : k <= other
    <3>3. /\ first \in References(dbgDir)
          /\ \A other \in References(dbgDir) : first <= other
      BY <3>1, <3>2
    <3>4. PdbOf(dbgDir) = dbgDir[first]
      BY DEF PdbOf
    <3> HIDE DEF first
    <3>5. first = entry
      <4>1. first <= entry /\ entry <= first /\ first \in Nat /\ entry \in Nat
        BY <3>1, <3>2, <3>3
      <4>2. QED
        BY <4>1
    <3>6. QED
      BY <3>4, <3>5
  <2>3. ASSUME NEW dir \in Directories, NEW k \in References(dir),
               PathOf(dir[k]) = pdbPath
        PROVE  SameBuild(dir[k], dbgDir[entry])
    <3>1. k \in 1 .. Len(dir)
      BY DirectoryType DEF References
    <3>2. /\ dir[k].guid \in Guids /\ dir[k].age \in Nat
          /\ dbgDir[entry].guid \in Guids /\ dbgDir[entry].age \in Nat
      BY <2>1, <3>1, DirectoryType
    <3>3. /\ dir[k].pdb = dbgDir[entry].pdb
          /\ UniqueId(dir[k].guid, dir[k].age)
               = UniqueId(dbgDir[entry].guid, dbgDir[entry].age)
      BY <2>1, <2>3 DEF PathOf
    <3>4. dir[k].guid = dbgDir[entry].guid /\ dir[k].age = dbgDir[entry].age
      <4>1. PICK g \in Guids, a \in Nat, h \in Guids, b \in Nat :
              /\ g = dir[k].guid /\ a = dir[k].age
              /\ h = dbgDir[entry].guid /\ b = dbgDir[entry].age
        BY <3>2, Zenon
      <4>2. UniqueId(g, a) = UniqueId(h, b)
        BY <3>3, <4>1, Zenon
      <4>3. g = h /\ a = b
        BY <4>2, UniqueIdIsUnique
      <4>4. QED
        BY <4>1, <4>3, Zenon
    <3>5. QED
      BY <3>3, <3>4 DEF SameBuild
  <2>4. QED
    BY <2>1, <2>2, <2>3
<1>2. QED
  BY <1>1, PathAlways, PTL

-----------------------------------------------------------------------------
(* The types of a session.                                                 *)

LEMMA ExtensionAlwaysTyped == SessionSpec => []ExtensionTypeOK
<1>1. SessionInit => ExtensionTypeOK
  BY DEF SessionInit, ExtensionInit, ExtensionTypeOK, Widths
<1>2. ExtensionTypeOK /\ [SessionNext]_sessionVars => ExtensionTypeOK'
  <2> SUFFICES ASSUME ExtensionTypeOK, [SessionNext]_sessionVars
               PROVE  ExtensionTypeOK'
    OBVIOUS
  <2>1. CASE UNCHANGED extensionVars
    BY <2>1 DEF extensionVars, ExtensionTypeOK
  <2>2. CASE LoadExtension
    BY <2>2 DEF LoadExtension, DebugExtensionInitialize, PointerWidth,
                ExtensionTypeOK, Widths
  <2>3. CASE UnloadExtension
    BY <2>3 DEF UnloadExtension, Unload, ExtensionTypeOK, Widths
  <2>4. CASE NextTarget
    BY <2>4 DEF NextTarget, DebugTarget, ExtensionTypeOK
  <2>5. CASE Command \/ Step \/ (UserActs /\ OnlyGoto) \/ UNCHANGED sessionVars
    <3>1. UNCHANGED extensionVars
      BY <2>5 DEF Command, Step, OnlyMutex, OnlyActctx, OnlyParams, OnlyGoto,
                  OnlyPath, OnlySearch, sessionVars
    <3>2. QED
      BY <2>1, <3>1
  <2>6. QED
    BY <2>2, <2>3, <2>4, <2>5 DEF SessionNext
<1>3. QED
  BY <1>1, <1>2, PTL DEF SessionSpec

(* The frame whose Previous is read is one.                                *)
ActctxTypeInv ==
  /\ ActctxTypeOK
  /\ actctxPc = "test" => curActCtxFramePtr # NullPtr

LEMMA ActctxAlwaysTyped == SessionSpec => []ActctxTypeInv
<1> USE ContextsAssumption DEF ActctxTypeInv, ActctxTypeOK, Pointers, actctxLocals
<1>1. SessionInit => ActctxTypeInv
  BY DEF SessionInit, ActctxInit, ActctxLocalsInit
<1>2. ActctxTypeInv /\ [SessionNext]_sessionVars => ActctxTypeInv'
  <2> SUFFICES ASSUME ActctxTypeInv, [SessionNext]_sessionVars
               PROVE  ActctxTypeInv'
    OBVIOUS
  <2>1. CASE UNCHANGED actctxVars
    BY <2>1 DEF actctxVars
  <2>2. ASSUME NEW s \in Stacks, ActctxBegin(s)
        PROVE  ActctxTypeInv'
    BY <2>2 DEF ActctxBegin
  <2>3. CASE ReadFails \/ PreviousUnread
    BY <2>3 DEF ReadFails, PreviousUnread
  <2>4. CASE PrintContext
    <3>1. (index + 1) % IndexSize \in 0 .. IndexSize - 1
      OBVIOUS
    <3>2. QED
      BY <2>4, <3>1 DEF PrintContext
  <2>5. CASE ReadPrevious
    <3>1. curActCtxFramePtr \in Frames /\ stack.Previous \in [Frames -> Pointers]
      BY <2>5 DEF ReadPrevious
    <3>2. QED
      BY <2>5, <3>1 DEF ReadPrevious
  <2>6. CASE ActctxReturn
    BY <2>6 DEF ActctxReturn
  <2>7. QED
    BY <2>1, <2>2, <2>3, <2>4, <2>5, <2>6, StepIsOfCommand DEF ActctxWalk
<1>3. QED
  BY <1>1, <1>2, PTL DEF SessionSpec

LEMMA ReadFrameType ==
  ASSUME NEW n \in 0 .. Len(FrameWords), NEW got \in 0 .. n
  PROVE  Reverse(ReadFrame(n, got)) \in Seq({0, Garbage} \cup Range(FrameWords))
<1> DEFINE Word == {0, Garbage} \cup Range(FrameWords)
           frame == ReadFrame(n, got)
<1>1. n \in Nat /\ DOMAIN FrameWords = 1 .. Len(FrameWords)
  BY FrameAssumption
<1>2. \A k \in 1 .. n : FrameWords[k] \in Word
  <2>1. \A k \in 1 .. n : k \in DOMAIN FrameWords
    BY <1>1
  <2>2. QED
    BY <2>1 DEF Range
<1>3. 0 \in Word
  OBVIOUS
<1> HIDE DEF Word
<1>4. frame \in Seq(Word) /\ Len(frame) = n
  BY <1>1, <1>2, <1>3 DEF ReadFrame
<1> HIDE DEF frame
<1>5. Reverse(frame) = [k \in 1 .. n |-> frame[n - k + 1]]
  BY <1>4 DEF Reverse
<1>6. \A k \in 1 .. n : frame[n - k + 1] \in Word
  <2>1. \A k \in 1 .. n : n - k + 1 \in 1 .. n
    BY <1>1
  <2>2. \A k \in 1 .. n : frame[k] \in Word
    BY <1>4
  <2>3. QED
    BY <2>1, <2>2, Zenon
<1>7. Reverse(frame) \in Seq(Word)
  BY <1>1, <1>5, <1>6
<1>8. QED
  BY <1>7 DEF Word, frame

LEMMA ParamsAlwaysTyped == SessionSpec => []ParamsTypeOK
<1> USE DEF ParamsTypeOK
<1>1. << >> \in Seq({0, Garbage} \cup Range(FrameWords)) /\ Len(FrameWords) \in Nat
  BY FrameAssumption
<1>2. SessionInit => ParamsTypeOK
  BY <1>1 DEF SessionInit, ParamsInit
<1>3. ParamsTypeOK /\ [SessionNext]_sessionVars => ParamsTypeOK'
  <2> SUFFICES ASSUME ParamsTypeOK, [SessionNext]_sessionVars
               PROVE  ParamsTypeOK'
    OBVIOUS
  <2>1. CASE UNCHANGED paramsVars
    BY <2>1 DEF paramsVars
  <2>2. ASSUME NEW n \in 0 .. Len(FrameWords), Params(n)
        PROVE  ParamsTypeOK'
    BY <1>1, <2>2, ReadFrameType DEF Params, GetParams32, GetParams64
  <2>3. CASE ParamsReturn
    BY <1>1, <2>3 DEF ParamsReturn
  <2>4. QED
    BY <2>1, <2>2, <2>3, StepIsOfCommand
<1>4. QED
  BY <1>2, <1>3, PTL DEF SessionSpec

(* Every variable of a session keeps its type: the ULONG of actctx, the    *)
(* words of a frame, the digits of a path and the position of a caret      *)
(* among them.                                                             *)
THEOREM SessionAlwaysTyped == SessionSpec => []SessionTypeOK
<1>1. MutexIInv => MutexTypeOK
  BY DEF MutexIInv
<1>2. ActctxTypeInv => ActctxTypeOK
  BY DEF ActctxTypeInv
<1>3. CaretIInv => GotoTypeOK
  BY DEF CaretIInv, GotoTypeInv
<1>4. PathIInv => PathTypeOK
  BY DEF PathIInv
<1>5. SearchIInv => SearchTypeOK
  BY DEF SearchIInv
<1>6. /\ ExtensionTypeOK /\ MutexTypeOK /\ ActctxTypeOK
      /\ ParamsTypeOK /\ GotoTypeOK /\ PathTypeOK /\ SearchTypeOK
      => SessionTypeOK
  BY DEF SessionTypeOK
<1>7. QED
  BY <1>1, <1>2, <1>3, <1>4, <1>5, <1>6, MutexAlways, ExtensionAlwaysTyped,
     ActctxAlwaysTyped, ParamsAlwaysTyped, CaretAlways, PathAlways,
     SearchAlways, PTL

=============================================================================
