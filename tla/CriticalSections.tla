-------------------------- MODULE CriticalSections --------------------------
(***************************************************************************)
(* The mozmutex command of src/mozmutex.cpp: it walks ntdll's list of      *)
(* critical sections, RtlCriticalSectionList, in the memory of the target, *)
(* and prints for each of them the stack that created it, from ntdll's     *)
(* stack trace database.                                                   *)
(*                                                                         *)
(* The target is stopped, its memory may hold any list: one that was being *)
(* changed, or never comes back to its head.  A read fails, or gives all   *)
(* it was asked for, or only the beginning: the command does not look at   *)
(* bytesRead, and what was not read keeps its value from the read before.  *)
(* The layout of a section is that of the build of the extension: of a     *)
(* target of the other width the command reads other links than there are. *)
(***************************************************************************)
EXTENDS Extension

CONSTANTS
  Sections,        (* Entries of critical sections.                        *)
  csListOffset,    (* The head of their list.                              *)
  Lists,           (* Forward links the command may read.                  *)
  Creator,         (* Creator[s]: the CreatorBackTraceIndex of s, a WORD,  *)
                   (* and CreatorBackTraceIndexHigh.                       *)
  WordSize,        (* 2^16: the values of a WORD.                          *)
  BuildWidth,      (* The pointer width of the extension's build.          *)
  NoTrace,         (* No trace printed,                                    *)
  Unreadable       (* or that it cannot be read.                           *)

Links == Sections \cup {csListOffset}

WORD == 0 .. WordSize - 1
DWORDs == WordSize * WordSize

(* The number of the trace of the creation of s, its index.                *)
CreatorTrace(s) == Creator[s].high * WordSize + Creator[s].low

(* A DWORD can hold the size of the database, of either width.             *)
ASSUME SectionsAssumption ==
  /\ csListOffset \notin Sections
  /\ Lists # {} /\ Lists \subseteq [Links -> Links]
  /\ WordSize \in Nat \ {0}
  /\ BuildWidth \in Widths
  /\ Creator \in [Sections -> [high : WORD, low : WORD]]
  /\ \A s \in Sections : CreatorTrace(s) * 8 < DWORDs
  /\ NoTrace \notin Int /\ Unreadable \notin Int /\ NoTrace # Unreadable

VARIABLES
  Flink,              (* The links the command reads.                      *)
  mutexPc,            (* "idle" outside the command.                       *)
  offset,             (* The link the walk is at.                          *)
  lastFlink,          (* csDebug.ProcessLocksList.Flink of the last read.  *)
  found,              (* The sections printed.                             *)
  trace,              (* The trace printed under each of them.             *)
  whole,              (* Whether every read gave all it was asked for, of  *)
                      (* a target of the build's width.                    *)
  gStackTraceDbInit

mutexLocals == <<Flink, offset, lastFlink, found, trace, whole>>
mutexVars == <<mutexPc, mutexLocals, gStackTraceDbInit>>

(* "S_OK" and "E_FAIL" are the results of the command.                     *)
MutexTypeOK ==
  /\ Flink \in Lists
  /\ mutexPc \in {"idle", "walk", "S_OK", "E_FAIL"}
  /\ offset \in Links
  /\ lastFlink \in Links
  /\ found \in SUBSET Sections
  /\ trace \in [Sections -> Int \cup {NoTrace, Unreadable}]
  /\ whole \in BOOLEAN
  /\ gStackTraceDbInit \in BOOLEAN

(* lastFlink is uninitialized before the first read: any link stands for   *)
(* what the stack holds.                                                   *)
MutexLocalsInit ==
  /\ Flink = CHOOSE list \in Lists : TRUE
  /\ offset = csListOffset
  /\ lastFlink = csListOffset
  /\ found = {}
  /\ trace = [s \in Sections |-> NoTrace]
  /\ whole = TRUE

MutexInit ==
  /\ MutexLocalsInit
  /\ mutexPc = "idle"
  /\ gStackTraceDbInit = FALSE

-----------------------------------------------------------------------------
(* The stack trace database.                                               *)

(* index * gPointerWidth, in a DWORD: how far before the end of the        *)
(* database the entry's pointer is.                                        *)
EntryDistance(high, low) ==
  LET index == high * WordSize + low
  IN  (index * gPointerWidth) % DWORDs

(* The trace whose pointer is at that distance, none between two pointers. *)
TraceAt(distance) ==
  IF distance % targetWidth = 0 THEN distance \div targetWidth ELSE NoTrace

Trace(s) == TraceAt(EntryDistance(Creator[s].high, Creator[s].low))

(* Mutated form of QueryStackTraceDatabase: gStackTraceDbInit is set, and  *)
(* all that the function does is inside the test of it.                    *)
QueryOnce(s) ==
  IF gStackTraceDbInit
  THEN trace' = trace /\ UNCHANGED gStackTraceDbInit
  ELSE /\ trace' = [trace EXCEPT ![s] = Trace(s)]
       /\ gStackTraceDbInit' = TRUE

(* QueryStackTraceDatabase, when all its symbols, types and reads are      *)
(* there.  The assignment that would set gStackTraceDbInit is a comment.   *)
QueryStackTraceDatabase(s) ==
  /\ trace' = IF gStackTraceDbInit THEN trace
                                   ELSE [trace EXCEPT ![s] = Trace(s)]
  /\ UNCHANGED gStackTraceDbInit

-----------------------------------------------------------------------------
(* The command.                                                            *)

(* The list is there, and the command has read its head.  Where it is not, *)
(* the command returns with nothing done.                                  *)
MutexBegin(list) ==
  /\ mutexPc = "idle"
  /\ Flink' = list
  /\ offset' = list[csListOffset]
  /\ lastFlink' \in Links
  /\ mutexPc' = "walk"
  /\ whole' = (targetWidth = BuildWidth)
  /\ UNCHANGED <<found, trace, gStackTraceDbInit>>

(* csDebug is read whole.                                                  *)
Visit ==
  /\ mutexPc = "walk"
  /\ offset # csListOffset
  /\ found' = found \cup {offset}
  /\ lastFlink' = Flink[offset]
  /\ offset' = Flink[offset]
  /\ QueryStackTraceDatabase(offset)
  /\ UNCHANGED <<mutexPc, Flink, whole>>

(* Some symbol, type or pointer of the database is not there.              *)
VisitUntraced ==
  /\ mutexPc = "walk"
  /\ offset # csListOffset
  /\ found' = found \cup {offset}
  /\ lastFlink' = Flink[offset]
  /\ offset' = Flink[offset]
  /\ trace' = [trace EXCEPT ![offset] = Unreadable]
  /\ UNCHANGED <<mutexPc, Flink, whole, gStackTraceDbInit>>

(* csDebug is read up to its link, which keeps the value it had, as does   *)
(* IndexHigh: the trace is that of no section in particular, and is left   *)
(* out.                                                                    *)
VisitPart ==
  /\ mutexPc = "walk"
  /\ offset # csListOffset
  /\ found' = found \cup {offset}
  /\ offset' = lastFlink
  /\ whole' = FALSE
  /\ UNCHANGED <<mutexPc, Flink, lastFlink, trace, gStackTraceDbInit>>

VisitFails ==
  /\ mutexPc = "walk"
  /\ offset # csListOffset
  /\ mutexPc' = "E_FAIL"
  /\ UNCHANGED <<mutexLocals, gStackTraceDbInit>>

(* Mutated form of BackAtHead: the condition looks at the next link.       *)
NextIsHead ==
  /\ mutexPc = "walk"
  /\ offset # csListOffset
  /\ Flink[offset] = csListOffset
  /\ mutexPc' = "S_OK"
  /\ UNCHANGED <<mutexLocals, gStackTraceDbInit>>

BackAtHead ==
  /\ mutexPc = "walk"
  /\ offset = csListOffset
  /\ mutexPc' = "S_OK"
  /\ UNCHANGED <<mutexLocals, gStackTraceDbInit>>

(* The command returns: its locals are gone.                               *)
MutexReturn ==
  /\ mutexPc \in {"S_OK", "E_FAIL"}
  /\ mutexPc' = "idle"
  /\ Flink' = CHOOSE list \in Lists : TRUE
  /\ offset' = csListOffset
  /\ lastFlink' = csListOffset
  /\ found' = {}
  /\ trace' = [s \in Sections |-> NoTrace]
  /\ whole' = TRUE
  /\ UNCHANGED gStackTraceDbInit

MutexWalk ==
  \/ Visit \/ VisitUntraced \/ VisitPart \/ VisitFails \/ BackAtHead
  \/ MutexReturn

-----------------------------------------------------------------------------
(* Properties.                                                             *)

(* Sections that, with the head, hold the links out of them.               *)
LinkClosed(list, S) ==
  \A l \in S \cup {csListOffset} : list[l] \in S \cup {csListOffset}

(* The sections on a list: those in every such set.                        *)
OnList(list) ==
  {s \in Sections : \A S \in SUBSET Sections : LinkClosed(list, S) => s \in S}

(* Whether the list comes back to its head.                                *)
Returns ==
  \E l \in OnList(Flink) \cup {csListOffset} : Flink[l] = csListOffset

(* mozmutex prints only sections that are on the list, also when it fails  *)
(* half way, and when it succeeds it has printed all of them.              *)
WholeListFound ==
  whole =>
    /\ found \subseteq OnList(Flink)
    /\ mutexPc = "S_OK" => found = OnList(Flink)

(* Under every section that is printed is the trace of its own creation,   *)
(* from both words of its index, wherever in the list it is and whichever  *)
(* traces before it could be read, if pointers have the width they had     *)
(* when the extension was loaded.                                          *)
SectionsTraced ==
  whole /\ gPointerWidth = targetWidth =>
    \A s \in found : trace[s] \in {CreatorTrace(s), Unreadable}

=============================================================================
