-------------------------- MODULE ExtensionCommands --------------------------
(***************************************************************************)
(* The commands that only read the target or talk to WinDbg, in a session. *)
(* The engine's one thread runs them: none begins before the one before it *)
(* has returned.  What lasts from command to command is the extension's    *)
(* globals: the pointer width it was loaded with, and the window found.    *)
(* Loading symbols is part of bploadsyms; here, the way to their file.     *)
(***************************************************************************)
EXTENDS CriticalSections, ActivationContexts, FunctionParameters, GotoLine,
        SymbolPath, SymbolSearch

CONSTANTS
  Lines,           (* Arguments of gotoline.                               *)
  OpenDocs         (* Documents that may be open when it begins.           *)

(* WinDbg opens a file once.                                               *)
ASSUME SessionAssumption ==
  /\ Lines \subseteq 0 .. MaxLine
  /\ OpenDocs \subseteq [Windows -> {Closed} \cup Documents]
  /\ \A open \in OpenDocs : \A v, w \in Windows :
       /\ open[v] # Closed /\ open[w] # Closed /\ FrameOf[v] = FrameOf[w]
       /\ InLower(open[v].title) = InLower(open[w].title)
       => v = w

walkVars == <<mutexVars, actctxVars>>
otherVars == <<paramsVars, gotoVars, pathVars, searchVars>>
sessionVars == <<extensionVars, walkVars, otherVars>>

SessionTypeOK ==
  /\ ExtensionTypeOK /\ MutexTypeOK /\ ActctxTypeOK
  /\ ParamsTypeOK /\ GotoTypeOK /\ PathTypeOK /\ SearchTypeOK

SessionInit ==
  /\ ExtensionInit /\ MutexInit /\ ActctxInit
  /\ ParamsInit /\ GotoInit /\ PathInit /\ SearchInit

AllIdle ==
  /\ {mutexPc, actctxPc, gotoPc, pathPc, searchPc} = {"idle"}
  /\ paramsResult = "none"

Ready == loaded /\ AllIdle

-----------------------------------------------------------------------------
(* The steps of a command, which leave the others alone.                   *)

OnlyMutex == UNCHANGED <<extensionVars, actctxVars, otherVars>>
OnlyActctx == UNCHANGED <<extensionVars, mutexVars, otherVars>>
OnlyParams ==
  UNCHANGED <<extensionVars, walkVars, gotoVars, pathVars, searchVars>>
OnlyGoto ==
  UNCHANGED <<extensionVars, walkVars, paramsVars, pathVars, searchVars>>
OnlyPath ==
  UNCHANGED <<extensionVars, walkVars, paramsVars, gotoVars, searchVars>>
OnlySearch ==
  UNCHANGED <<extensionVars, walkVars, paramsVars, gotoVars, pathVars>>

(* The user gives a command.                                               *)
Command ==
  /\ Ready
  /\ \/ OnlyMutex /\ \E list \in Lists : MutexBegin(list)
     \/ OnlyActctx /\ \E s \in Stacks : ActctxBegin(s)
     \/ OnlyParams /\ \E n \in 0 .. Len(FrameWords) : Params(n)
     \/ /\ OnlyGoto
        /\ \E title \in Titles, line \in Lines, open \in OpenDocs :
             \E others \in SUBSET {Foreign} :
               GotoBegin(title, line, others, open)
     \/ OnlyPath /\ \E dir \in Directories : PathBegin(dir)
     \/ OnlySearch /\ \E names \in Names, glob \in Globs :
                        SearchBegin(names, glob)

(* The command that runs takes its next step.                              *)
Step ==
  \/ MutexWalk /\ OnlyMutex
  \/ ActctxWalk /\ OnlyActctx
  \/ ParamsReturn /\ OnlyParams
  \/ GotoWalk /\ OnlyGoto
  \/ PathWalk /\ OnlyPath
  \/ SearchWalk /\ OnlySearch

(* The extension is loaded and unloaded, and another target debugged, from *)
(* the engine's own commands.  The globals go with the library.            *)
LoadExtension ==
  /\ AllIdle
  /\ \E hr \in IsPointer64Bit : DebugExtensionInitialize(hr)
  /\ UNCHANGED <<walkVars, otherVars>>

UnloadExtension ==
  /\ AllIdle
  /\ Unload
  /\ sHwndWindbg' = NullWnd
  /\ gStackTraceDbInit' = FALSE
  /\ UNCHANGED <<mutexPc, mutexLocals, actctxVars, paramsVars, pathVars,
                 searchVars, inWindbg, gotoPc, gotoLocals>>

NextTarget ==
  /\ AllIdle
  /\ \E width \in Widths : DebugTarget(width)
  /\ UNCHANGED <<walkVars, otherVars>>

SessionNext ==
  \/ Command
  \/ Step
  \/ UserActs /\ OnlyGoto
  \/ LoadExtension
  \/ UnloadExtension
  \/ NextTarget

(* A command runs on until it returns; nobody else need do anything.       *)
SessionSpec ==
  SessionInit /\ [][SessionNext]_sessionVars /\ WF_sessionVars(Step)

-----------------------------------------------------------------------------

(* What the target's memory or a partial read can do to a walk.            *)
Endless ==
  \/ mutexPc = "walk" /\ ~(Returns /\ whole)
  \/ actctxPc # "idle" /\ ~Ends

(* Every command returns, and the debugger's prompt with it, if the lists  *)
(* in the target's memory come to their ends and are read whole: neither   *)
(* walk checks that it gets anywhere.                                      *)
CommandsReturn == ~AllIdle ~> (AllIdle \/ Endless)

=============================================================================
