------------------------- MODULE FunctionParameters -------------------------
(***************************************************************************)
(* The params command of src/params.cpp: it prints the first words of the  *)
(* current stack frame, the last of them first.  The buffer they are read  *)
(* into comes zeroed; a read may give only the beginning of what it was    *)
(* asked for.  Frames of 64-bit targets are not implemented.               *)
(***************************************************************************)
EXTENDS Extension, Sequences, SequencesExt

CONSTANTS
  FrameWords,      (* The DWORDs from the frame's offset on.               *)
  Garbage          (* What an uninitialized DWORD of the heap may hold.    *)

ASSUME FrameAssumption == FrameWords \in Seq(Nat) /\ Len(FrameWords) > 0

VARIABLES
  numParams,       (* The number asked for.                                *)
  params,          (* The values printed.                                  *)
  paramsResult     (* "none" while the command does not run.               *)

paramsVars == <<numParams, params, paramsResult>>

ParamsTypeOK ==
  /\ numParams \in 0 .. Len(FrameWords)
  /\ params \in Seq({0, Garbage} \cup Range(FrameWords))
  /\ paramsResult \in {"none", "S_OK", "E_NOTIMPL", "E_FAIL"}

ParamsInit ==
  /\ numParams = 0
  /\ params = << >>
  /\ paramsResult = "none"

-----------------------------------------------------------------------------

(* Mutated form of ReadFrame: a buffer from new DWORD[aNumParams].         *)
ReadUninitialized(n, got) ==
  [k \in 1 .. n |-> IF k <= got THEN FrameWords[k] ELSE Garbage]

(* The buffer after a read of n words that gave the first got.             *)
ReadFrame(n, got) ==
  [k \in 1 .. n |-> IF k <= got THEN FrameWords[k] ELSE 0]

GetParams32(n) ==
  /\ gPointerWidth = 4
  /\ \/ /\ \E got \in 0 .. n : params' = Reverse(ReadFrame(n, got))
        /\ paramsResult' = "S_OK"
     \/ /\ params' = << >>
        /\ paramsResult' = "E_FAIL"

GetParams64 ==
  /\ gPointerWidth = 8
  /\ params' = << >>
  /\ paramsResult' = "E_NOTIMPL"

(* No number, or 0, is refused.                                            *)
Params(n) ==
  /\ paramsResult = "none"
  /\ numParams' = n
  /\ IF n < 1
     THEN params' = << >> /\ paramsResult' = "E_FAIL"
     ELSE GetParams32(n) \/ GetParams64

ParamsReturn ==
  /\ paramsResult # "none"
  /\ numParams' = 0
  /\ params' = << >>
  /\ paramsResult' = "none"

-----------------------------------------------------------------------------

(* params prints as many values as it was asked for, from the highest      *)
(* address down, and nothing but words of the frame and zeros: no value    *)
(* of the debugger's own memory, however little could be read.             *)
ParamsOfFrame ==
  paramsResult = "S_OK" =>
    /\ Len(params) = numParams
    /\ \A k \in 1 .. numParams :
         params[numParams + 1 - k] \in {0, FrameWords[k]}

=============================================================================
