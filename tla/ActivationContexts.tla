------------------------- MODULE ActivationContexts -------------------------
(***************************************************************************)
(* The actctx command of src/actctx.cpp: it prints the activation contexts *)
(* on the stack of the current thread, from the active frame back along    *)
(* the Previous pointers, numbered from 0.  Any read, and any look-up of a *)
(* field's offset, may fail.                                               *)
(***************************************************************************)
EXTENDS Integers

CONSTANTS
  Frames,          (* RTL_ACTIVATION_CONTEXT_STACK_FRAMEs.                 *)
  NullPtr,
  Stacks,          (* Active frame and Previous pointers that the target's *)
                   (* memory may hold.                                     *)
  IndexSize        (* 2^32: the values of a ULONG.                         *)

Pointers == Frames \cup {NullPtr}

ASSUME ContextsAssumption ==
  /\ NullPtr \notin Frames
  /\ Stacks # {}
  /\ Stacks \subseteq [ActiveFrame : Pointers, Previous : [Frames -> Pointers]]
  /\ IndexSize \in Nat \ {0}

VARIABLES
  stack,               (* The stack in the target's memory.                *)
  actctxPc,            (* "idle" outside the command.                      *)
  curActCtxFramePtr,
  index,               (* The number of the next context.                  *)
  printed              (* <<number, frame>> of the contexts printed.       *)

actctxLocals == <<stack, curActCtxFramePtr, index, printed>>
actctxVars == <<actctxPc, actctxLocals>>

ActctxTypeOK ==
  /\ stack \in Stacks
  /\ actctxPc \in {"idle", "body", "test", "ok", "failed"}
  /\ curActCtxFramePtr \in Pointers
  /\ index \in 0 .. IndexSize - 1
  /\ printed \in SUBSET ((0 .. IndexSize - 1) \X Frames)

ActctxLocalsInit ==
  /\ stack = CHOOSE s \in Stacks : TRUE
  /\ curActCtxFramePtr = NullPtr
  /\ index = 0
  /\ printed = {}

ActctxInit ==
  /\ ActctxLocalsInit
  /\ actctxPc = "idle"

-----------------------------------------------------------------------------

(* GetCurrentThreadTeb, GetFieldOffset of four fields, and the pointers    *)
(* from the TEB to the active frame.  If one of them fails, the command    *)
(* returns with nothing done.                                              *)
ActctxBegin(s) ==
  /\ actctxPc = "idle"
  /\ stack' = s
  /\ curActCtxFramePtr' = s.ActiveFrame
  /\ actctxPc' = "body"
  /\ UNCHANGED <<index, printed>>

(* Nothing can be read at the null pointer, nor where reads fail.          *)
ReadFails ==
  /\ actctxPc = "body"
  /\ actctxPc' = "failed"
  /\ UNCHANGED actctxLocals

(* The context is read and printed.                                        *)
PrintContext ==
  /\ actctxPc = "body"
  /\ curActCtxFramePtr # NullPtr
  /\ printed' = printed \cup {<<index, curActCtxFramePtr>>}
  /\ index' = (index + 1) % IndexSize
  /\ actctxPc' = "test"
  /\ UNCHANGED <<stack, curActCtxFramePtr>>

(* Mutated form of ReadPrevious: Previous is read into another variable.   *)
StayAtFrame ==
  /\ actctxPc = "test"
  /\ actctxPc' = "body"
  /\ UNCHANGED actctxLocals

(* Mutated form of ReadPrevious: the loop ends at the last frame but one.  *)
StopAtLast ==
  LET previous == stack.Previous[curActCtxFramePtr]
  IN  /\ actctxPc = "test"
      /\ curActCtxFramePtr' = previous
      /\ actctxPc' = IF \/ previous = NullPtr
                        \/ stack.Previous[previous] = NullPtr
                     THEN "ok" ELSE "body"
      /\ UNCHANGED <<stack, index, printed>>

(* Previous is read, and the condition of the loop evaluated.              *)
ReadPrevious ==
  LET previous == stack.Previous[curActCtxFramePtr]
  IN  /\ actctxPc = "test"
      /\ curActCtxFramePtr' = previous
      /\ actctxPc' = IF previous = NullPtr THEN "ok" ELSE "body"
      /\ UNCHANGED <<stack, index, printed>>

PreviousUnread ==
  /\ actctxPc = "test"
  /\ actctxPc' = "failed"
  /\ UNCHANGED actctxLocals

ActctxReturn ==
  /\ actctxPc \in {"ok", "failed"}
  /\ actctxPc' = "idle"
  /\ stack' = CHOOSE s \in Stacks : TRUE
  /\ curActCtxFramePtr' = NullPtr
  /\ index' = 0
  /\ printed' = {}

ActctxWalk ==
  \/ ReadFails \/ PrintContext \/ ReadPrevious \/ PreviousUnread
  \/ ActctxReturn

-----------------------------------------------------------------------------
(* Properties.                                                             *)

(* The frames whose contexts are on the stack: those in every set that     *)
(* holds the active frame and the previous one of each of its members.     *)
OnStack ==
  {f \in Frames : \A S \in SUBSET Frames :
     (/\ stack.ActiveFrame \in S \cup {NullPtr}
      /\ \A g \in S : stack.Previous[g] \in S \cup {NullPtr}) => f \in S}

(* Whether the stack has an end.                                           *)
Ends == \E f \in OnStack : stack.Previous[f] = NullPtr

(* actctx prints only contexts of the stack, each under one number; the    *)
(* numbers follow the stack without a gap; and when the command succeeds   *)
(* none is missing.                                                        *)
ContextsInOrder ==
  Ends =>
    /\ \A p \in printed :
         /\ p[2] \in OnStack
         /\ p[1] = 0 <=> p[2] = stack.ActiveFrame
         /\ \A q \in printed :
              q[1] = p[1] + 1 <=> q[2] = stack.Previous[p[2]]
    /\ actctxPc = "ok" => {p[2] : p \in printed} = OnStack

=============================================================================
