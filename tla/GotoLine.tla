------------------------------ MODULE GotoLine ------------------------------
(***************************************************************************)
(* The gotoline command of src/uiext.cpp: it finds the window of a source  *)
(* file in WinDbg and moves its caret, message by message.  WinDbg's own   *)
(* thread goes on meanwhile: the user opens, closes and edits documents.   *)
(* The frame window found is kept, and may be that of another WinDbg.  The *)
(* extension may also be in a debugger without windows.                    *)
(***************************************************************************)
EXTENDS Integers, Sequences, SequencesExt

CONSTANTS
  Own,             (* The frame window of the WinDbg the extension is in,  *)
  Foreign,         (* and that of another one.                             *)
  Windows,         (* Document windows; a handle is not used again.        *)
  FrameOf,         (* The frame each of them is in.                        *)
  Titles,          (* Titles of documents: sequences of letters.           *)
  Lower,           (* The lower case of each letter.                       *)
  Texts,           (* Contents: the lengths of the lines, each but the     *)
                   (* last with its line break.                            *)
  MaxLine,         (* Bound on the line asked for.                         *)
  NullWnd

Closed == << >>

ASSUME GotoAssumption ==
  /\ Own # Foreign /\ NullWnd \notin {Own, Foreign} \cup Windows
  /\ FrameOf \in [Windows -> {Own, Foreign}]
  /\ Titles # {} /\ MaxLine \in Nat
  /\ Texts \subseteq Seq(Nat)
  /\ \A text \in Texts : /\ Len(text) > 0
                         /\ \A n \in 1 .. Len(text) - 1 : text[n] > 0

VARIABLES
  inWindbg,        (* Whether the debugger is WinDbg, with its frame.      *)
  sHwndWindbg,     (* The frame found.                                     *)
  frames,          (* The frames that are there.                           *)
  docs,            (* docs[w]: title, text and caret of a document.        *)
  gotoPc,
  path, lineNo,    (* The arguments.                                       *)
  richEditWindow,  (* The document found; each has its rich edit control.  *)
  charIndex,       (* The answer to EM_LINEINDEX.                          *)
  disturbed        (* Whether the user did anything since the command.     *)

gotoLocals == <<frames, docs, path, lineNo, richEditWindow, charIndex,
                disturbed>>
gotoArgs == <<inWindbg, path, lineNo>>
gotoVars == <<inWindbg, sHwndWindbg, gotoPc, gotoLocals>>

Documents == [title : Titles, text : Texts, caret : Nat]

OwnFrames == IF inWindbg THEN {Own} ELSE {}

GotoTypeOK ==
  /\ inWindbg \in BOOLEAN
  /\ sHwndWindbg \in {Own, Foreign, NullWnd}
  /\ frames \in {OwnFrames, OwnFrames \cup {Foreign}}
  /\ \A w \in Windows : docs[w] = Closed \/ docs[w] \in Documents
  /\ gotoPc \in {"idle", "frame", "window", "count", "index", "select",
                 "S_OK", "E_FAIL"}
  /\ path \in Titles
  /\ lineNo \in 0 .. MaxLine
  /\ richEditWindow \in Windows \cup {NullWnd}
  /\ charIndex \in Nat
  /\ disturbed \in BOOLEAN

GotoLocalsInit ==
  /\ frames = OwnFrames
  /\ docs = [w \in Windows |-> Closed]
  /\ path = CHOOSE title \in Titles : TRUE
  /\ lineNo = 0
  /\ richEditWindow = NullWnd
  /\ charIndex = 0
  /\ disturbed = FALSE

GotoInit ==
  /\ inWindbg \in BOOLEAN
  /\ GotoLocalsInit
  /\ sHwndWindbg = NullWnd
  /\ gotoPc = "idle"

-----------------------------------------------------------------------------
(* Windows and rich edit controls.                                         *)

IsOpen(w) == docs[w] # Closed /\ FrameOf[w] \in frames

(* The characters before line n of a text, counted from 0.                 *)
LineStart(text, n) ==
  LET start[k \in 0 .. Len(text)] ==
        IF k = 0 THEN 0 ELSE start[k - 1] + text[k]
  IN  start[n]

(* The line a position is on.                                              *)
LineAt(text, pos) ==
  CHOOSE n \in 0 .. Len(text) - 1 :
    /\ LineStart(text, n) <= pos
    /\ n = Len(text) - 1 \/ pos < LineStart(text, n + 1)

(* The answers of a control to messages; a window that is gone gives 0.    *)
LineCount(w) == IF IsOpen(w) THEN Len(docs[w].text) ELSE 0

LineIndex(w, n) ==
  IF ~IsOpen(w) THEN 0
  ELSE IF n < Len(docs[w].text) THEN LineStart(docs[w].text, n) ELSE -1

(* EM_SETSEL goes no further than the end of the text.                     *)
SetSel(w, pos) ==
  LET end == LineStart(docs[w].text, Len(docs[w].text))
  IN  IF IsOpen(w)
      THEN docs' = [docs EXCEPT ![w].caret = IF pos < end THEN pos ELSE end]
      ELSE UNCHANGED docs

InLower(title) == [k \in DOMAIN title |-> Lower[title[k]]]

(* Mutated form of IsTitled: the length of the path, not that of a path.   *)
StartsAsTitled(w) ==
  LET text == docs[w].title
  IN  IsPrefix(InLower(path), InLower(text))

(* _wcsnicmp.                                                              *)
IsTitled(w) == InLower(docs[w].title) = InLower(path)

-----------------------------------------------------------------------------
(* The command.                                                            *)

(* gotoline with its arguments, WinDbg's windows being as they may be: no  *)
(* other command looks at them.  With arguments that are none it returns   *)
(* with nothing done.                                                      *)
GotoBegin(title, line, others, someDocs) ==
  /\ gotoPc = "idle"
  /\ path' = title
  /\ lineNo' = line
  /\ frames' = OwnFrames \cup others
  /\ docs' = someDocs
  /\ gotoPc' = "frame"
  /\ UNCHANGED <<inWindbg, sHwndWindbg, richEditWindow, charIndex, disturbed>>

Fail ==
  /\ gotoPc' = "E_FAIL"
  /\ UNCHANGED <<inWindbg, sHwndWindbg, gotoLocals>>

(* The frame of the last time, or the one nearest on the screen.           *)
FindWindbgWindow ==
  /\ gotoPc = "frame"
  /\ sHwndWindbg' \in IF sHwndWindbg = NullWnd THEN frames ELSE {sHwndWindbg}
  /\ gotoPc' = "window"
  /\ UNCHANGED <<inWindbg, gotoLocals>>

NoWindbgWindow ==
  /\ gotoPc = "frame"
  /\ sHwndWindbg = NullWnd
  /\ frames = {}
  /\ Fail

Found == {w \in Windows :
            IsOpen(w) /\ FrameOf[w] = sHwndWindbg /\ IsTitled(w)}

(* FindRicheditWindow: the documents of the frame, in any order.           *)
FindRicheditWindow ==
  /\ gotoPc = "window"
  /\ richEditWindow' \in Found
  /\ gotoPc' = "count"
  /\ UNCHANGED <<gotoArgs, sHwndWindbg, frames, docs, charIndex, disturbed>>

NoRicheditWindow ==
  /\ gotoPc = "window"
  /\ Found = {}
  /\ Fail

InBounds(line, count) == 1 <= line /\ line <= count

GetLineCount ==
  /\ gotoPc = "count"
  /\ InBounds(lineNo, LineCount(richEditWindow))
  /\ gotoPc' = "index"
  /\ UNCHANGED <<inWindbg, sHwndWindbg, gotoLocals>>

OutOfBounds ==
  /\ gotoPc = "count"
  /\ ~InBounds(lineNo, LineCount(richEditWindow))
  /\ Fail

(* Mutated form of GetLineIndex: -1 is not looked for.                     *)
TakeLineIndex ==
  /\ gotoPc = "index"
  /\ charIndex' = LineIndex(richEditWindow, lineNo - 1)
  /\ gotoPc' = "select"
  /\ UNCHANGED <<gotoArgs, sHwndWindbg, frames, docs, richEditWindow,
                 disturbed>>

(* Mutated form of IndexAsked: EM_LINEINDEX counts from 0.                 *)
IndexFromOne(line) == line

IndexAsked(line) == line - 1

GetLineIndex ==
  LET result == LineIndex(richEditWindow, IndexAsked(lineNo))
  IN  /\ gotoPc = "index"
      /\ result # -1
      /\ charIndex' = result
      /\ gotoPc' = "select"
      /\ UNCHANGED <<gotoArgs, sHwndWindbg, frames, docs, richEditWindow,
                     disturbed>>

NoLineIndex ==
  /\ gotoPc = "index"
  /\ LineIndex(richEditWindow, IndexAsked(lineNo)) = -1
  /\ Fail

(* EM_SETSEL, and EM_SCROLLCARET, which shows the line.                    *)
Select ==
  /\ gotoPc = "select"
  /\ SetSel(richEditWindow, charIndex)
  /\ gotoPc' = "S_OK"
  /\ UNCHANGED <<gotoArgs, sHwndWindbg, frames, richEditWindow, charIndex,
                 disturbed>>

GotoReturn ==
  /\ gotoPc \in {"S_OK", "E_FAIL"}
  /\ gotoPc' = "idle"
  /\ frames' = OwnFrames
  /\ docs' = [w \in Windows |-> Closed]
  /\ path' = CHOOSE title \in Titles : TRUE
  /\ lineNo' = 0
  /\ richEditWindow' = NullWnd
  /\ charIndex' = 0
  /\ disturbed' = FALSE
  /\ UNCHANGED <<inWindbg, sHwndWindbg>>

GotoWalk ==
  \/ FindWindbgWindow \/ NoWindbgWindow
  \/ FindRicheditWindow \/ NoRicheditWindow
  \/ GetLineCount \/ OutOfBounds \/ GetLineIndex \/ NoLineIndex \/ Select
  \/ GotoReturn

-----------------------------------------------------------------------------
(* The user, while the command runs.                                       *)

User ==
  /\ gotoPc \notin {"idle", "S_OK", "E_FAIL"}
  /\ disturbed' = TRUE
  /\ UNCHANGED <<gotoArgs, sHwndWindbg, gotoPc, richEditWindow, charIndex>>

CloseDocument(w) ==
  /\ User
  /\ IsOpen(w)
  /\ docs' = [docs EXCEPT ![w] = Closed]
  /\ UNCHANGED frames

(* The file of a document has changed, and is read again.                  *)
ReloadDocument(w, text) ==
  /\ User
  /\ IsOpen(w)
  /\ docs' = [docs EXCEPT ![w].text = text, ![w].caret = 0]
  /\ UNCHANGED frames

CloseForeign ==
  /\ User
  /\ Foreign \in frames
  /\ frames' = OwnFrames
  /\ UNCHANGED docs

UserActs ==
  \/ \E w \in Windows : CloseDocument(w)
  \/ \E w \in Windows, text \in Texts : ReloadDocument(w, text)
  \/ CloseForeign

-----------------------------------------------------------------------------
(* Properties.                                                             *)

Asked(w) == docs[w] # Closed /\ InLower(docs[w].title) = InLower(path)

(* gotoline moves the caret of no document but the one of the path, in     *)
(* either case, whatever the user closes and reloads between its messages. *)
OnlyAskedMoves ==
  [][\A w \in Windows :
       gotoPc # "idle" /\ gotoPc' \notin {"idle", gotoPc}
         => docs'[w] = docs[w] \/ Asked(w)]_gotoVars

(* Left alone, and with its own WinDbg's frame found, gotoline succeeds    *)
(* when a document of the path has the line, and only then, and its caret  *)
(* is on that line.                                                        *)
CaretOnLine ==
  ~disturbed /\ sHwndWindbg = Own =>
    /\ gotoPc = "S_OK" =>
         /\ Asked(richEditWindow)
         /\ LineAt(docs[richEditWindow].text, docs[richEditWindow].caret) + 1
              = lineNo
    /\ gotoPc = "E_FAIL" =>
         ~ \E w \in Windows :
             /\ FrameOf[w] = Own
             /\ Asked(w)
             /\ lineNo \in 1 .. Len(docs[w].text)

=============================================================================
