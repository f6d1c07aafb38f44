----------------------------- MODULE SymbolText -----------------------------
(***************************************************************************)
(* The string helpers of src/bpsyms.cpp.  A text is a sequence of words:   *)
(* the characters the parsers look for are words of their own, what is     *)
(* between them is never taken apart.                                      *)
(***************************************************************************)
EXTENDS Integers, Sequences, SequencesExt

(* The space between the tokens of a line, and those that trim drops.       *)
Space == " "
Spaces == {Space, "\r"}

(* trim: spaces at the end go.                                             *)
Trim(text) ==
  LET kept == {p \in DOMAIN text : text[p] \notin Spaces}
  IN  SubSeq(text, 1, Max(kept \cup {0}))

(* find(delim, i) of split: one past the end where there is none.          *)
NextDelim(text, delim, i) ==
  Min({p \in i .. Len(text) : text[p] = delim} \cup {Len(text) + 1})

(* split: at most max tokens, empty ones where delimiters meet.  j[k] is   *)
(* where the k-th token ends; the last one allowed keeps all that is left. *)
Split(text, delim, max) ==
  LET j[k \in Nat] == IF k = 0 THEN 0
                      ELSE IF k < max THEN NextDelim(text, delim, j[k - 1] + 1)
                      ELSE Len(text) + 1
  IN  [k \in {m \in 1 .. max : j[m - 1] <= Len(text)} |->
         SubSeq(text, j[k - 1] + 1, j[k] - 1)]

(* startswith.                                                             *)
StartsWith(text, literal) == IsPrefix(literal, text)

(* find(word, from): 0 when it is not there.                               *)
Find(text, word, from) ==
  SelectInSubSeq(text, from, Len(text), LAMBDA w : w = word)

=============================================================================
