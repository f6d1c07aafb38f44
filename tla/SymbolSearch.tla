---------------------------- MODULE SymbolSearch ----------------------------
(***************************************************************************)
(* bpx of src/bpsyms.cpp: the symbols of a module whose names match a      *)
(* pattern.  The search begins at the part of the pattern before its first *)
(* wildcard, in the order of mSymsByName, and matches without case.        *)
(***************************************************************************)
EXTENDS Integers, Sequences, SequencesExt

CONSTANTS
  Code,               (* The code of each character, by which they sort.   *)
  LowerCase,          (* The lower case of each.                           *)
  Names,              (* Tables: sets of names, which are sequences.       *)
  Globs               (* Patterns.                                         *)

Wildcards == {"*", "?", "+"}

(* What GlobToRegex hands on to the regex, and means more there than       *)
(* itself: no pattern modelled has one.                                    *)
Metacharacters == {"#", "[", "]", "(", ")", "{", "}", ".", "|", "^", "$", "\\"}

(* A wildcard has no other case, and is that of no other character.        *)
ASSUME SearchAssumption ==
  /\ Code \in [DOMAIN Code -> Int]
  /\ LowerCase \in [DOMAIN Code -> DOMAIN Code]
  /\ \A c \in DOMAIN Code :
       c \in Wildcards \/ LowerCase[c] \in Wildcards => LowerCase[c] = c
  /\ Names # {} /\ \A names \in Names : names \subseteq Seq(DOMAIN Code)
  /\ Globs # {} /\ Globs \subseteq Seq(DOMAIN Code \ Metacharacters)

VARIABLES
  symsByName,         (* The names of the module found.                    *)
  symGlob,
  itr,                (* The names the search has passed.                  *)
  matched,            (* The names printed.                                *)
  searchPc

searchVars == <<symsByName, symGlob, itr, matched, searchPc>>

SearchTypeOK ==
  /\ symsByName \in Names
  /\ symGlob \in Globs
  /\ itr \subseteq symsByName
  /\ matched \subseteq symsByName
  /\ searchPc \in {"idle", "search", "S_OK"}

SearchInit ==
  /\ symsByName = CHOOSE names \in Names : TRUE
  /\ symGlob = CHOOSE glob \in Globs : TRUE
  /\ itr = {}
  /\ matched = {}
  /\ searchPc = "idle"

-----------------------------------------------------------------------------

(* std::string's order.                                                    *)
Before(a, b) ==
  \/ IsStrictPrefix(a, b)
  \/ \E k \in DOMAIN a \cap DOMAIN b :
       /\ SubSeq(a, 1, k - 1) = SubSeq(b, 1, k - 1)
       /\ Code[a[k]] < Code[b[k]]

(* Mutated form of InitialNonGlobChars: '?' is taken for a letter.         *)
UpToStar(glob) ==
  LET wild == SelectInSeq(glob, LAMBDA c : c \in {"*", "+", "#", "["})
  IN  IF wild = 0 THEN glob ELSE SubSeq(glob, 1, wild - 1)

InitialNonGlobChars(glob) ==
  LET wild == SelectInSeq(glob, LAMBDA c : c \in Wildcards \cup {"#", "["})
  IN  IF wild = 0 THEN glob ELSE SubSeq(glob, 1, wild - 1)

(* What a character of the glob takes of the name, from n up to m: "*"     *)
(* becomes ".*", "?" ".?" and "+" ".+".                                    *)
Takes(c, name, n, m) ==
  CASE c = "*" -> m >= n
    [] c = "?" -> m \in {n, n + 1}
    [] c = "+" -> m > n
    [] OTHER -> m = n + 1 /\ LowerCase[c] = LowerCase[name[n]]

(* std::regex_match: the glob from g on takes the name from any of from[g] *)
(* to its end.                                                             *)
RegexMatch(glob, name) ==
  LET from[g \in 1 .. Len(glob) + 1] ==
        IF g > Len(glob) THEN {Len(name) + 1}
        ELSE {n \in 1 .. Len(name) + 1 :
                \E m \in from[g + 1] : Takes(glob[g], name, n, m)}
  IN  1 \in from[1]

(* What comes before first: lower_bound, and one back.                     *)
BeforeFirst(names, glob) ==
  LET prefix == InitialNonGlobChars(glob)
      below == {name \in names : Before(name, prefix)}
  IN  {name \in below : \E other \in below : Before(name, other)}

-----------------------------------------------------------------------------

(* A module that is filed; first is set to where the search begins.  With  *)
(* no such module, bpx returns with nothing done.                          *)
SearchBegin(names, glob) ==
  /\ searchPc = "idle"
  /\ symsByName' = names
  /\ symGlob' = glob
  /\ itr' = BeforeFirst(names, glob)
  /\ matched' = {}
  /\ searchPc' = "search"

(* The next name, printed if it matches.                                   *)
NextName ==
  /\ searchPc = "search"
  /\ \E name \in symsByName \ itr :
       /\ \A other \in symsByName \ itr : ~Before(other, name)
       /\ itr' = itr \cup {name}
       /\ matched' = IF RegexMatch(symGlob, name) THEN matched \cup {name}
                                                  ELSE matched
  /\ UNCHANGED <<symsByName, symGlob, searchPc>>

LastName ==
  /\ searchPc = "search"
  /\ itr = symsByName
  /\ searchPc' = "S_OK"
  /\ UNCHANGED <<symsByName, symGlob, itr, matched>>

SearchReturn ==
  /\ searchPc = "S_OK"
  /\ symsByName' = CHOOSE names \in Names : TRUE
  /\ symGlob' = CHOOSE glob \in Globs : TRUE
  /\ itr' = {}
  /\ matched' = {}
  /\ searchPc' = "idle"

SearchWalk == NextName \/ LastName \/ SearchReturn

-----------------------------------------------------------------------------

(* What the wildcards of a glob stand for: any characters of the name, at  *)
(* most one, or at least one; here those from n up to m.                   *)
StandsFor(c, name, n, m) ==
  CASE c = "*" -> m - n >= 0
    [] c = "?" -> m - n \in {0, 1}
    [] c = "+" -> m - n >= 1
    [] OTHER -> m - n = 1 /\ name[n] = c

(* Whether a name is a glob with its wildcards filled.                     *)
Fits(glob, name) ==
  \E cut \in [1 .. Len(glob) + 1 -> 1 .. Len(name) + 1] :
    /\ cut[1] = 1 /\ cut[Len(glob) + 1] = Len(name) + 1
    /\ \A g \in 1 .. Len(glob) : StandsFor(glob[g], name, cut[g], cut[g + 1])

InOneCase(text) == [k \in DOMAIN text |-> LowerCase[text[k]]]

(* bpx prints only names that fit the pattern, in either case, and every   *)
(* name that fits it letter by letter: none of them sorts before the name  *)
(* it begins at.  A name that fits in the other case may, and is missed.   *)
SearchFindsAll ==
  searchPc = "S_OK" =>
    \A name \in symsByName :
      /\ Fits(symGlob, name) => name \in matched
      /\ name \in matched => Fits(InOneCase(symGlob), InOneCase(name))

=============================================================================
