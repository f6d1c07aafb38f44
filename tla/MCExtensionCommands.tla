------------------------ MODULE MCExtensionCommands ------------------------
(* Lists, stacks, documents, images and tables of symbols for a session.   *)
EXTENDS ExtensionCommands

CONSTANTS s1, s2, s3, head, f1, f2, f3, w1, w2, w3

(* Lists that begin with s1; the others are these with other names.        *)
MCLists == {list \in [{s1, s2, s3, head} -> {s1, s2, s3, head}] :
              /\ list[head] \in {s1, head}
              /\ list[s1] \in {s1, s2, head}}

(* Indices with a high word only, a low word only, and both.               *)
MCCreator ==
  [s \in {s1, s2, s3} |-> CASE s = s1 -> [high |-> 1, low |-> 0]
                            [] s = s2 -> [high |-> 0, low |-> 15]
                            [] OTHER -> [high |-> 1, low |-> 15]]

MCStacks == [ActiveFrame : {f1, NullPtr},
             Previous : [{f1, f2, f3} -> {f1, f2, f3, NullPtr}]]

MCTitles == {<<"a">>, <<"A">>, <<"a", "b">>, <<"a", "B">>}
MCLower == [c \in {"a", "A", "b", "B"} |-> IF c = "A" THEN "a"
                                           ELSE IF c = "B" THEN "b" ELSE c]

(* A blank line, no break at the end, an empty last line, an empty text.   *)
MCTexts == {<<2, 1, 3>>, <<1, 0>>, <<0>>}

Doc(title, text) == [title |-> title, text |-> text, caret |-> 0]
Open1(title, text) == [w \in {w1, w2, w3} |->
                         IF w = w1 THEN Doc(title, text) ELSE Closed]
MCOpenDocs ==
  {Open1(<<"A">>, text) : text \in MCTexts}
  \cup {[Open1(<<"A">>, text) EXCEPT ![w2] = Doc(<<"a", "b">>, <<2, 1, 3>>),
                                     ![w3] = Doc(<<"a">>, <<1, 0>>)] :
          text \in MCTexts}
MCFrameOf == [w \in {w1, w2, w3} |-> IF w = w3 THEN Foreign ELSE Own]

(* Builds that differ in one field or in age: without padding, the digits  *)
(* of one field would run into those of the next.                          *)
Cv(guid, age, pdb) ==
  [type |-> "CODEVIEW", guid |-> guid, age |-> age, pdb |-> pdb]
Misc == [type |-> "MISC", guid |-> <<0, 0>>, age |-> 0, pdb |-> "xul"]
MCDirectories ==
  {<<Cv(<<a, b>>, age, pdb)>> : a \in {0, 1, 2, 5}, b \in {0, 1, 3},
                                age \in {0, 1, 2, 5}, pdb \in {"xul", "nss"}}
  \cup {<< >>, <<Misc>>,
        <<Misc, Cv(<<5, 1>>, 2, "xul"), Cv(<<2, 3>>, 1, "nss")>>}

MCCode == [c \in {"a", "A", "1", "*", "?", "+"} |->
             CASE c = "*" -> 42 [] c = "+" -> 43 [] c = "1" -> 49
               [] c = "?" -> 63 [] c = "A" -> 65 [] OTHER -> 97]
MCLowerCase == [c \in {"a", "A", "1", "*", "?", "+"} |->
                  IF c = "A" THEN "a" ELSE c]
MCNames == SUBSET {<<"a">>, <<"a", "1">>, <<"A", "1">>, <<"1", "a">>,
                   <<"a", "a", "1">>}
MCGlobs == {<<"a">>, <<"*">>, <<"a", "?">>, <<"a", "*">>, <<"A", "+">>,
            <<"*", "1">>, <<"a", "+", "1">>, <<"?", "a">>}

MCFrameWords == <<11, 12, 13>>
MCGuidWidths == <<3, 2>>

=============================================================================
