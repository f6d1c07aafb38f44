-------------------------- MODULE SymbolFileProofs --------------------------
(***************************************************************************)
(* Proofs about the reader of .sym files, for every file: whatever records *)
(* it holds, in whatever order, however often and however far it is read.  *)
(*                                                                         *)
(* The two tables of symbols agree by what AddSymbol does.  That they hold *)
(* the records of the file takes three things: what the string helpers     *)
(* make of words they know (Trim, Split, Find), what they therefore make   *)
(* of the line of each kind of record, and what a map filled by emplace    *)
(* holds of the lines it was given, some of them more than once.           *)
(***************************************************************************)
EXTENDS SymbolFile, SequenceTheorems, RecursionTheorems, TLAPS

(* Filing a symbol in both tables keeps them in agreement, also where one  *)
(* of them has its offset or its name already and keeps the earlier one.   *)
LEMMA AddSymbolAgrees ==
  ASSUME TablesAgree, NEW rva, NEW size, NEW name, NEW params,
         AddSymbol(rva, size, name, params)
  PROVE  TablesAgree'
<1> DEFINE symPtr == BpSymbolInfo(rva, size, name, params)
<1>1. CASE UNCHANGED <<mSymsByRva, mSymsByName>>
  BY <1>1 DEF TablesAgree
<1>2. CASE /\ mSymsByRva' = Emplace(mSymsByRva, rva, symPtr)
           /\ mSymsByName' = Emplace(mSymsByName, name, symPtr)
  <2>1. symPtr.mRva = rva /\ symPtr.mName = name
    BY DEF BpSymbolInfo
  <2>2. /\ DOMAIN mSymsByRva' = DOMAIN mSymsByRva \cup {rva}
        /\ \A x \in DOMAIN mSymsByRva : mSymsByRva'[x] = mSymsByRva[x]
        /\ rva \notin DOMAIN mSymsByRva => mSymsByRva'[rva] = symPtr
    BY <1>2 DEF Emplace
  <2>3. /\ DOMAIN mSymsByName' = DOMAIN mSymsByName \cup {name}
        /\ \A x \in DOMAIN mSymsByName : mSymsByName'[x] = mSymsByName[x]
        /\ name \notin DOMAIN mSymsByName => mSymsByName'[name] = symPtr
    BY <1>2 DEF Emplace
  <2>4. ASSUME NEW r \in DOMAIN mSymsByRva'
        PROVE  /\ mSymsByRva'[r].mRva = r
               /\ mSymsByRva'[r].mName \in DOMAIN mSymsByName'
    <3>1. CASE r \in DOMAIN mSymsByRva
      BY <3>1, <2>2, <2>3 DEF TablesAgree
    <3>2. CASE r \notin DOMAIN mSymsByRva
      BY <3>2, <2>1, <2>2, <2>3
    <3>3. QED
      BY <3>1, <3>2
  <2>5. ASSUME NEW n \in DOMAIN mSymsByName'
        PROVE  /\ mSymsByName'[n].mName = n
               /\ mSymsByName'[n].mRva \in DOMAIN mSymsByRva'
    <3>1. CASE n \in DOMAIN mSymsByName
      BY <3>1, <2>2, <2>3 DEF TablesAgree
    <3>2. CASE n \notin DOMAIN mSymsByName
      BY <3>2, <2>1, <2>2, <2>3
    <3>3. QED
      BY <3>1, <3>2
  <2>6. QED
    BY <2>4, <2>5 DEF TablesAgree
<1>3. QED
  BY <1>1, <1>2 DEF AddSymbol

LEMMA TablesAgreeInit == Init => TablesAgree
<1>1. DOMAIN EmptyMap = {}
  BY DEF EmptyMap
<1>2. QED
  BY <1>1 DEF Init, TablesAgree

LEMMA TablesAgreeNext == TablesAgree /\ [Next]_vars => TablesAgree'
<1> SUFFICES ASSUME TablesAgree, [Next]_vars
             PROVE  TablesAgree'
  OBVIOUS
<1>1. CASE UNCHANGED <<mSymsByRva, mSymsByName>>
  BY <1>1 DEF TablesAgree
<1>2. CASE \E rva, size, name, params : AddSymbol(rva, size, name, params)
  BY <1>2, AddSymbolAgrees
<1>3. CASE ReadFunc
  BY <1>2, <1>3 DEF ReadFunc
<1>4. CASE ReadPublic
  BY <1>2, <1>4 DEF ReadPublic
<1>5. CASE \/ \E cb \in Callbacks : Open(cb)
           \/ ReadFile
           \/ ReadLineRecord
           \/ SkipRecord
           \/ EndOfStream
           \/ UNCHANGED vars
  BY <1>1, <1>5
  DEF Open, ReadFile, ReadLineRecord, SkipRecord, EndOfStream, vars, tables
<1>6. QED
  BY <1>3, <1>4, <1>5 DEF Next

(* The two tables of a module agree at every moment, even inside a reader: *)
(* an unfinished or failed one leaves no symbol that only one table knows. *)
THEOREM TablesAlwaysAgree == Spec => []TablesAgree
BY TablesAgreeInit, TablesAgreeNext, PTL DEF Spec

(* Reading on neither changes nor drops a symbol: the pointers that other  *)
(* code holds into the tables, and their order, stay good.                 *)
SymbolsKept ==
  /\ DOMAIN mSymsByRva \subseteq DOMAIN mSymsByRva'
  /\ DOMAIN mSymsByName \subseteq DOMAIN mSymsByName'
  /\ \A rva \in DOMAIN mSymsByRva : mSymsByRva'[rva] = mSymsByRva[rva]
  /\ \A name \in DOMAIN mSymsByName : mSymsByName'[name] = mSymsByName[name]

THEOREM SymbolsAreKept == Spec => [][SymbolsKept]_vars
<1>1. ASSUME NEW rva, NEW size, NEW name, NEW params,
             AddSymbol(rva, size, name, params)
      PROVE  SymbolsKept
  BY <1>1 DEF AddSymbol, SymbolsKept, Emplace
<1>2. ASSUME Next
      PROVE  SymbolsKept
  <2>1. CASE UNCHANGED <<mSymsByRva, mSymsByName>>
    BY <2>1 DEF SymbolsKept
  <2>2. CASE ReadFunc
    BY <1>1, <2>2 DEF ReadFunc
  <2>3. CASE ReadPublic
    BY <1>1, <2>3 DEF ReadPublic
  <2>4. CASE \/ \E cb \in Callbacks : Open(cb)
             \/ ReadFile
             \/ ReadLineRecord
             \/ SkipRecord
             \/ EndOfStream
    BY <2>1, <2>4
    DEF Open, ReadFile, ReadLineRecord, SkipRecord, EndOfStream, tables
  <2>5. QED
    BY <1>2, <2>2, <2>3, <2>4 DEF Next
<1>3. [Next]_vars => [SymbolsKept]_vars
  BY <1>2
<1>4. QED
  BY <1>3, PTL DEF Spec

-----------------------------------------------------------------------------
(* The string helpers.                                                     *)

(* The words of a line.  That a literal is a string is not known to the    *)
(* provers.                                                                *)
Words ==
  STRING \cup {Space, "\r", "m", "FUNC", "PUBLIC", "FILE", "hg", ":", "(",
               "revision"}

Texts == Seq(Words)

LEMMA OneWord ==
  ASSUME NEW text \in Texts, NEW q \in 1 .. Len(text)
  PROVE  SubSeq(text, q, q) = <<text[q]>>
<1>1. Len(text) \in Nat
  BY DEF Texts
<1>2. q \in Nat /\ q \in 1 .. Len(text) /\ q - q + 1 = 1
  BY <1>1
<1>3. /\ SubSeq(text, q, q) \in Seq(Words)
      /\ Len(SubSeq(text, q, q)) = 1
      /\ SubSeq(text, q, q)[1] = text[q]
  BY <1>2 DEF Texts
<1> DEFINE word == SubSeq(text, q, q)
<1> HIDE DEF word
<1>4. word \in Seq(Words) /\ Len(word) = 1 /\ word[1] = text[q]
  BY <1>3, Zenon DEF word
<1>5. word = <<word[1]>>
  BY <1>4
<1>6. QED
  BY <1>4, <1>5, Zenon DEF word

LEMMA Joined ==
  ASSUME NEW a \in Texts, NEW b \in Texts
  PROVE  /\ a \o b \in Texts
         /\ Len(a) \in Nat /\ Len(b) \in Nat /\ Len(a \o b) = Len(a) + Len(b)
         /\ \A p \in 1 .. Len(a) : (a \o b)[p] = a[p]
         /\ \A p \in 1 .. Len(b) : (a \o b)[Len(a) + p] = b[p]
         /\ SubSeq(a \o b, 1, Len(a)) = a
         /\ SubSeq(a \o b, Len(a) + 1, Len(a \o b)) = b
<1>1. /\ a \o b \in Texts
      /\ Len(a) \in Nat /\ Len(b) \in Nat /\ Len(a \o b) = Len(a) + Len(b)
  BY DEF Texts
<1>2. \A p \in 1 .. Len(a) : (a \o b)[p] = a[p]
  BY DEF Texts
<1>3. \A p \in 1 .. Len(b) : (a \o b)[Len(a) + p] = b[p]
  BY DEF Texts
<1>4. SubSeq(a \o b, 1, Len(a)) = a
  BY DEF Texts
<1>5. SubSeq(a \o b, Len(a) + 1, Len(a \o b)) = b
  BY DEF Texts
<1>6. QED
  BY <1>1, <1>2, <1>3, <1>4, <1>5

LEMMA MinIs ==
  ASSUME NEW S \in SUBSET Nat, NEW x \in S, \A y \in S : x <= y
  PROVE  Min(S) = x
<1> DEFINE least == CHOOSE z \in S : \A y \in S : z =< y
<1>1. least \in S /\ \A y \in S : least <= y
  OBVIOUS
<1>2. Min(S) = least
  BY DEF Min
<1> HIDE DEF least
<1>3. QED
  BY <1>1, <1>2

LEMMA MaxIs ==
  ASSUME NEW S \in SUBSET Nat, NEW x \in S, \A y \in S : y <= x
  PROVE  Max(S) = x
<1> DEFINE greatest == CHOOSE z \in S : \A y \in S : z >= y
<1>1. greatest \in S /\ \A y \in S : greatest >= y
  OBVIOUS
<1>2. Max(S) = greatest
  BY DEF Max
<1> HIDE DEF greatest
<1>3. QED
  BY <1>1, <1>2

LEMMA MinType ==
  ASSUME NEW S \in SUBSET Nat, S # {}
  PROVE  Min(S) \in S /\ \A y \in S : Min(S) <= y
<1>1. PICK x \in S : \A y \in S : x <= y
  BY HasLeast
<1>2. QED
  BY <1>1, MinIs

IsNextDelim(text, delim, i, p) ==
  /\ p \in i .. Len(text)
  /\ text[p] = delim
  /\ \A q \in i .. p - 1 : text[q] # delim

LEMMA NextDelimIs ==
  ASSUME NEW text \in Texts, NEW delim, NEW i \in Nat, NEW p,
         IsNextDelim(text, delim, i, p)
  PROVE  NextDelim(text, delim, i) = p
<1> DEFINE ends == {q \in i .. Len(text) : text[q] = delim} \cup {Len(text) + 1}
<1>1. Len(text) \in Nat
  BY DEF Texts
<1>2. ends \in SUBSET Nat /\ p \in ends
  BY <1>1 DEF IsNextDelim
<1>3. ASSUME NEW q \in ends
      PROVE  p <= q
  BY <1>1 DEF IsNextDelim
<1> HIDE DEF ends
<1>4. Min(ends) = p
  BY <1>2, <1>3, MinIs
<1>5. QED
  BY <1>4 DEF NextDelim, ends

LEMMA NextDelimType ==
  ASSUME NEW text \in Texts, NEW delim, NEW i \in Nat
  PROVE  NextDelim(text, delim, i) \in Nat
<1> DEFINE ends == {q \in i .. Len(text) : text[q] = delim} \cup {Len(text) + 1}
<1>1. ends \in SUBSET Nat /\ ends # {}
  BY DEF Texts
<1> HIDE DEF ends
<1>2. Min(ends) \in Nat
  BY <1>1, MinType
<1>3. QED
  BY <1>2 DEF NextDelim, ends

(* The recursion of split: where its tokens end.                           *)
Ends(j, text, delim, max) ==
  j = [k \in Nat |-> IF k = 0 THEN 0
                     ELSE IF k < max THEN NextDelim(text, delim, j[k - 1] + 1)
                     ELSE Len(text) + 1]

LEMMA EndsExist ==
  ASSUME NEW text \in Texts, NEW delim, NEW max \in Nat
  PROVE  \E j \in [Nat -> Nat] : Ends(j, text, delim, max)
<1> DEFINE step == [kn \in Nat \X Nat |->
                      IF kn[1] + 1 < max
                      THEN NextDelim(text, delim, kn[2] + 1)
                      ELSE Len(text) + 1]
<1>1. step \in [Nat \X Nat -> Nat]
  BY NextDelimType DEF Texts
<1>2. \A k, n \in Nat : step[<<k, n>>] = IF k + 1 < max
                                         THEN NextDelim(text, delim, n + 1)
                                         ELSE Len(text) + 1
  OBVIOUS
<1> HIDE DEF step
<1>3. PICK j \in [Nat -> Nat] : Recursive(j, 0, step)
  BY <1>1, RecursionOverNat, Zenon
<1>4. j[0] = 0 /\ \A k \in Nat : j[k + 1] = step[<<k, j[k]>>]
  BY <1>3 DEF Recursive
<1>5. ASSUME NEW k \in Nat, k # 0
      PROVE  j[k] = IF k < max THEN NextDelim(text, delim, j[k - 1] + 1)
                    ELSE Len(text) + 1
  <2>1. k - 1 \in Nat /\ (k - 1) + 1 = k
    BY <1>5
  <2>2. j[k] = step[<<k - 1, j[k - 1]>>]
    BY <1>4, <2>1
  <2>3. step[<<k - 1, j[k - 1]>>] = IF k < max
                                    THEN NextDelim(text, delim, j[k - 1] + 1)
                                    ELSE Len(text) + 1
    BY <1>2, <2>1
  <2>4. QED
    BY <2>2, <2>3
<1>6. Ends(j, text, delim, max)
  BY <1>4, <1>5 DEF Ends
<1>7. QED
  BY <1>6

SplitsAt(j, text, delim, max) ==
  /\ Ends(j, text, delim, max)
  /\ Split(text, delim, max) =
       [k \in {m \in 1 .. max : j[m - 1] <= Len(text)} |->
          SubSeq(text, j[k - 1] + 1, j[k] - 1)]

LEMMA SplitEnds ==
  ASSUME NEW text \in Texts, NEW delim, NEW max \in Nat
  PROVE  \E j \in [Nat -> Nat] : SplitsAt(j, text, delim, max)
<1> DEFINE j == CHOOSE g : Ends(g, text, delim, max)
<1>1. Ends(j, text, delim, max)
  BY EndsExist
<1>2. Split(text, delim, max) =
        [k \in {m \in 1 .. max : j[m - 1] <= Len(text)} |->
           SubSeq(text, j[k - 1] + 1, j[k] - 1)]
  BY DEF Split, Ends
<1> HIDE DEF j
<1>3. PICK g \in [Nat -> Nat] : Ends(g, text, delim, max)
  BY EndsExist
<1> DEFINE Same == {n \in Nat : j[n] = g[n]}
<1>4. 0 \in Same
  BY <1>1, <1>3 DEF Ends
<1>5. ASSUME NEW n \in Nat, n \in Same
      PROVE  n + 1 \in Same
  <2>1. n + 1 \in Nat /\ n + 1 # 0 /\ (n + 1) - 1 = n
    OBVIOUS
  <2>2. j[n + 1] = IF n + 1 < max THEN NextDelim(text, delim, j[n] + 1)
                   ELSE Len(text) + 1
    BY <1>1, <2>1 DEF Ends
  <2>3. g[n + 1] = IF n + 1 < max THEN NextDelim(text, delim, g[n] + 1)
                   ELSE Len(text) + 1
    BY <1>3, <2>1 DEF Ends
  <2>4. QED
    BY <1>5, <2>1, <2>2, <2>3
<1> HIDE DEF Same
<1>6. \A n \in Nat : n \in Same
  BY <1>4, <1>5, InductionOverNat
<1>7. \A n \in Nat : j[n] = g[n]
  BY <1>6 DEF Same
<1>8. j = [n \in Nat |-> j[n]] /\ g = [n \in Nat |-> g[n]]
  BY <1>1 DEF Ends
<1>9. j = g
  BY <1>7, <1>8, Zenon
<1>10. QED
  BY <1>1, <1>2, <1>3, <1>9 DEF SplitsAt

(* split of a text whose first n delimiters stand at cut[1] .. cut[n].     *)
IsCut(cut, text, delim, n) ==
  /\ cut[0] = 0
  /\ \A k \in Nat : k < n =>
       /\ cut[k] < cut[k + 1]
       /\ cut[k + 1] <= Len(text)
       /\ text[cut[k + 1]] = delim
       /\ \A q \in cut[k] + 1 .. cut[k + 1] - 1 : text[q] # delim

CutAt(cut, text, delim, n, max) ==
  /\ \A k \in Nat : k < n =>
       Split(text, delim, max)[k + 1] = SubSeq(text, cut[k] + 1, cut[k + 1] - 1)
  /\ Split(text, delim, max)[max] = SubSeq(text, cut[n] + 1, Len(text))

LEMMA SplitParts ==
  ASSUME NEW text \in Texts, NEW delim, NEW n \in Nat, NEW max \in Nat,
         max = n + 1, NEW cut \in [Nat -> Nat], IsCut(cut, text, delim, n)
  PROVE  CutAt(cut, text, delim, n, max)
<1>1. Len(text) \in Nat
  BY DEF Texts
<1>2. PICK j \in [Nat -> Nat] : SplitsAt(j, text, delim, max)
  BY SplitEnds, Zenon
<1>3. /\ Ends(j, text, delim, max)
      /\ Split(text, delim, max) =
           [k \in {m \in 1 .. max : j[m - 1] <= Len(text)} |->
              SubSeq(text, j[k - 1] + 1, j[k] - 1)]
  BY <1>2 DEF SplitsAt
<1> DEFINE Same == {k \in Nat : k <= n => j[k] = cut[k] /\ cut[k] <= Len(text)}
<1>4. 0 \in Same
  BY <1>1, <1>3 DEF Ends, IsCut
<1>5. ASSUME NEW k \in Nat, k \in Same
      PROVE  k + 1 \in Same
  <2>1. CASE k + 1 <= n
    <3>1. k < n /\ k + 1 < max /\ k + 1 \in Nat /\ k + 1 # 0 /\ (k + 1) - 1 = k
      BY <2>1
    <3>2. j[k + 1] = NextDelim(text, delim, j[k] + 1)
      BY <1>3, <3>1 DEF Ends
    <3>3. j[k] = cut[k]
      BY <1>5, <3>1
    <3>4. /\ cut[k] < cut[k + 1]
          /\ cut[k + 1] <= Len(text)
      BY <3>1 DEF IsCut
    <3>5. /\ text[cut[k + 1]] = delim
          /\ \A q \in cut[k] + 1 .. cut[k + 1] - 1 : text[q] # delim
      BY <3>1 DEF IsCut
    <3>6. PICK a \in Nat, b \in Nat : a = cut[k] /\ b = cut[k + 1]
      BY <3>1
    <3>7. PICK i \in Nat : i = a + 1
      <4>1. a + 1 \in Nat
        OBVIOUS
      <4>2. QED
        BY <4>1, Zenon
    <3>8. PICK size \in Nat : size = Len(text)
      BY <1>1
    <3>9. a < b /\ b <= size
      BY <3>4, <3>6, <3>8, Zenon
    <3>10. NextDelim(text, delim, i) = b
      <4>1. b \in i .. size
        BY <3>7, <3>9
      <4>2. IsNextDelim(text, delim, i, b)
        BY <3>5, <3>6, <3>7, <3>8, <4>1, Zenon DEF IsNextDelim
      <4>3. QED
        BY <4>2, NextDelimIs, Zenon
    <3>11. j[k + 1] = b
      BY <3>2, <3>3, <3>6, <3>7, <3>10, Zenon
    <3>12. QED
      BY <3>1, <3>4, <3>6, <3>11
  <2>2. CASE ~(k + 1 <= n)
    BY <2>2
  <2>3. QED
    BY <2>1, <2>2
<1> HIDE DEF Same
<1>6. \A k \in Nat : k \in Same
  BY <1>4, <1>5, InductionOverNat
<1>7. \A k \in Nat : k <= n => j[k] = cut[k] /\ cut[k] <= Len(text)
  BY <1>6 DEF Same
<1>8. ASSUME NEW k \in Nat, k < n
      PROVE  Split(text, delim, max)[k + 1] =
               SubSeq(text, cut[k] + 1, cut[k + 1] - 1)
  <2>1. /\ k + 1 \in 1 .. max /\ (k + 1) - 1 = k
        /\ k + 1 \in Nat /\ k + 1 <= n /\ k <= n
    BY <1>8
  <2>2. j[k] = cut[k] /\ j[k + 1] = cut[k + 1] /\ j[k] <= Len(text)
    BY <1>7, <2>1, Zenon
  <2>3. Split(text, delim, max)[k + 1] =
          SubSeq(text, j[(k + 1) - 1] + 1, j[k + 1] - 1)
    BY <1>3, <2>1, <2>2
  <2>4. QED
    BY <2>1, <2>2, <2>3
<1>9. Split(text, delim, max)[max] = SubSeq(text, cut[n] + 1, Len(text))
  <2>1. /\ max \in 1 .. max /\ max # 0 /\ max - 1 = n /\ n <= n
    OBVIOUS
  <2>2. j[n] = cut[n] /\ j[n] <= Len(text)
    BY <1>7, <2>1
  <2>3. j[max] = Len(text) + 1 /\ (Len(text) + 1) - 1 = Len(text)
    BY <1>1, <1>3, <2>1 DEF Ends
  <2>4. Split(text, delim, max)[max] =
          SubSeq(text, j[max - 1] + 1, j[max] - 1)
    BY <1>3, <2>1, <2>2
  <2>5. QED
    BY <2>1, <2>2, <2>3, <2>4
<1>10. QED
  BY <1>8, <1>9 DEF CutAt

(* A text of n words, each with a delimiter behind it, and what follows:   *)
(* split gives the words, then all that follows, delimiters or not.        *)
Delimited(words, delim, n) ==
  /\ Len(words) = 2 * n
  /\ \A k \in Nat : k < n => /\ words[2 * k + 1] # delim
                             /\ words[2 * k + 2] = delim

HasTokens(tokens, words, n, rest) ==
  /\ \A k \in Nat : k < n => tokens[k + 1] = <<words[2 * k + 1]>>
  /\ tokens[n + 1] = rest

LEMMA SplitWords ==
  ASSUME NEW words \in Texts, NEW rest \in Texts, NEW delim,
         NEW n \in Nat, NEW max \in Nat, max = n + 1, Delimited(words, delim, n)
  PROVE  HasTokens(Split(words \o rest, delim, max), words, n, rest)
<1> DEFINE text == words \o rest
           cut == [k \in Nat |-> 2 * k]
<1>1. PICK size \in Nat : size = 2 * n
  OBVIOUS
<1>2. Len(words) = size
  BY <1>1 DEF Delimited
<1>3. /\ text \in Texts /\ Len(text) = size + Len(rest) /\ Len(rest) \in Nat
      /\ \A q \in 1 .. size : text[q] = words[q]
      /\ SubSeq(text, size + 1, Len(text)) = rest
  BY <1>2 DEF Texts
<1>4. cut \in [Nat -> Nat] /\ \A k \in Nat : cut[k] = 2 * k
  OBVIOUS
<1> HIDE DEF text, cut
<1>5. \A q \in 1 .. size : q \in 1 .. Len(text)
  <2>1. PICK a \in Nat, b \in Nat : a = Len(text) /\ b = Len(rest) /\ a = size + b
    BY <1>3
  <2>2. \A q \in 1 .. size : q \in 1 .. a
    BY <2>1
  <2>3. QED
    BY <2>1, <2>2, Zenon
<1>6. \A q \in 1 .. size : SubSeq(text, q, q) = <<text[q]>>
  BY <1>3, <1>5, OneWord, Zenon
<1>7. ASSUME NEW k \in Nat, k < n
      PROVE  /\ 2 * k + 1 \in 1 .. size /\ 2 * k + 2 \in 1 .. size
             /\ cut[k] = 2 * k /\ cut[k + 1] = 2 * k + 2
             /\ text[2 * k + 1] = words[2 * k + 1] /\ text[2 * k + 1] # delim
             /\ text[2 * k + 2] = delim
  <2>1. 2 * k + 1 \in 1 .. size /\ 2 * k + 2 \in 1 .. size
    BY <1>1, <1>7
  <2>2. k + 1 \in Nat /\ 2 * (k + 1) = 2 * k + 2
    OBVIOUS
  <2>3. cut[k] = 2 * k /\ cut[k + 1] = 2 * k + 2
    BY <1>4, <2>2, Zenon
  <2>4. words[2 * k + 1] # delim /\ words[2 * k + 2] = delim
    BY <1>7, Zenon DEF Delimited
  <2>5. QED
    BY <1>3, <2>1, <2>3, <2>4, Zenon
<1>8. ASSUME NEW k \in Nat, k < n
      PROVE  /\ cut[k] < cut[k + 1]
             /\ cut[k + 1] <= Len(text)
             /\ text[cut[k + 1]] = delim
             /\ \A q \in cut[k] + 1 .. cut[k + 1] - 1 : text[q] # delim
  <2>1. /\ 2 * k < 2 * k + 2
        /\ \A q \in 2 * k + 1 .. (2 * k + 2) - 1 : q = 2 * k + 1
    OBVIOUS
  <2>2. 2 * k + 2 \in 1 .. Len(text)
    BY <1>5, <1>7, <1>8, Zenon
  <2>3. 2 * k + 2 <= Len(text)
    BY <2>2
  <2>4. QED
    BY <1>7, <1>8, <2>1, <2>3, Zenon
<1>9. cut[0] = 0
  BY <1>4
<1>10. IsCut(cut, text, delim, n)
  BY <1>8, <1>9, Zenon DEF IsCut
<1>11. CutAt(cut, text, delim, n, max)
  BY <1>3, <1>4, <1>10, SplitParts
<1>12. /\ \A k \in Nat : k < n =>
            Split(text, delim, max)[k + 1] =
              SubSeq(text, cut[k] + 1, cut[k + 1] - 1)
       /\ Split(text, delim, max)[max] = SubSeq(text, cut[n] + 1, Len(text))
  BY <1>11, Zenon DEF CutAt
<1>13. ASSUME NEW k \in Nat, k < n
       PROVE  SubSeq(text, cut[k] + 1, cut[k + 1] - 1) = <<words[2 * k + 1]>>
  <2>1. (2 * k + 2) - 1 = 2 * k + 1
    OBVIOUS
  <2>2. SubSeq(text, 2 * k + 1, 2 * k + 1) = <<words[2 * k + 1]>>
    BY <1>6, <1>7, <1>13, Zenon
  <2>3. QED
    BY <1>7, <1>13, <2>1, <2>2, Zenon
<1>14. SubSeq(text, cut[n] + 1, Len(text)) = rest
  BY <1>1, <1>3, <1>4, Zenon
<1>15. QED
  BY <1>12, <1>13, <1>14, Zenon DEF text, HasTokens

(* trim cuts the spaces at the end, and nothing else.                      *)
LEMMA TrimTo ==
  ASSUME NEW text \in Texts, NEW n \in 0 .. Len(text),
         n # 0 => text[n] \notin Spaces,
         \A p \in n + 1 .. Len(text) : text[p] \in Spaces
  PROVE  Trim(text) = SubSeq(text, 1, n)
<1> DEFINE kept == {p \in DOMAIN text : text[p] \notin Spaces}
           ends == kept \cup {0}
<1>1. Len(text) \in Nat /\ DOMAIN text = 1 .. Len(text)
  BY DEF Texts
<1>2. ends \in SUBSET Nat /\ n \in ends
  BY <1>1
<1>3. ASSUME NEW p \in ends
      PROVE  p <= n
  BY <1>1
<1> HIDE DEF ends
<1>4. Max(ends) = n
  BY <1>2, <1>3, MaxIs
<1>5. QED
  BY <1>4 DEF Trim, ends

LEMMA TrimTrimmed ==
  ASSUME NEW text \in Texts, Trimmed(text)
  PROVE  Trim(text) = text /\ Trim(text \o EndOfLine) = text
<1>1. /\ Len(text) \in Nat /\ Len(text) # 0
      /\ text[Len(text)] \notin Spaces
  BY DEF Texts, Trimmed
<1>2. Trim(text) = text
  <2>1. Trim(text) = SubSeq(text, 1, Len(text))
    BY <1>1, TrimTo
  <2>2. SubSeq(text, 1, Len(text)) = text
    BY DEF Texts
  <2>3. QED
    BY <2>1, <2>2
<1>3. /\ EndOfLine \in Texts /\ Len(EndOfLine) = 1
      /\ EndOfLine[1] \in Spaces
  BY DEF EndOfLine, Words, Spaces, Texts
<1> DEFINE ended == text \o EndOfLine
<1>4. /\ ended \in Texts /\ Len(ended) = Len(text) + 1
      /\ \A p \in 1 .. Len(text) : ended[p] = text[p]
      /\ ended[Len(text) + 1] = EndOfLine[1]
      /\ SubSeq(ended, 1, Len(text)) = text
  <2>1. 1 \in 1 .. 1
    OBVIOUS
  <2>2. /\ ended \in Texts /\ Len(ended) = Len(text) + Len(EndOfLine)
        /\ \A p \in 1 .. Len(text) : ended[p] = text[p]
        /\ \A p \in 1 .. Len(EndOfLine) : ended[Len(text) + p] = EndOfLine[p]
        /\ SubSeq(ended, 1, Len(text)) = text
    BY <1>3, Joined, Zenon
  <2>3. QED
    BY <1>3, <2>1, <2>2, Zenon
<1> HIDE DEF ended
<1>5. /\ Len(text) \in 0 .. Len(ended)
      /\ ended[Len(text)] \notin Spaces
  BY <1>1, <1>4
<1>6. \A p \in Len(text) + 1 .. Len(ended) : ended[p] \in Spaces
  <2>1. \A p \in Len(text) + 1 .. Len(ended) : p = Len(text) + 1
    BY <1>1, <1>4
  <2>2. QED
    BY <1>3, <1>4, <2>1, Zenon
<1>7. Trim(ended) = SubSeq(ended, 1, Len(text))
  BY <1>4, <1>5, <1>6, TrimTo
<1>8. QED
  BY <1>2, <1>4, <1>7 DEF ended

LEMMA TrimmedBehind ==
  ASSUME NEW start \in Texts, NEW text \in Texts, Trimmed(text)
  PROVE  Trimmed(start \o text)
<1> DEFINE all == start \o text
<1>1. /\ Len(start) \in Nat /\ Len(text) \in Nat /\ Len(text) # 0
      /\ text[Len(text)] \notin Spaces
  BY DEF Texts, Trimmed
<1>2. /\ Len(all) = Len(start) + Len(text)
      /\ all[Len(start) + Len(text)] = text[Len(text)]
  BY <1>1 DEF Texts
<1> HIDE DEF all
<1>3. all # <<>>
  BY <1>1, <1>2
<1>4. all[Len(all)] \notin Spaces
  BY <1>1, <1>2, Zenon
<1>5. QED
  BY <1>3, <1>4, Zenon DEF Trimmed, all

LEMMA StartsWithWords ==
  ASSUME NEW text \in Texts, NEW literal \in Texts
  PROVE  StartsWith(text, literal) <=>
           /\ Len(literal) <= Len(text)
           /\ \A p \in 1 .. Len(literal) : text[p] = literal[p]
<1>1. Len(text) \in Nat /\ Len(literal) \in Nat
  BY DEF Texts
<1>2. SubSeq(literal, 1, Len(literal)) = literal
  BY DEF Texts
<1>3. CASE Len(literal) <= Len(text)
  <2> DEFINE start == SubSeq(text, 1, Len(literal))
  <2>1. /\ start \in Texts /\ Len(start) = Len(literal)
        /\ \A p \in 1 .. Len(literal) : start[p] = text[p]
    BY <1>1, <1>3 DEF Texts
  <2> HIDE DEF start
  <2>2. (\A p \in 1 .. Len(literal) : start[p] = literal[p]) => start = literal
    BY <1>1, <2>1, SeqEqual DEF Texts
  <2>3. literal = start <=> \A p \in 1 .. Len(literal) : text[p] = literal[p]
    BY <2>1, <2>2, Zenon
  <2>4. QED
    BY <1>2, <1>3, <2>3, Zenon DEF StartsWith, IsPrefix, start
<1>4. CASE ~(Len(literal) <= Len(text))
  BY <1>4 DEF StartsWith, IsPrefix
<1>5. QED
  BY <1>3, <1>4

InOrder(all, a, n, b, m) ==
  /\ \A k \in Nat : k < n => all[2 * k + 1] = a[2 * k + 1]
  /\ \A k \in Nat : k < m => all[2 * (n + k) + 1] = b[2 * k + 1]

LEMMA DelimitedBehind ==
  ASSUME NEW a \in Texts, NEW b \in Texts, NEW delim, NEW n \in Nat, NEW m \in Nat,
         Delimited(a, delim, n), Delimited(b, delim, m)
  PROVE  Delimited(a \o b, delim, n + m) /\ InOrder(a \o b, a, n, b, m)
<1> DEFINE all == a \o b
<1>1. /\ Len(all) = Len(a) + Len(b)
      /\ \A p \in 1 .. Len(a) : all[p] = a[p]
      /\ \A p \in 1 .. Len(b) : all[Len(a) + p] = b[p]
  BY Joined, Zenon
<1>2. Len(a) = 2 * n /\ Len(b) = 2 * m
  BY DEF Delimited
<1> HIDE DEF all
<1>3. Len(all) = 2 * n + 2 * m /\ 2 * n + 2 * m = 2 * (n + m)
  BY <1>1, <1>2
<1>4. ASSUME NEW k \in Nat, k < n
      PROVE  /\ all[2 * k + 1] = a[2 * k + 1] /\ all[2 * k + 1] # delim
             /\ all[2 * k + 2] = delim
  <2>1. 2 * k + 1 \in 1 .. 2 * n /\ 2 * k + 2 \in 1 .. 2 * n
    BY <1>4
  <2>2. a[2 * k + 1] # delim /\ a[2 * k + 2] = delim
    BY <1>4, Zenon DEF Delimited
  <2>3. QED
    BY <1>1, <1>2, <2>1, <2>2, Zenon
<1>5. ASSUME NEW k \in Nat, k < m
      PROVE  /\ all[2 * (n + k) + 1] = b[2 * k + 1]
             /\ all[2 * (n + k) + 1] # delim
             /\ all[2 * (n + k) + 2] = delim
  <2>1. /\ 2 * k + 1 \in 1 .. 2 * m /\ 2 * k + 2 \in 1 .. 2 * m
        /\ 2 * (n + k) + 1 = 2 * n + (2 * k + 1)
        /\ 2 * (n + k) + 2 = 2 * n + (2 * k + 2)
    BY <1>5
  <2>2. b[2 * k + 1] # delim /\ b[2 * k + 2] = delim
    BY <1>5, Zenon DEF Delimited
  <2>3. QED
    BY <1>1, <1>2, <2>1, <2>2, Zenon
<1>6. ASSUME NEW k \in Nat, k < n + m
      PROVE  all[2 * k + 1] # delim /\ all[2 * k + 2] = delim
  <2>1. CASE k < n
    BY <1>4, <2>1
  <2>2. CASE ~(k < n)
    <3>1. PICK i \in Nat : i < m /\ k = n + i
      <4>1. k - n \in Nat /\ k - n < m /\ k = n + (k - n)
        BY <1>6, <2>2
      <4>2. QED
        BY <4>1, Zenon
    <3>2. QED
      BY <1>5, <3>1, Zenon
  <2>3. QED
    BY <2>1, <2>2
<1>7. Delimited(all, delim, n + m)
  BY <1>3, <1>6, Zenon DEF Delimited
<1>8. QED
  BY <1>4, <1>5, <1>7, Zenon DEF all, InOrder

LEMMA FindFirst ==
  ASSUME NEW text \in Texts, NEW word, NEW i \in Nat, NEW p,
         IsNextDelim(text, word, i, p)
  PROVE  Find(text, word, i) = p
<1> DEFINE places == {q \in i .. Len(text) : text[q] = word}
<1>1. Len(text) \in Nat
  BY DEF Texts
<1>2. places \in SUBSET Nat /\ p \in places
  BY <1>1 DEF IsNextDelim
<1>3. ASSUME NEW q \in places
      PROVE  p <= q
  BY <1>1 DEF IsNextDelim
<1> HIDE DEF places
<1>4. Min(places) = p /\ places # {}
  BY <1>2, <1>3, MinIs
<1>5. QED
  BY <1>4 DEF Find, SelectInSubSeq, places

LEMMA FindNone ==
  ASSUME NEW text, NEW word, NEW i, \A q \in i .. Len(text) : text[q] # word
  PROVE  Find(text, word, i) = 0
BY DEF Find, SelectInSubSeq

LEMMA StartsTwo ==
  ASSUME NEW text \in Texts, NEW a \in Words, NEW b \in Words
  PROVE  StartsWith(text, <<a, b>>) <=>
           2 <= Len(text) /\ text[1] = a /\ text[2] = b
<1> DEFINE literal == <<a, b>>
<1>1. literal \in Texts /\ Len(literal) = 2 /\ literal[1] = a /\ literal[2] = b
  BY DEF Texts
<1> HIDE DEF literal
<1>2. 1 \in 1 .. 2 /\ 2 \in 1 .. 2 /\ \A p \in 1 .. 2 : p = 1 \/ p = 2
  OBVIOUS
<1>3. StartsWith(text, literal) <=>
        /\ Len(literal) <= Len(text)
        /\ \A p \in 1 .. Len(literal) : text[p] = literal[p]
  BY <1>1, StartsWithWords
<1>4. QED
  BY <1>1, <1>2, <1>3, Zenon DEF literal

LEMMA StartsFour ==
  ASSUME NEW text \in Texts, NEW a \in Words, NEW b \in Words,
         NEW c \in Words, NEW d \in Words
  PROVE  StartsWith(text, <<a, b, c, d>>) <=>
           /\ 4 <= Len(text)
           /\ text[1] = a /\ text[2] = b /\ text[3] = c /\ text[4] = d
<1> DEFINE literal == <<a, b, c, d>>
<1>1. /\ literal \in Texts /\ Len(literal) = 4
      /\ literal[1] = a /\ literal[2] = b /\ literal[3] = c /\ literal[4] = d
  BY DEF Texts
<1> HIDE DEF literal
<1>2. /\ 1 \in 1 .. 4 /\ 2 \in 1 .. 4 /\ 3 \in 1 .. 4 /\ 4 \in 1 .. 4
      /\ \A p \in 1 .. 4 : p = 1 \/ p = 2 \/ p = 3 \/ p = 4
  OBVIOUS
<1>3. StartsWith(text, literal) <=>
        /\ Len(literal) <= Len(text)
        /\ \A p \in 1 .. Len(literal) : text[p] = literal[p]
  BY <1>1, StartsWithWords
<1>4. QED
  BY <1>1, <1>2, <1>3, Zenon DEF literal

-----------------------------------------------------------------------------
(* The parts of a line: each reads back what Written put there.            *)

(* The name and the parameters the reader makes of them, if ToldApart.     *)
LEMMA ParamPosIs ==
  ASSUME NEW name \in Texts, NEW params \in Texts, ToldApart(name, params)
  PROVE  ParamPos(name \o params) = IF params = <<>> THEN 0 ELSE Len(name) + 1
<1> DEFINE full == name \o params
<1>1. /\ full \in Texts /\ Len(full) = Len(name) + Len(params)
      /\ Len(name) \in Nat /\ Len(params) \in Nat
      /\ \A p \in 1 .. Len(name) : full[p] = name[p]
      /\ \A p \in 1 .. Len(params) : full[Len(name) + p] = params[p]
  BY Joined, Zenon
<1>2. /\ DOMAIN name = 1 .. Len(name)
      /\ params = <<>> <=> Len(params) = 0
      /\ name = <<>> <=> Len(name) = 0
  BY DEF Texts
<1> HIDE DEF full
<1>3. ASSUME params # <<>>
      PROVE  /\ full[Len(name) + 1] = "("
             /\ Len(name) + 1 \in 1 .. Len(full)
  <2>1. 1 \in 1 .. Len(params) /\ Len(name) + 1 \in 1 .. Len(full)
    BY <1>1, <1>2, <1>3
  <2>2. params[1] = "("
    BY <1>3, Zenon DEF ToldApart
  <2>3. QED
    BY <1>1, <2>1, <2>2, Zenon
<1>4. ASSUME NEW i \in 1 .. Len(name) + 1,
             \A q \in i .. Len(name) : name[q] # "("
      PROVE  Find(full, "(", i) = IF params = <<>> THEN 0 ELSE Len(name) + 1
  <2>1. i \in Nat /\ \A q \in i .. Len(name) : q \in 1 .. Len(name)
    BY <1>1, <1>4
  <2>2. \A q \in i .. Len(name) : full[q] # "("
    BY <1>1, <1>4, <2>1, Zenon
  <2>3. CASE params = <<>>
    <3>1. Len(full) = Len(name)
      BY <1>1, <1>2, <2>3
    <3>2. Find(full, "(", i) = 0
      BY <2>2, <3>1, FindNone, Zenon
    <3>3. QED
      BY <2>3, <3>2
  <2>4. CASE params # <<>>
    <3>1. Len(name) + 1 \in i .. Len(full) /\ (Len(name) + 1) - 1 = Len(name)
      BY <1>1, <1>3, <1>4, <2>4
    <3>2. IsNextDelim(full, "(", i, Len(name) + 1)
      BY <1>3, <2>2, <2>4, <3>1, Zenon DEF IsNextDelim
    <3>3. Find(full, "(", i) = Len(name) + 1
      BY <1>1, <2>1, <3>2, FindFirst, Zenon
    <3>4. QED
      BY <2>4, <3>3
  <2>5. QED
    BY <2>3, <2>4
<1>5. CASE \E p \in 1 .. Len(name) : name[p] = "("
  <2>1. PICK p \in 1 .. Len(name) : name[p] = "("
    BY <1>5
  <2>2. /\ p > 1 /\ name[p - 1] \in EndInOperator
        /\ \A q \in 1 .. Len(name) : name[q] = "(" => q = p
    BY <1>2, <2>1, Zenon DEF ToldApart
  <2>3. /\ p \in 1 .. Len(full) /\ 1 \in Nat /\ p - 1 \in 1 .. Len(name)
        /\ \A q \in 1 .. p - 1 : q \in 1 .. Len(name) /\ q # p
        /\ p + 1 \in 1 .. Len(name) + 1
        /\ \A q \in p + 1 .. Len(name) : q \in 1 .. Len(name) /\ q # p
    BY <1>1, <2>1, <2>2
  <2>4. IsNextDelim(full, "(", 1, p)
    BY <1>1, <2>1, <2>2, <2>3, Zenon DEF IsNextDelim
  <2>5. Find(full, "(", 1) = p
    BY <1>1, <2>3, <2>4, FindFirst, Zenon
  <2>6. full[p - 1] \in EndInOperator
    BY <1>1, <2>2, <2>3, Zenon
  <2>7. ParamPos(full) = Find(full, "(", p + 1)
    BY <2>2, <2>5, <2>6, Zenon DEF ParamPos
  <2>8. Find(full, "(", p + 1) = IF params = <<>> THEN 0 ELSE Len(name) + 1
    BY <1>4, <2>2, <2>3, Zenon
  <2>9. QED
    BY <2>7, <2>8, Zenon DEF full
<1>6. CASE \A p \in 1 .. Len(name) : name[p] # "("
  <2>1. 1 \in 1 .. Len(name) + 1
    BY <1>1
  <2>2. Find(full, "(", 1) = IF params = <<>> THEN 0 ELSE Len(name) + 1
    BY <1>4, <1>6, <2>1, Zenon
  <2>3. CASE params = <<>>
    <3>1. ParamPos(full) = 0
      BY <2>2, <2>3 DEF ParamPos
    <3>2. QED
      BY <2>3, <3>1 DEF full
  <2>4. CASE params # <<>>
    <3>1. ~(Len(name) + 1 > 1 /\ full[(Len(name) + 1) - 1] \in EndInOperator)
      <4>1. ASSUME name # <<>>
            PROVE  full[Len(name)] \notin EndInOperator
        <5>1. Len(name) \in 1 .. Len(name)
          BY <1>1, <1>2, <4>1
        <5>2. name[Len(name)] \notin EndInOperator
          BY <1>2, <1>6, <2>4, <4>1, Zenon DEF ToldApart
        <5>3. QED
          BY <1>1, <5>1, <5>2, Zenon
      <4>2. (Len(name) + 1) - 1 = Len(name) /\ (name = <<>> => ~(Len(name) + 1 > 1))
        BY <1>1, <1>2
      <4>3. QED
        BY <4>1, <4>2
    <3>2. ParamPos(full) = Len(name) + 1
      BY <2>2, <2>4, <3>1, Zenon DEF ParamPos
    <3>3. QED
      BY <2>4, <3>2 DEF full
  <2>5. QED
    BY <2>3, <2>4
<1>7. QED
  BY <1>5, <1>6, Zenon

LEMMA NameAndParams ==
  ASSUME NEW name \in Texts, NEW params \in Texts, ToldApart(name, params)
  PROVE  SymName(name \o params) = name /\ Params(name \o params) = params
<1>1. ParamPos(name \o params) = IF params = <<>> THEN 0 ELSE Len(name) + 1
  BY ParamPosIs
<1>2. CASE params = <<>>
  <2>1. name \o params = name
    BY <1>2 DEF Texts
  <2>2. QED
    BY <1>1, <1>2, <2>1, Zenon DEF SymName, Params
<1>3. CASE params # <<>>
  <2>1. Len(name) + 1 # 0 /\ (Len(name) + 1) - 1 = Len(name)
    BY DEF Texts
  <2>2. /\ SubSeq(name \o params, 1, Len(name)) = name
        /\ SubSeq(name \o params, Len(name) + 1, Len(name \o params)) = params
    BY Joined, Zenon
  <2>3. QED
    BY <1>1, <1>3, <2>1, <2>2, Zenon DEF SymName, Params
<1>4. QED
  BY <1>2, <1>3

(* Every text can be taken apart somewhere.                                *)
IsCutBefore(full, n) ==
  /\ \A p \in 1 .. n : full[p] = "(" =>
       /\ p > 1 /\ full[p - 1] \in EndInOperator
       /\ \A q \in 1 .. n : full[q] = "(" => q = p
  /\ n < Len(full) =>
       /\ full[n + 1] = "("
       /\ n > 0 /\ full[n] \in EndInOperator => \E p \in 1 .. n : full[p] = "("

LEMMA PartsOf ==
  ASSUME NEW full \in Texts, NEW n \in 0 .. Len(full)
  PROVE  LET name == SubSeq(full, 1, n)
             params == SubSeq(full, n + 1, Len(full))
         IN  /\ name \in Texts /\ params \in Texts /\ name \o params = full
             /\ Len(name) = n /\ DOMAIN name = 1 .. n
             /\ \A p \in 1 .. n : name[p] = full[p]
             /\ params # <<>> => n < Len(full) /\ params[1] = full[n + 1]
<1> DEFINE name == SubSeq(full, 1, n)
           params == SubSeq(full, n + 1, Len(full))
<1>1. Len(full) \in Nat /\ n \in Nat /\ n <= Len(full)
  BY DEF Texts
<1>2. /\ name \in Texts /\ Len(name) = n /\ DOMAIN name = 1 .. n
      /\ \A p \in 1 .. n : name[p] = full[p]
  BY <1>1 DEF Texts
<1>3. /\ params \in Texts /\ Len(params) = Len(full) - n
      /\ \A p \in 1 .. Len(full) - n : params[p] = full[n + p]
  BY <1>1 DEF Texts
<1>4. name \o params = full
  <2>1. /\ 1 \in 1 .. Len(full) + 1 /\ n \in 1 - 1 .. Len(full)
        /\ Len(full) \in n .. Len(full)
    BY <1>1
  <2>2. name \o params = SubSeq(full, 1, Len(full))
    BY <2>1, ConcatAdjacentSubSeq, Zenon DEF Texts
  <2>3. QED
    BY <2>2, SubSeqFull, Zenon DEF Texts
<1>5. ASSUME params # <<>>
      PROVE  n < Len(full) /\ params[1] = full[n + 1]
  <2>1. Len(params) # 0
    BY <1>3, <1>5 DEF Texts
  <2>2. n < Len(full) /\ 1 \in 1 .. Len(full) - n
    BY <1>1, <1>3, <2>1
  <2>3. QED
    BY <1>3, <2>2
<1>6. QED
  BY <1>2, <1>3, <1>4, <1>5

LEMMA ToldApartAt ==
  ASSUME NEW full \in Texts, NEW n \in 0 .. Len(full), IsCutBefore(full, n)
  PROVE  ToldApart(SubSeq(full, 1, n), SubSeq(full, n + 1, Len(full)))
<1> DEFINE name == SubSeq(full, 1, n)
           params == SubSeq(full, n + 1, Len(full))
<1>1. /\ name \in Texts /\ Len(name) = n /\ DOMAIN name = 1 .. n
      /\ \A p \in 1 .. n : name[p] = full[p]
      /\ params # <<>> => n < Len(full) /\ params[1] = full[n + 1]
  BY PartsOf, Zenon
<1>2. n \in Nat /\ \A p \in 1 .. n : p > 1 => p - 1 \in 1 .. n
  BY DEF Texts
<1> HIDE DEF name, params
<1>3. ASSUME NEW p \in DOMAIN name, name[p] = "("
      PROVE  /\ p > 1 /\ name[p - 1] \in EndInOperator
             /\ \A q \in DOMAIN name : name[q] = "(" => q = p
  <2>1. p \in 1 .. n /\ full[p] = "("
    BY <1>1, <1>3, Zenon
  <2>2. /\ p > 1 /\ full[p - 1] \in EndInOperator
        /\ \A q \in 1 .. n : full[q] = "(" => q = p
    BY <2>1, Zenon DEF IsCutBefore
  <2>3. QED
    BY <1>1, <1>2, <2>1, <2>2, Zenon
<1>4. ASSUME params # <<>>
      PROVE  /\ params[1] = "("
             /\ name # <<>> /\ name[Len(name)] \in EndInOperator =>
                  \E p \in DOMAIN name : name[p] = "("
  <2>1. /\ full[n + 1] = "("
        /\ n > 0 /\ full[n] \in EndInOperator => \E p \in 1 .. n : full[p] = "("
    BY <1>1, <1>4, Zenon DEF IsCutBefore
  <2>2. name # <<>> => n > 0 /\ n \in 1 .. n
    BY <1>1, <1>2 DEF Texts
  <2>3. QED
    BY <1>1, <1>4, <2>1, <2>2, Zenon
<1>5. QED
  BY <1>3, <1>4, Zenon DEF ToldApart, name, params

LEMMA CutExists ==
  ASSUME NEW full \in Texts
  PROVE  \E n \in 0 .. Len(full) :
           ToldApart(SubSeq(full, 1, n), SubSeq(full, n + 1, Len(full)))
<1>1. Len(full) \in Nat
  BY DEF Texts
<1>2. SUFFICES \E n \in 0 .. Len(full) : IsCutBefore(full, n)
  BY ToldApartAt
<1>3. ASSUME NEW i \in Nat, \E p \in i .. Len(full) : full[p] = "("
      PROVE  \E p \in i .. Len(full) :
               full[p] = "(" /\ \A q \in i .. p - 1 : full[q] # "("
  <2> DEFINE places == {p \in i .. Len(full) : full[p] = "("}
  <2>1. places \in SUBSET Nat /\ places # {}
    BY <1>1, <1>3
  <2>2. Min(places) \in places /\ \A q \in places : Min(places) <= q
    BY <2>1, MinType
  <2>3. \A q \in i .. Min(places) - 1 : q \in i .. Len(full) /\ ~(Min(places) <= q)
    BY <1>1, <2>2
  <2>4. QED
    BY <2>2, <2>3
<1>4. CASE \A p \in 1 .. Len(full) : full[p] # "("
  <2>1. Len(full) \in 0 .. Len(full) /\ ~(Len(full) < Len(full))
    BY <1>1
  <2>2. QED
    BY <1>4, <2>1, Zenon DEF IsCutBefore
<1>5. ASSUME NEW p \in 1 .. Len(full),
             full[p] = "(", \A q \in 1 .. p - 1 : full[q] # "("
      PROVE  \E n \in 0 .. Len(full) : IsCutBefore(full, n)
  <2>1. CASE ~(p > 1 /\ full[p - 1] \in EndInOperator)
    <3>1. p - 1 \in 0 .. Len(full) /\ (p - 1) + 1 = p /\ (p - 1 > 0 => p > 1)
      BY <1>1
    <3>2. IsCutBefore(full, p - 1)
      BY <1>5, <2>1, <3>1, Zenon DEF IsCutBefore
    <3>3. QED
      BY <3>1, <3>2
  <2>2. ASSUME p > 1, full[p - 1] \in EndInOperator,
               NEW n \in p .. Len(full),
               \A q \in p + 1 .. n : full[q] # "(",
               n < Len(full) => full[n + 1] = "("
        PROVE  \E m \in 0 .. Len(full) : IsCutBefore(full, m)
    <3>1. n \in 0 .. Len(full) /\ p \in 1 .. n
      BY <1>1, <2>2
    <3>2. \A q \in 1 .. n : q \in 1 .. p - 1 \/ q = p \/ q \in p + 1 .. n
      BY <1>1
    <3>3. \A q \in 1 .. n : full[q] = "(" => q = p
      BY <1>5, <2>2, <3>2, Zenon
    <3>4. IsCutBefore(full, n)
      BY <1>5, <2>2, <3>1, <3>3, Zenon DEF IsCutBefore
    <3>5. QED
      BY <3>1, <3>4
  <2>3. CASE p > 1 /\ full[p - 1] \in EndInOperator
    <3>1. CASE \A q \in p + 1 .. Len(full) : full[q] # "("
      <4>1. Len(full) \in p .. Len(full) /\ ~(Len(full) < Len(full))
        BY <1>1
      <4>2. QED
        BY <2>2, <2>3, <3>1, <4>1, Zenon
    <3>2. CASE \E q \in p + 1 .. Len(full) : full[q] = "("
      <4>1. p + 1 \in Nat
        BY <1>1
      <4>2. PICK q \in p + 1 .. Len(full) :
              full[q] = "(" /\ \A r \in p + 1 .. q - 1 : full[r] # "("
        BY <1>3, <3>2, <4>1, Zenon
      <4>3. q - 1 \in p .. Len(full) /\ (q - 1) + 1 = q
        BY <1>1, <4>2
      <4>4. QED
        BY <2>2, <2>3, <4>2, <4>3, Zenon
    <3>3. QED
      BY <3>1, <3>2, Zenon
  <2>4. QED
    BY <2>1, <2>3, Zenon
<1>6. QED
  <2>1. 1 \in Nat
    OBVIOUS
  <2>2. QED
    BY <1>3, <1>4, <1>5, <2>1, Zenon

(* A path in a repository: what is between its second and its last colon.  *)
LEMMA SanitizedPath ==
  ASSUME NEW vcs \in Texts, NEW path \in Texts,
         \A p \in DOMAIN vcs : vcs[p] # ":"
  PROVE  SanitizeFilePath(<<"hg", ":">> \o vcs \o <<":">>
                            \o (path \o <<":", "revision">>)) = path
<1> DEFINE hg == <<"hg", ":">>
           colon == <<":">>
           tail == <<":", "revision">>
           start == hg \o vcs
           head == start \o colon
           rest == path \o tail
           text == head \o rest
<1>1. /\ hg \in Texts /\ Len(hg) = 2 /\ hg[1] = "hg" /\ hg[2] = ":"
      /\ colon \in Texts /\ Len(colon) = 1 /\ colon[1] = ":"
      /\ tail \in Texts /\ Len(tail) = 2 /\ tail[1] = ":" /\ tail[2] = "revision"
  BY DEF Texts, Words
<1>2. DOMAIN vcs = 1 .. Len(vcs) /\ Len(vcs) \in Nat /\ Len(path) \in Nat
  BY DEF Texts
<1> HIDE DEF hg, colon, tail
<1>3. /\ start \in Texts /\ Len(start) = Len(hg) + Len(vcs)
      /\ \A p \in 1 .. Len(hg) : start[p] = hg[p]
      /\ \A p \in 1 .. Len(vcs) : start[Len(hg) + p] = vcs[p]
  BY <1>1, Joined, Zenon
<1> HIDE DEF start
<1>4. /\ head \in Texts /\ Len(head) = Len(start) + Len(colon)
      /\ \A p \in 1 .. Len(start) : head[p] = start[p]
      /\ \A p \in 1 .. Len(colon) : head[Len(start) + p] = colon[p]
  BY <1>1, <1>3, Joined, Zenon
<1> HIDE DEF head
<1>5. /\ rest \in Texts /\ Len(rest) = Len(path) + Len(tail)
      /\ \A p \in 1 .. Len(tail) : rest[Len(path) + p] = tail[p]
      /\ SubSeq(rest, 1, Len(path)) = path
  BY <1>1, Joined, Zenon
<1> HIDE DEF rest
<1>6. /\ text \in Texts /\ Len(text) = Len(head) + Len(rest)
      /\ \A p \in 1 .. Len(head) : text[p] = head[p]
      /\ SubSeq(text, Len(head) + 1, Len(text)) = rest
  BY <1>4, <1>5, Joined, Zenon
<1> HIDE DEF text
<1>7. PICK v \in Nat, r \in Nat : v = Len(vcs) /\ r = Len(rest)
  <2>1. Len(rest) \in Nat
    BY <1>5 DEF Texts
  <2>2. QED
    BY <1>2, <2>1, Zenon
<1>8. Len(start) = 2 + v /\ Len(head) = v + 3 /\ Len(text) = v + 3 + r
  <2>1. Len(start) = 2 + v
    BY <1>1, <1>3, <1>7, Zenon
  <2>2. Len(head) = (2 + v) + 1
    BY <1>1, <1>4, <2>1, Zenon
  <2>3. Len(text) = ((2 + v) + 1) + r
    BY <1>6, <1>7, <2>2, Zenon
  <2>4. (2 + v) + 1 = v + 3
    OBVIOUS
  <2>5. QED
    BY <2>1, <2>2, <2>3, <2>4
<1>9. text[1] = "hg" /\ text[2] = ":" /\ text[v + 3] = ":"
  <2>1. /\ 1 \in 1 .. 2 /\ 2 \in 1 .. 2 /\ 1 \in 1 .. 1
        /\ 1 \in 1 .. 2 + v /\ 2 \in 1 .. 2 + v /\ (2 + v) + 1 = v + 3
        /\ 1 \in 1 .. v + 3 /\ 2 \in 1 .. v + 3 /\ v + 3 \in 1 .. v + 3
    OBVIOUS
  <2>2. start[1] = "hg" /\ start[2] = ":"
    BY <1>1, <1>3, <2>1, Zenon
  <2>3. head[1] = "hg" /\ head[2] = ":"
    BY <1>4, <1>8, <2>1, <2>2, Zenon
  <2>4. head[v + 3] = ":"
    BY <1>1, <1>4, <1>8, <2>1, Zenon
  <2>5. QED
    BY <1>6, <1>8, <2>1, <2>3, <2>4, Zenon
<1>10. ASSUME NEW q \in 3 .. v + 2
       PROVE  text[q] # ":"
  <2>1. PICK p \in 1 .. v : q = 2 + p
    <3>1. q - 2 \in 1 .. v /\ q = 2 + (q - 2)
      BY <1>10
    <3>2. QED
      BY <3>1, Zenon
  <2>2. q \in 1 .. 2 + v /\ q \in 1 .. v + 3
    BY <1>10
  <2>3. vcs[p] # ":"
    BY <1>2, <1>7, <2>1, Zenon
  <2>4. start[q] = vcs[p]
    BY <1>1, <1>3, <1>7, <2>1, Zenon
  <2>5. text[q] = start[q]
    BY <1>4, <1>6, <1>8, <2>2, Zenon
  <2>6. QED
    BY <2>3, <2>4, <2>5, Zenon
<1> DEFINE cut == [k \in Nat |-> IF k = 0 THEN 0 ELSE IF k = 1 THEN 2 ELSE v + 3]
<1>11. /\ cut \in [Nat -> Nat]
       /\ cut[0] = 0 /\ cut[1] = 2 /\ cut[2] = v + 3
  OBVIOUS
<1> HIDE DEF cut
<1>12. IsCut(cut, text, ":", 2)
  <2>1. ASSUME NEW k \in Nat, k < 2
        PROVE  /\ cut[k] < cut[k + 1]
               /\ cut[k + 1] <= Len(text)
               /\ text[cut[k + 1]] = ":"
               /\ \A q \in cut[k] + 1 .. cut[k + 1] - 1 : text[q] # ":"
    <3>1. CASE k = 0
      <4>1. /\ cut[k] = 0 /\ cut[k + 1] = 2 /\ 0 < 2
            /\ \A q \in 0 + 1 .. 2 - 1 : q = 1
        BY <1>11, <3>1
      <4>2. 2 <= Len(text)
        BY <1>8
      <4>3. "hg" # ":"
        BY Zenon
      <4>4. QED
        BY <1>9, <4>1, <4>2, <4>3, Zenon
    <3>2. CASE k = 1
      <4>1. cut[k] = 2 /\ cut[k + 1] = v + 3
        BY <1>11, <3>2
      <4>2. /\ 2 < v + 3 /\ v + 3 <= Len(text)
            /\ \A q \in 2 + 1 .. (v + 3) - 1 : q \in 3 .. v + 2
        BY <1>8
      <4>3. QED
        BY <1>9, <1>10, <4>1, <4>2, Zenon
    <3>3. QED
      BY <2>1, <3>1, <3>2
  <2>2. QED
    BY <1>11, <2>1, Zenon DEF IsCut
<1>13. Split(text, ":", 3)[3] = rest
  <2>1. 2 \in Nat /\ 3 \in Nat /\ 3 = 2 + 1
    OBVIOUS
  <2>2. CutAt(cut, text, ":", 2, 3)
    BY <1>6, <1>11, <1>12, <2>1, SplitParts, Zenon
  <2>3. QED
    BY <1>6, <1>8, <1>11, <2>2, Zenon DEF CutAt
<1>14. StartsWith(text, hg)
  <2>1. \A p \in 1 .. 2 : p = 1 \/ p = 2
    OBVIOUS
  <2>2. 2 <= Len(text)
    BY <1>8
  <2>3. \A p \in 1 .. Len(hg) : text[p] = hg[p]
    BY <1>1, <1>9, <2>1, Zenon
  <2>4. QED
    BY <1>1, <1>6, <2>2, <2>3, StartsWithWords, Zenon
<1>15. SelectLastInSeq(rest, LAMBDA w : w = ":") = Len(path) + 1
  <2> DEFINE colons == {q \in 1 .. Len(rest) : rest[q] = ":"}
  <2>1. Len(rest) = Len(path) + 2
    BY <1>1, <1>5, Zenon
  <2>2. rest[Len(path) + 1] = ":" /\ rest[Len(path) + 2] = "revision"
    <3>1. 1 \in 1 .. 2 /\ 2 \in 1 .. 2
      OBVIOUS
    <3>2. QED
      BY <1>1, <1>5, <3>1, Zenon
  <2>3. colons \in SUBSET Nat /\ Len(path) + 1 \in colons
    BY <1>2, <2>1, <2>2
  <2>4. ASSUME NEW q \in colons
        PROVE  q <= Len(path) + 1
    <3>1. q # Len(path) + 2
      <4>1. "revision" # ":"
        BY Zenon
      <4>2. QED
        BY <2>2, <4>1, Zenon
    <3>2. QED
      BY <1>2, <2>1, <3>1
  <2> HIDE DEF colons
  <2>5. Max(colons) = Len(path) + 1 /\ colons # {}
    BY <2>3, <2>4, MaxIs
  <2>6. QED
    BY <2>5 DEF SelectLastInSeq, colons
<1>16. Len(path) + 1 # 0 /\ (Len(path) + 1) - 1 = Len(path)
  BY <1>2
<1>17. SanitizeFilePath(text) = path
  BY <1>5, <1>13, <1>14, <1>15, <1>16 DEF SanitizeFilePath, hg
<1>18. QED
  BY <1>17 DEF text, head, start, rest, hg, colon, tail

(* A number reads back from its digits.                                    *)
LEMMA NumberIs ==
  ASSUME NEW f, Injective(f), NEW n \in DOMAIN f
  PROVE  Number(f, <<f[n]>>) = n
<1>1. \A a, b \in DOMAIN f : <<f[a]>> = <<f[b]>> => a = b
  BY DEF Injective
<1>2. QED
  BY <1>1, Zenon DEF Number

Reserved == Spaces \cup {"m", "FUNC", "PUBLIC", "FILE"}

LEMMA Numerals ==
  /\ 0 \in DOMAIN Hex /\ Injective(Hex) /\ Injective(Dec)
  /\ \A n \in DOMAIN Hex : Hex[n] \in Words /\ Hex[n] \notin Reserved
  /\ \A n \in DOMAIN Dec : Dec[n] \in Words /\ Dec[n] \notin Reserved
<1>1. STRING \subseteq Words
  BY Zenon DEF Words
<1>2. QED
  BY FileAssumption, <1>1, Zenon DEF FileAssumption, Reserved

LEMMA ReservedWords ==
  /\ Space \in Reserved /\ Space \in Words /\ Spaces \subseteq Reserved
  /\ \A tag \in {"FUNC", "PUBLIC", "FILE", "m"} :
       tag \in Reserved /\ tag \in Words /\ tag # Space
<1>1. "FUNC" # Space /\ "PUBLIC" # Space /\ "FILE" # Space /\ "m" # Space
  BY Zenon DEF Space
<1>2. QED
  BY <1>1, Zenon DEF Reserved, Spaces, Words

(* The tokens before the numbers of a symbol.                              *)
Heads(tag, record) == <<tag, Space>> \o M(record)
HeadCount(record) == IF record.m THEN 2 ELSE 1

IsHead(heads, h, tag) ==
  /\ Delimited(heads, Space, h)
  /\ h = 1 \/ h = 2
  /\ heads[1] = tag /\ heads[2] = Space
  /\ h = 2 => heads[3] = "m" /\ heads[4] = Space

LEMMA HeadWords ==
  ASSUME NEW tag \in {"FUNC", "PUBLIC"}, NEW record, record.m \in BOOLEAN
  PROVE  /\ Heads(tag, record) \in Texts
         /\ HeadCount(record) \in Nat
         /\ IsHead(Heads(tag, record), HeadCount(record), tag)
<1> DEFINE tagged == <<tag, Space>>
           heads == tagged \o M(record)
<1>1. tag \in Words /\ tag # Space /\ "m" # Space /\ Space \in Words /\ "m" \in Words
  BY ReservedWords
<1>2. /\ tagged \in Texts /\ Len(tagged) = 2 /\ tagged[1] = tag /\ tagged[2] = Space
  BY <1>1 DEF Texts
<1> HIDE DEF tagged
<1>3. Delimited(tagged, Space, 1)
  BY <1>1, <1>2 DEF Delimited
<1>4. CASE record.m
  <2> DEFINE ms == <<"m", Space>>
  <2>1. M(record) = ms /\ HeadCount(record) = 2
    BY <1>4 DEF M, HeadCount
  <2>2. ms \in Texts /\ Len(ms) = 2 /\ ms[1] = "m" /\ ms[2] = Space
    BY <1>1 DEF Texts
  <2> HIDE DEF ms
  <2>3. Delimited(ms, Space, 1)
    BY <1>1, <2>2 DEF Delimited
  <2>4. 1 \in Nat /\ 1 + 1 = 2 /\ 2 + 1 = 3 /\ 2 + 2 = 4 /\ 1 \in 1 .. 2 /\ 2 \in 1 .. 2
    OBVIOUS
  <2>5. Delimited(tagged \o ms, Space, 1 + 1)
    BY <1>2, <1>3, <2>2, <2>3, <2>4, DelimitedBehind, Zenon
  <2>6. /\ tagged \o ms \in Texts
        /\ \A p \in 1 .. Len(tagged) : (tagged \o ms)[p] = tagged[p]
        /\ \A p \in 1 .. Len(ms) : (tagged \o ms)[Len(tagged) + p] = ms[p]
    BY <1>2, <2>2, Joined, Zenon
  <2>7. /\ (tagged \o ms)[1] = tag /\ (tagged \o ms)[2] = Space
        /\ (tagged \o ms)[2 + 1] = "m" /\ (tagged \o ms)[2 + 2] = Space
    BY <1>2, <2>2, <2>4, <2>6, Zenon
  <2>8. 2 \in Nat
    OBVIOUS
  <2>9. IsHead(tagged \o ms, 2, tag)
    BY <2>4, <2>5, <2>7, Zenon DEF IsHead
  <2>10. QED
    BY <2>1, <2>6, <2>8, <2>9, Zenon DEF Heads, tagged
<1>5. CASE ~record.m
  <2>1. M(record) = <<>> /\ HeadCount(record) = 1
    BY <1>5 DEF M, HeadCount
  <2>2. tagged \o <<>> = tagged
    BY <1>2 DEF Texts
  <2>3. 1 \in Nat /\ 1 # 2
    OBVIOUS
  <2>4. IsHead(tagged, 1, tag)
    BY <1>2, <1>3, <2>3, Zenon DEF IsHead
  <2>5. QED
    BY <1>2, <2>1, <2>2, <2>3, <2>4, Zenon DEF Heads, tagged
<1>6. QED
  BY <1>4, <1>5

(* The line of a symbol: its tag, m or not, n numbers, and the rest.       *)
IsNumbers(nums, n) == n # 0 /\ Delimited(nums, Space, n) /\ nums[1] # "m"

HasSymbol(text, tag, h, nums, n, rest) ==
  /\ text[1] = tag /\ StartsWith(text, <<tag, Space>>)
  /\ StartsWith(text, <<tag, Space, "m", Space>>) <=> h = 2
  /\ \A k \in Nat : k < n =>
       Split(text, Space, h + n + 1)[h + k + 1] = <<nums[2 * k + 1]>>
  /\ Split(text, Space, h + n + 1)[h + n + 1] = rest

LEMMA SymbolTokens ==
  ASSUME NEW heads \in Texts, NEW h \in Nat, NEW tag \in Words,
         IsHead(heads, h, tag),
         NEW nums \in Texts, NEW n \in Nat, IsNumbers(nums, n), NEW rest \in Texts
  PROVE  HasSymbol(heads \o nums \o rest, tag, h, nums, n, rest)
<1> DEFINE start == heads \o nums
           text == start \o rest
<1>1. /\ Delimited(heads, Space, h)
      /\ heads[1] = tag /\ heads[2] = Space
      /\ h = 2 => heads[3] = "m" /\ heads[4] = Space
  BY DEF IsHead
<1>2. h = 1 \/ h = 2
  BY DEF IsHead
<1>3. n # 0 /\ nums[1] # "m"
  BY DEF IsNumbers
<1>4. Delimited(heads, Space, h) /\ Delimited(nums, Space, n)
  BY DEF IsHead, IsNumbers
<1>5. /\ Delimited(start, Space, h + n)
      /\ \A k \in Nat : k < h => start[2 * k + 1] = heads[2 * k + 1]
      /\ \A k \in Nat : k < n => start[2 * (h + k) + 1] = nums[2 * k + 1]
  <2>1. Delimited(start, Space, h + n) /\ InOrder(start, heads, h, nums, n)
    BY <1>4, DelimitedBehind, Zenon
  <2>2. QED
    BY <2>1, Zenon DEF InOrder
<1>6. /\ start \in Texts
      /\ \A p \in 1 .. Len(heads) : start[p] = heads[p]
  BY <1>1, Joined, Zenon
<1> HIDE DEF start
<1>7. start \in Texts
  BY <1>6
<1>8. /\ text \in Texts /\ Len(text) = Len(start) + Len(rest)
      /\ \A p \in 1 .. Len(start) : text[p] = start[p]
  BY <1>6, Joined, Zenon
<1>9. PICK hn \in Nat : hn = h + n
  <2>1. h + n \in Nat
    OBVIOUS
  <2>2. QED
    BY <2>1, Zenon
<1>10. PICK max \in Nat : max = hn + 1
  <2>1. hn + 1 \in Nat
    OBVIOUS
  <2>2. QED
    BY <2>1, Zenon
<1>11. Delimited(start, Space, hn)
  BY <1>5, <1>9, Zenon
<1>12. /\ \A k \in Nat : k < hn => Split(text, Space, max)[k + 1] = <<start[2 * k + 1]>>
       /\ Split(text, Space, max)[max] = rest
  <2>1. HasTokens(Split(text, Space, max), start, hn, rest)
    BY <1>7, <1>10, <1>11, SplitWords, Zenon
  <2>2. QED
    BY <1>10, <2>1, Zenon DEF HasTokens
<1> HIDE DEF text
<1>13. ASSUME NEW k \in Nat, k < n
       PROVE  Split(text, Space, max)[h + k + 1] = <<nums[2 * k + 1]>>
  <2>1. h + k \in Nat /\ h + k < hn
    BY <1>9, <1>13
  <2>2. Split(text, Space, max)[(h + k) + 1] = <<start[2 * (h + k) + 1]>>
    BY <1>12, <2>1, Zenon
  <2>3. start[2 * (h + k) + 1] = nums[2 * k + 1]
    BY <1>5, <1>13, Zenon
  <2>4. QED
    BY <2>2, <2>3, Zenon
<1>14. Len(heads) = 2 * h /\ Len(start) = 2 * (h + n)
  BY <1>1, <1>5, Zenon DEF Delimited
<1>15. /\ 1 \in 1 .. Len(heads) /\ 2 \in 1 .. Len(heads)
       /\ h = 2 => 3 \in 1 .. Len(heads) /\ 4 \in 1 .. Len(heads)
       /\ \A p \in 1 .. Len(heads) : p \in 1 .. Len(start)
       /\ 3 \in 1 .. Len(start) /\ 4 \in 1 .. Len(start)
  BY <1>2, <1>3, <1>14
<1>16. /\ text[1] = tag /\ text[2] = Space
       /\ h = 2 => text[3] = "m" /\ text[4] = Space
  <2>1. \A p \in 1 .. Len(heads) : text[p] = heads[p]
    BY <1>6, <1>8, <1>15, Zenon
  <2>2. QED
    BY <1>1, <1>15, <2>1, Zenon
<1>17. h = 1 => text[3] # "m"
  <2>1. SUFFICES ASSUME h = 1 PROVE text[3] # "m"
    OBVIOUS
  <2>2. h = 1 /\ 2 * (1 + 0) + 1 = 3 /\ 2 * 0 + 1 = 1 /\ 0 \in Nat /\ 0 < n
    BY <1>2, <1>3, <2>1
  <2>3. start[3] = nums[1]
    BY <1>5, <2>2, Zenon
  <2>4. QED
    BY <1>8, <1>15, <1>3, <2>3, Zenon
<1>18. 4 <= Len(text)
  <2>1. PICK r \in Nat : r = Len(rest)
    <3>1. Len(rest) \in Nat
      BY DEF Texts
    <3>2. QED
      BY <3>1
  <2>2. Len(text) = 2 * (h + n) + r
    BY <1>8, <1>14, <2>1, Zenon
  <2>3. QED
    BY <1>2, <1>3, <2>2
<1>19. tag \in Words /\ Space \in Words /\ "m" \in Words
  BY ReservedWords
<1>20. StartsWith(text, <<tag, Space>>)
  <2>1. 2 <= Len(text)
    BY <1>8, <1>18 DEF Texts
  <2>2. QED
    BY <1>8, <1>16, <1>19, <2>1, StartsTwo
<1>21. StartsWith(text, <<tag, Space, "m", Space>>) <=> h = 2
  BY <1>2, <1>8, <1>16, <1>17, <1>18, <1>19, StartsFour
<1>22. QED
  BY <1>8, <1>9, <1>10, <1>12, <1>13, <1>16, <1>20, <1>21, Zenon
  DEF text, start, HasSymbol

LEMMA RecordFields ==
  ASSUME NEW record \in Record
  PROVE  /\ record.kind \in {"FUNC", "PUBLIC", "FILE", "LINE", "other"}
         /\ record.kind = "FUNC" =>
              /\ record.m \in BOOLEAN
              /\ record.address \in DOMAIN Hex /\ record.size \in DOMAIN Hex
              /\ record.name \in Texts /\ record.params \in Texts
         /\ record.kind = "PUBLIC" =>
              /\ record.m \in BOOLEAN /\ record.address \in DOMAIN Hex
              /\ record.name \in Texts
         /\ record.kind = "FILE" =>
              /\ record.id \in DOMAIN Dec
              /\ record.vcs \in Texts /\ record.path \in Texts
         /\ record.kind = "LINE" =>
              /\ record.address \in DOMAIN Hex /\ record.size \in DOMAIN Hex
              /\ record.line \in DOMAIN Dec /\ record.file \in DOMAIN Dec
         /\ record.kind = "other" => record.text \in Texts
<1>1. Text \subseteq Texts
  <2>1. STRING \subseteq Words
    BY Zenon DEF Words
  <2>2. QED
    BY <2>1, SeqMonotonic, Zenon DEF Text, Texts
<1>2. \/ record \in [kind : {"FUNC"}, m : BOOLEAN, address : DOMAIN Hex,
                     size : DOMAIN Hex, name : Text, params : Text]
      \/ record \in [kind : {"PUBLIC"}, m : BOOLEAN, address : DOMAIN Hex,
                     name : Text]
      \/ record \in [kind : {"FILE"}, id : DOMAIN Dec, vcs : Text, path : Text]
      \/ record \in [kind : {"LINE"}, address : DOMAIN Hex, size : DOMAIN Hex,
                     line : DOMAIN Dec, file : DOMAIN Dec]
      \/ record \in [kind : {"other"}, text : Text]
  BY DEF Record
<1>3. QED
  BY <1>1, <1>2

LEMMA AssociativeText ==
  ASSUME NEW a \in Texts, NEW b \in Texts, NEW c \in Texts
  PROVE  (a \o b) \o c = a \o (b \o c)
BY ConcatAssociative DEF Texts

(* A function's line, with or without m.                                   *)
LEMMA FuncLine ==
  ASSUME NEW record \in Record, WellFormed(record), record.kind = "FUNC"
  PROVE  LET line == Trim(Written(record))
             start == IF StartsWith(line, <<"FUNC", Space, "m", Space>>)
                      THEN 3 ELSE 2
             tokens == Split(line, Space, start + 3)
             funcName == tokens[start + 3]
         IN  /\ line \in Texts /\ StartsWith(line, <<"FUNC", Space>>)
             /\ Number(Hex, tokens[start]) = record.address
             /\ Number(Hex, tokens[start + 1]) = record.size
             /\ funcName = record.name \o record.params
<1> DEFINE heads == Heads("FUNC", record)
           h == HeadCount(record)
           nums == <<Hex[record.address], Space, Hex[record.size], Space,
                     Hex[0], Space>>
           name == record.name
           params == record.params
           full == name \o params
           line == heads \o nums \o full
<1>1. /\ record.m \in BOOLEAN
      /\ record.address \in DOMAIN Hex /\ record.size \in DOMAIN Hex
      /\ name \in Texts /\ params \in Texts
  BY RecordFields
<1>2. Trimmed(full)
  BY DEF WellFormed
<1>3. Written(record) = heads \o nums \o name \o params \o EndOfLine
  BY Zenon DEF Written, Heads
<1>4. heads \in Texts /\ h \in Nat /\ IsHead(heads, h, "FUNC")
  BY <1>1, HeadWords
<1>5. /\ nums \in Texts /\ Len(nums) = 6
      /\ nums[1] = Hex[record.address] /\ nums[2] = Space
      /\ nums[3] = Hex[record.size] /\ nums[4] = Space
      /\ nums[5] = Hex[0] /\ nums[6] = Space
      /\ nums[1] # Space /\ nums[3] # Space /\ nums[5] # Space /\ nums[1] # "m"
  <2>1. \A n \in DOMAIN Hex : Hex[n] \in Words /\ Hex[n] # Space /\ Hex[n] # "m"
    BY Numerals, ReservedWords DEF Reserved
  <2>2. Space \in Words /\ 0 \in DOMAIN Hex
    BY Numerals, ReservedWords
  <2>3. QED
    BY <1>1, <2>1, <2>2 DEF Texts
<1> HIDE DEF heads, h, nums, name, params
<1>6. IsNumbers(nums, 3)
  <2>1. \A k \in Nat : k < 3 => k = 0 \/ k = 1 \/ k = 2
    OBVIOUS
  <2>2. /\ 2 * 0 + 1 = 1 /\ 2 * 0 + 2 = 2 /\ 2 * 1 + 1 = 3 /\ 2 * 1 + 2 = 4
        /\ 2 * 2 + 1 = 5 /\ 2 * 2 + 2 = 6 /\ 2 * 3 = 6 /\ 3 # 0
    OBVIOUS
  <2>3. Delimited(nums, Space, 3)
    BY <1>5, <2>1, <2>2 DEF Delimited
  <2>4. QED
    BY <1>5, <2>2, <2>3 DEF IsNumbers
<1>7. full \in Texts
  BY <1>1, Joined
<1>8. Trim(Written(record)) = line /\ line \in Texts
  <2>1. heads \o nums \in Texts
    BY <1>4, <1>5, Joined, Zenon
  <2>2. heads \o nums \o name \o params = line
    BY <1>1, <2>1, AssociativeText, Zenon
  <2>3. line \in Texts /\ Trimmed(line)
    BY <1>2, <1>7, <2>1, Joined, TrimmedBehind, Zenon
  <2>4. Trim(line \o EndOfLine) = line
    BY <2>3, TrimTrimmed, Zenon
  <2>5. QED
    BY <1>3, <2>2, <2>3, <2>4, Zenon
<1> HIDE DEF full
<1>9. /\ StartsWith(line, <<"FUNC", Space>>)
      /\ StartsWith(line, <<"FUNC", Space, "m", Space>>) <=> h = 2
      /\ \A k \in Nat : k < 3 =>
           Split(line, Space, h + 3 + 1)[h + k + 1] = <<nums[2 * k + 1]>>
      /\ Split(line, Space, h + 3 + 1)[h + 3 + 1] = full
  <2>1. "FUNC" \in Words /\ 3 \in Nat
    BY ReservedWords
  <2>2. HasSymbol(line, "FUNC", h, nums, 3, full)
    BY <1>4, <1>5, <1>6, <1>7, <2>1, SymbolTokens
  <2>3. QED
    BY <2>2, Zenon DEF HasSymbol
<1> HIDE DEF line
<1> DEFINE start == IF StartsWith(line, <<"FUNC", Space, "m", Space>>)
                    THEN 3 ELSE 2
           tokens == Split(line, Space, start + 3)
<1>10. start = h + 1 /\ start + 3 = h + 3 + 1 /\ start + 1 = h + 1 + 1
  BY <1>4, <1>9 DEF IsHead
<1> HIDE DEF start
<1>11. /\ tokens[start] = <<Hex[record.address]>>
       /\ tokens[start + 1] = <<Hex[record.size]>>
       /\ tokens[start + 3] = full
  <2>1. /\ 0 \in Nat /\ 1 \in Nat /\ 0 < 3 /\ 1 < 3
        /\ 2 * 0 + 1 = 1 /\ 2 * 1 + 1 = 3 /\ h + 0 + 1 = h + 1
    BY <1>4
  <2>2. Split(line, Space, start + 3)[h + 0 + 1] = <<nums[2 * 0 + 1]>>
    BY <1>9, <1>10, <2>1, Zenon
  <2>3. Split(line, Space, start + 3)[h + 1 + 1] = <<nums[2 * 1 + 1]>>
    BY <1>9, <1>10, <2>1, Zenon
  <2>4. QED
    BY <1>5, <1>9, <1>10, <2>1, <2>2, <2>3, Zenon
<1>12. /\ Number(Hex, tokens[start]) = record.address
       /\ Number(Hex, tokens[start + 1]) = record.size
  BY <1>1, <1>11, Numerals, NumberIs, Zenon
<1>13. QED
  BY <1>8, <1>9, <1>11, <1>12, Zenon DEF start, full, name, params

(* The reader takes a function's text apart where NameEnd says.            *)
LEMMA SymbolIs ==
  ASSUME NEW record \in Record, record.kind = "FUNC"
  PROVE  LET written == record.name \o record.params
         IN  ToSymbol(record) =
               BpSymbolInfo(record.address, record.size,
                            SymName(written), Params(written))
<1> DEFINE name == record.name
           params == record.params
           full == name \o params
           n == NameEnd(record)
<1>1. name \in Texts /\ params \in Texts
  BY RecordFields
<1>2. full \in Texts /\ Len(full) \in Nat
  BY <1>1, Joined DEF Texts
<1>3. /\ n \in 0 .. Len(full)
      /\ ToldApart(SubSeq(full, 1, n), SubSeq(full, n + 1, Len(full)))
  <2>1. CASE ToldApart(name, params)
    <3>1. n = Len(name)
      BY <2>1 DEF NameEnd
    <3>2. /\ Len(name) \in Nat /\ Len(params) \in Nat
          /\ Len(full) = Len(name) + Len(params)
          /\ SubSeq(full, 1, Len(name)) = name
          /\ SubSeq(full, Len(name) + 1, Len(full)) = params
      BY <1>1, Joined, Zenon
    <3>3. Len(name) \in 0 .. Len(full)
      <4>1. \A a, b \in Nat : a \in 0 .. a + b
        OBVIOUS
      <4>2. QED
        BY <3>2, <4>1, Zenon
    <3>4. QED
      BY <2>1, <3>1, <3>2, <3>3, Zenon
  <2>2. CASE ~ToldApart(name, params)
    <3>1. n = CHOOSE m \in 0 .. Len(full) :
                ToldApart(SubSeq(full, 1, m), SubSeq(full, m + 1, Len(full)))
      BY <2>2, Zenon DEF NameEnd
    <3>2. QED
      BY <1>2, <3>1, CutExists, Zenon
  <2>3. QED
    BY <2>1, <2>2
<1> HIDE DEF n
<1> DEFINE first == SubSeq(full, 1, n)
           second == SubSeq(full, n + 1, Len(full))
<1>4. first \in Texts /\ second \in Texts /\ first \o second = full
  BY <1>2, <1>3, PartsOf, Zenon
<1>5. SymName(first \o second) = first /\ Params(first \o second) = second
  BY <1>3, <1>4, NameAndParams, Zenon
<1>6. ToSymbol(record) = BpSymbolInfo(record.address, record.size, first, second)
  BY Zenon DEF ToSymbol, n
<1>7. QED
  BY <1>4, <1>5, <1>6, Zenon

(* "Distinguish between func(params) and operator()(params)" (line 329):   *)
(* it does where the name has only the parenthesis of operator(), if any,  *)
(* and does not end in those eight letters.                                *)
THEOREM FunctionsUnderTheirNames ==
  ASSUME NEW record \in Record, record.kind = "FUNC",
         ToldApart(record.name, record.params)
  PROVE  /\ SymName(record.name \o record.params) = record.name
         /\ Params(record.name \o record.params) = record.params
         /\ ToSymbol(record).mName = record.name
         /\ ToSymbol(record).mParams = record.params
<1>1. record.name \in Texts /\ record.params \in Texts
  BY RecordFields
<1>2. /\ SymName(record.name \o record.params) = record.name
      /\ Params(record.name \o record.params) = record.params
  BY <1>1, NameAndParams, Zenon
<1>3. ToSymbol(record) = BpSymbolInfo(record.address, record.size,
                                      record.name, record.params)
  BY <1>2, SymbolIs, Zenon
<1>4. ToSymbol(record).mName = record.name /\ ToSymbol(record).mParams = record.params
  BY <1>3 DEF BpSymbolInfo
<1>5. QED
  BY <1>2, <1>4

(* Where a name does end in them, as in set_operator(int), it is taken for *)
(* operator() and the parenthesis of its parameters for that of the name:  *)
(* if there is no other, all is filed as the name, without parameters.     *)
THEOREM NamesInOperatorKeepParams ==
  ASSUME NEW record \in Record, record.kind = "FUNC",
         record.name # <<>>, record.params # <<>>,
         record.name[Len(record.name)] \in EndInOperator,
         \A p \in DOMAIN record.name : record.name[p] # "(",
         \A p \in DOMAIN record.params : record.params[p] = "(" <=> p = 1
  PROVE  LET written == record.name \o record.params
         IN  /\ SymName(written) = written /\ Params(written) = <<>>
             /\ ToSymbol(record).mName = written
             /\ ToSymbol(record).mParams = <<>>
<1> DEFINE name == record.name
           params == record.params
           full == name \o params
           n == Len(name)
<1>1. name \in Texts /\ params \in Texts /\ <<>> \in Texts
  BY RecordFields DEF Texts
<1>2. /\ full \in Texts /\ Len(full) = n + Len(params)
      /\ n \in Nat /\ Len(params) \in Nat
      /\ \A p \in 1 .. n : full[p] = name[p]
      /\ \A p \in 1 .. Len(params) : full[n + p] = params[p]
  BY <1>1, Joined, Zenon
<1>3. /\ n # 0 /\ DOMAIN name = 1 .. n /\ DOMAIN params = 1 .. Len(params)
      /\ DOMAIN full = 1 .. Len(full) /\ full \o <<>> = full
  BY <1>1, <1>2 DEF Texts
<1>4. \A p \in 1 .. n : name[p] # "("
  BY <1>3, Zenon
<1>5. \A p \in 1 .. Len(params) : params[p] = "(" <=> p = 1
  BY <1>3, Zenon
<1>6. name[n] \in EndInOperator
  OBVIOUS
<1> HIDE DEF name, params, full, n
<1>7. ASSUME NEW p \in DOMAIN full, full[p] = "("
      PROVE  p = n + 1
  <2>1. CASE p \in 1 .. n
    BY <1>2, <1>4, <1>7, <2>1, Zenon
  <2>2. CASE p \notin 1 .. n
    <3>1. p - n \in 1 .. Len(params) /\ n + (p - n) = p
      BY <1>2, <1>3, <2>2
    <3>2. params[p - n] = "("
      BY <1>2, <1>7, <3>1, Zenon
    <3>3. p - n = 1
      BY <1>5, <3>1, <3>2, Zenon
    <3>4. QED
      BY <1>2, <3>1, <3>3
  <2>3. QED
    BY <2>1, <2>2
<1>8. full[n] \in EndInOperator /\ (n + 1) - 1 = n /\ n + 1 > 1
  BY <1>2, <1>3, <1>6
<1>9. ToldApart(full, <<>>)
  BY <1>7, <1>8, Zenon DEF ToldApart
<1>10. SymName(full) = full /\ Params(full) = <<>>
  <2>1. /\ SymName(full \o <<>>) = full
        /\ Params(full \o <<>>) = <<>>
    BY <1>1, <1>2, <1>9, NameAndParams
  <2>2. QED
    BY <1>3, <2>1
<1>11. ToSymbol(record) = BpSymbolInfo(record.address, record.size, full, <<>>)
  BY <1>10, SymbolIs, Zenon DEF full, name, params
<1>12. ToSymbol(record).mName = full /\ ToSymbol(record).mParams = <<>>
  BY <1>11 DEF BpSymbolInfo
<1>13. QED
  BY <1>10, <1>12 DEF full, name, params

(* The line of a symbol without debug information.                         *)
LEMMA PublicLine ==
  ASSUME NEW record \in Record, WellFormed(record), record.kind = "PUBLIC"
  PROVE  LET line == Trim(Written(record))
             start == IF StartsWith(line, <<"PUBLIC", Space, "m", Space>>)
                      THEN 3 ELSE 2
             tokens == Split(line, Space, start + 2)
         IN  /\ line \in Texts /\ StartsWith(line, <<"PUBLIC", Space>>)
             /\ Number(Hex, tokens[start]) = record.address
             /\ tokens[start + 2] = record.name
<1> DEFINE heads == Heads("PUBLIC", record)
           h == HeadCount(record)
           nums == <<Hex[record.address], Space, Hex[0], Space>>
           name == record.name
           line == heads \o nums \o name
<1>1. /\ record.m \in BOOLEAN /\ record.address \in DOMAIN Hex
      /\ name \in Texts
  BY RecordFields
<1>2. Trimmed(name)
  BY DEF WellFormed
<1>3. Written(record) = line
  <2>1. record.kind # "FUNC"
    OBVIOUS
  <2>2. QED
    BY <2>1, Zenon DEF Written, Heads
<1>4. heads \in Texts /\ h \in Nat /\ IsHead(heads, h, "PUBLIC")
  BY <1>1, HeadWords
<1>5. /\ nums \in Texts /\ Len(nums) = 4
      /\ nums[1] = Hex[record.address] /\ nums[2] = Space
      /\ nums[3] = Hex[0] /\ nums[4] = Space
      /\ nums[1] # Space /\ nums[3] # Space /\ nums[1] # "m"
  <2>1. \A n \in DOMAIN Hex : Hex[n] \in Words /\ Hex[n] # Space /\ Hex[n] # "m"
    BY Numerals, ReservedWords DEF Reserved
  <2>2. Space \in Words /\ 0 \in DOMAIN Hex
    BY Numerals, ReservedWords
  <2>3. QED
    BY <1>1, <2>1, <2>2 DEF Texts
<1> HIDE DEF heads, h, nums, name
<1>6. IsNumbers(nums, 2)
  <2>1. \A k \in Nat : k < 2 => k = 0 \/ k = 1
    OBVIOUS
  <2>2. /\ 2 * 0 + 1 = 1 /\ 2 * 0 + 2 = 2 /\ 2 * 1 + 1 = 3 /\ 2 * 1 + 2 = 4
        /\ 2 * 2 = 4 /\ 2 # 0
    OBVIOUS
  <2>3. Delimited(nums, Space, 2)
    BY <1>5, <2>1, <2>2 DEF Delimited
  <2>4. QED
    BY <1>5, <2>2, <2>3 DEF IsNumbers
<1>7. Trim(Written(record)) = line /\ line \in Texts
  <2>1. heads \o nums \in Texts
    BY <1>4, <1>5, Joined, Zenon
  <2>2. line \in Texts /\ Trimmed(line)
    BY <1>1, <1>2, <2>1, Joined, TrimmedBehind, Zenon
  <2>3. QED
    BY <1>3, <2>2, TrimTrimmed, Zenon
<1>8. /\ StartsWith(line, <<"PUBLIC", Space>>)
      /\ StartsWith(line, <<"PUBLIC", Space, "m", Space>>) <=> h = 2
      /\ \A k \in Nat : k < 2 =>
           Split(line, Space, h + 2 + 1)[h + k + 1] = <<nums[2 * k + 1]>>
      /\ Split(line, Space, h + 2 + 1)[h + 2 + 1] = name
  <2>1. "PUBLIC" \in Words /\ 2 \in Nat
    BY ReservedWords
  <2>2. HasSymbol(line, "PUBLIC", h, nums, 2, name)
    BY <1>1, <1>4, <1>5, <1>6, <2>1, SymbolTokens
  <2>3. QED
    BY <2>2, Zenon DEF HasSymbol
<1> HIDE DEF line
<1> DEFINE start == IF StartsWith(line, <<"PUBLIC", Space, "m", Space>>)
                    THEN 3 ELSE 2
           tokens == Split(line, Space, start + 2)
<1>9. start = h + 1 /\ start + 2 = h + 2 + 1
  BY <1>4, <1>8 DEF IsHead
<1> HIDE DEF start
<1>10. tokens[start] = <<Hex[record.address]>> /\ tokens[start + 2] = name
  <2>1. 0 \in Nat /\ 0 < 2 /\ 2 * 0 + 1 = 1 /\ h + 0 + 1 = h + 1
    BY <1>4
  <2>2. Split(line, Space, start + 2)[h + 0 + 1] = <<nums[2 * 0 + 1]>>
    BY <1>8, <1>9, <2>1, Zenon
  <2>3. QED
    BY <1>5, <1>8, <1>9, <2>1, <2>2, Zenon
<1>11. Number(Hex, tokens[start]) = record.address
  BY <1>1, <1>10, Numerals, NumberIs, Zenon
<1>12. QED
  BY <1>7, <1>8, <1>10, <1>11, Zenon DEF start, name

(* The line of a file id.                                                  *)
LEMMA FileLine ==
  ASSUME NEW record \in Record, WellFormed(record), record.kind = "FILE"
  PROVE  LET line == Trim(Written(record))
             tokens == Split(line, Space, 3)
         IN  /\ line \in Texts /\ StartsWith(line, <<"FILE", Space>>)
             /\ Number(Dec, tokens[2]) = record.id
             /\ SanitizeFilePath(tokens[3]) = record.path
<1> DEFINE words == <<"FILE", Space, Dec[record.id], Space>>
           vcs == record.vcs
           path == record.path
           hg == <<"hg", ":">>
           colon == <<":">>
           tail == <<":", "revision">>
           written == IF vcs = <<>> THEN path
                      ELSE hg \o vcs \o colon \o (path \o tail)
           line == words \o written
<1>1. record.id \in DOMAIN Dec /\ vcs \in Texts /\ path \in Texts
  BY RecordFields
<1>2. /\ Trimmed(path)
      /\ \A p \in DOMAIN vcs : vcs[p] # ":"
      /\ vcs = <<>> => ~StartsWith(path, hg)
  BY DEF WellFormed
<1>3. Written(record) = line
  <2>1. record.kind # "FUNC" /\ record.kind # "PUBLIC"
    OBVIOUS
  <2>2. QED
    BY <2>1, Zenon DEF Written
<1>4. /\ words \in Texts /\ Len(words) = 4
      /\ words[1] = "FILE" /\ words[2] = Space
      /\ words[3] = Dec[record.id] /\ words[4] = Space
      /\ words[1] # Space /\ words[3] # Space
  <2>1. \A n \in DOMAIN Dec : Dec[n] \in Words /\ Dec[n] # Space
    BY Numerals, ReservedWords DEF Reserved
  <2>2. Space \in Words /\ "FILE" \in Words /\ "FILE" # Space
    BY ReservedWords
  <2>3. QED
    BY <1>1, <2>1, <2>2 DEF Texts
<1>5. /\ hg \in Texts /\ colon \in Texts
      /\ tail \in Texts /\ Len(tail) = 2 /\ tail[2] = "revision"
  BY DEF Texts, Words
<1>6. SanitizeFilePath(written) = path
  <2>1. CASE vcs = <<>>
    BY <1>2, <2>1, Zenon DEF SanitizeFilePath
  <2>2. CASE vcs # <<>>
    BY <1>1, <1>2, <2>2, SanitizedPath, Zenon
  <2>3. QED
    BY <2>1, <2>2
<1>7. Trimmed(tail)
  <2>1. "revision" \notin Spaces
    BY Zenon DEF Spaces, Space
  <2>2. tail # <<>>
    BY <1>5
  <2>3. QED
    BY <1>5, <2>1, <2>2, Zenon DEF Trimmed
<1> HIDE DEF words, vcs, path, hg, colon, tail
<1>8. written \in Texts /\ Trimmed(written)
  <2>1. hg \o vcs \o colon \in Texts
    BY <1>1, <1>5, Joined, Zenon
  <2>2. path \o tail \in Texts /\ Trimmed(path \o tail)
    BY <1>1, <1>5, <1>7, Joined, TrimmedBehind, Zenon
  <2>3. /\ hg \o vcs \o colon \o (path \o tail) \in Texts
        /\ Trimmed(hg \o vcs \o colon \o (path \o tail))
    BY <2>1, <2>2, Joined, TrimmedBehind, Zenon
  <2>4. QED
    BY <1>1, <1>2, <2>3, Zenon
<1> HIDE DEF written
<1>9. Trim(Written(record)) = line /\ line \in Texts
  <2>1. line \in Texts /\ Trimmed(line)
    BY <1>4, <1>8, Joined, TrimmedBehind, Zenon
  <2>2. QED
    BY <1>3, <2>1, TrimTrimmed, Zenon
<1>10. Delimited(words, Space, 2)
  <2>1. \A k \in Nat : k < 2 => k = 0 \/ k = 1
    OBVIOUS
  <2>2. /\ 2 * 0 + 1 = 1 /\ 2 * 0 + 2 = 2 /\ 2 * 1 + 1 = 3 /\ 2 * 1 + 2 = 4
        /\ 2 * 2 = 4
    OBVIOUS
  <2>3. QED
    BY <1>4, <2>1, <2>2 DEF Delimited
<1>11. /\ Split(line, Space, 3)[2] = <<Dec[record.id]>>
       /\ Split(line, Space, 3)[3] = written
  <2>1. 2 \in Nat /\ 3 \in Nat /\ 3 = 2 + 1 /\ 1 \in Nat /\ 1 < 2 /\ 2 = 1 + 1
        /\ 2 * 1 + 1 = 3
    OBVIOUS
  <2>2. HasTokens(Split(line, Space, 3), words, 2, written)
    BY <1>4, <1>8, <1>10, <2>1, SplitWords
  <2>3. /\ Split(line, Space, 3)[1 + 1] = <<words[2 * 1 + 1]>>
        /\ Split(line, Space, 3)[2 + 1] = written
    BY <2>1, <2>2, Zenon DEF HasTokens
  <2>4. QED
    BY <1>4, <2>1, <2>3, Zenon
<1>12. StartsWith(line, <<"FILE", Space>>)
  <2>1. 1 \in 1 .. 4 /\ 2 \in 1 .. 4
    OBVIOUS
  <2>2. /\ Len(line) = Len(words) + Len(written) /\ Len(written) \in Nat
        /\ \A p \in 1 .. Len(words) : line[p] = words[p]
    BY <1>4, <1>8, Joined, Zenon
  <2>3. line[1] = "FILE" /\ line[2] = Space
    BY <1>4, <2>1, <2>2, Zenon
  <2>4. 2 <= Len(line)
    BY <1>4, <2>2
  <2>5. Space \in Words /\ "FILE" \in Words
    BY ReservedWords
  <2>6. QED
    BY <1>9, <2>3, <2>4, <2>5, StartsTwo
<1> HIDE DEF line
<1>13. Number(Dec, Split(line, Space, 3)[2]) = record.id
  BY <1>1, <1>11, Numerals, NumberIs, Zenon
<1>14. QED
  BY <1>6, <1>9, <1>11, <1>12, <1>13, Zenon DEF path

(* A line record: of no tag, and with a digit at its start.                *)
LEMMA LineRecordLine ==
  ASSUME NEW record \in Record, record.kind = "LINE"
  PROVE  LET line == Trim(Written(record))
             tokens == Split(line, Space, 4)
         IN  /\ line \in Texts /\ line # <<>>
             /\ line[1] = Hex[record.address]
             /\ Number(Hex, tokens[1]) = record.address
             /\ Number(Hex, tokens[2]) = record.size
             /\ Number(Dec, tokens[3]) = record.line
             /\ Number(Dec, tokens[4]) = record.file
<1> DEFINE words == <<Hex[record.address], Space, Hex[record.size], Space,
                      Dec[record.line], Space>>
           number == Dec[record.file]
           rest == <<number>>
           line == words \o rest
<1>1. /\ record.address \in DOMAIN Hex /\ record.size \in DOMAIN Hex
      /\ record.line \in DOMAIN Dec /\ record.file \in DOMAIN Dec
  BY RecordFields
<1>2. Written(record) = line \o EndOfLine
  <2>1. record.kind # "FUNC" /\ record.kind # "PUBLIC" /\ record.kind # "FILE"
    OBVIOUS
  <2>2. QED
    BY <2>1, Zenon DEF Written
<1>3. /\ \A n \in DOMAIN Hex : Hex[n] \in Words /\ Hex[n] # Space
      /\ \A n \in DOMAIN Dec : Dec[n] \in Words /\ Dec[n] # Space /\ Dec[n] \notin Spaces
  BY Numerals, ReservedWords DEF Reserved
<1>4. /\ words \in Texts /\ Len(words) = 6
      /\ words[1] = Hex[record.address] /\ words[2] = Space
      /\ words[3] = Hex[record.size] /\ words[4] = Space
      /\ words[5] = Dec[record.line] /\ words[6] = Space
      /\ words[1] # Space /\ words[3] # Space /\ words[5] # Space
  <2>1. Space \in Words
    BY ReservedWords
  <2>2. QED
    BY <1>1, <1>3, <2>1 DEF Texts
<1>5. number \in Words /\ number \notin Spaces
  BY <1>1, <1>3
<1> HIDE DEF number
<1>6. /\ rest \in Texts /\ Len(rest) = 1 /\ rest[1] = number
      /\ rest # <<>>
  BY <1>5 DEF Texts
<1> HIDE DEF words, rest
<1>7. Trimmed(rest)
  BY <1>5, <1>6, Zenon DEF Trimmed
<1>8. Trim(Written(record)) = line /\ line \in Texts
  <2>1. line \in Texts /\ Trimmed(line)
    BY <1>4, <1>6, <1>7, Joined, TrimmedBehind, Zenon
  <2>2. QED
    BY <1>2, <2>1, TrimTrimmed, Zenon
<1>9. Delimited(words, Space, 3)
  <2>1. \A k \in Nat : k < 3 => k = 0 \/ k = 1 \/ k = 2
    OBVIOUS
  <2>2. /\ 2 * 0 + 1 = 1 /\ 2 * 0 + 2 = 2 /\ 2 * 1 + 1 = 3 /\ 2 * 1 + 2 = 4
        /\ 2 * 2 + 1 = 5 /\ 2 * 2 + 2 = 6 /\ 2 * 3 = 6
    OBVIOUS
  <2>3. QED
    BY <1>4, <2>1, <2>2 DEF Delimited
<1>10. /\ Split(line, Space, 4)[1] = <<Hex[record.address]>>
       /\ Split(line, Space, 4)[2] = <<Hex[record.size]>>
       /\ Split(line, Space, 4)[3] = <<Dec[record.line]>>
       /\ Split(line, Space, 4)[4] = <<number>>
  <2>1. /\ 3 \in Nat /\ 4 \in Nat /\ 4 = 3 + 1
        /\ 0 \in Nat /\ 1 \in Nat /\ 2 \in Nat /\ 0 < 3 /\ 1 < 3 /\ 2 < 3
        /\ 0 + 1 = 1 /\ 1 + 1 = 2 /\ 2 + 1 = 3
        /\ 2 * 0 + 1 = 1 /\ 2 * 1 + 1 = 3 /\ 2 * 2 + 1 = 5
    OBVIOUS
  <2>2. HasTokens(Split(line, Space, 4), words, 3, rest)
    BY <1>4, <1>6, <1>9, <2>1, SplitWords
  <2>3. /\ Split(line, Space, 4)[0 + 1] = <<words[2 * 0 + 1]>>
        /\ Split(line, Space, 4)[1 + 1] = <<words[2 * 1 + 1]>>
        /\ Split(line, Space, 4)[2 + 1] = <<words[2 * 2 + 1]>>
        /\ Split(line, Space, 4)[3 + 1] = rest
    BY <2>1, <2>2, Zenon DEF HasTokens
  <2>4. QED
    BY <1>4, <2>1, <2>3, Zenon DEF rest
<1>11. line[1] = Hex[record.address] /\ line # <<>>
  <2>1. 1 \in 1 .. 6
    OBVIOUS
  <2>2. /\ Len(line) = Len(words) + Len(rest)
        /\ \A p \in 1 .. Len(words) : line[p] = words[p]
    BY <1>4, <1>6, Joined, Zenon
  <2>3. line[1] = Hex[record.address]
    BY <1>4, <2>1, <2>2, Zenon
  <2>4. Len(line) = 7
    BY <1>4, <1>6, <2>2
  <2>5. line # <<>>
    BY <2>4
  <2>6. QED
    BY <2>3, <2>5
<1> HIDE DEF line
<1>12. /\ Number(Hex, Split(line, Space, 4)[1]) = record.address
       /\ Number(Hex, Split(line, Space, 4)[2]) = record.size
  BY <1>1, <1>10, Numerals, NumberIs, Zenon
<1>13. /\ Number(Dec, Split(line, Space, 4)[3]) = record.line
       /\ Number(Dec, Split(line, Space, 4)[4]) = record.file
  BY <1>1, <1>10, Numerals, NumberIs, Zenon DEF number
<1>14. QED
  BY <1>8, <1>11, <1>12, <1>13, Zenon

(* trim leaves the start of a text, or nothing.                            *)
LEMMA TrimStart ==
  ASSUME NEW text \in Texts
  PROVE  /\ Trim(text) \in Texts
         /\ Trim(text) # <<>> => text # <<>> /\ Trim(text)[1] = text[1]
<1> DEFINE ends == {p \in DOMAIN text : text[p] \notin Spaces} \cup {0}
<1>1. Len(text) \in Nat /\ DOMAIN text = 1 .. Len(text)
  BY DEF Texts
<1>2. ends \in SUBSET (0 .. Len(text)) /\ 0 \in ends
  BY <1>1
<1> HIDE DEF ends
<1>3. PICK n \in ends : \A p \in ends : p <= n
  BY <1>1, <1>2, HasGreatest
<1>4. n \in 0 .. Len(text) /\ ends \in SUBSET Nat
  BY <1>1, <1>2, <1>3
<1>5. Max(ends) = n
  BY <1>3, <1>4, MaxIs
<1>6. Trim(text) = SubSeq(text, 1, n)
  BY <1>5 DEF Trim, ends
<1>7. CASE n = 0
  <2>1. SubSeq(text, 1, n) = <<>>
    BY <1>7 DEF Texts
  <2>2. <<>> \in Texts
    BY DEF Texts
  <2>3. QED
    BY <1>6, <2>1, <2>2
<1>8. CASE n # 0
  <2>1. n \in 1 .. Len(text) /\ text # <<>>
    BY <1>1, <1>4, <1>8
  <2>2. SubSeq(text, 1, n) \in Texts /\ SubSeq(text, 1, n)[1] = text[1]
    BY <2>1 DEF Texts
  <2>3. QED
    BY <1>6, <2>1, <2>2
<1>9. QED
  BY <1>7, <1>8

(* The line of any other record: no tag, no digit.                         *)
LEMMA OtherLine ==
  ASSUME NEW record \in Record, WellFormed(record), record.kind = "other"
  PROVE  LET line == Trim(Written(record))
         IN  /\ line \in Texts
             /\ line # <<>> =>
                  line[1] \notin {Hex[n] : n \in DOMAIN Hex}
                                 \cup {"FUNC", "PUBLIC", "FILE"}
<1> DEFINE text == record.text
<1>1. text \in Texts
  BY RecordFields
<1>2. /\ record.kind # "FUNC" /\ record.kind # "PUBLIC"
      /\ record.kind # "FILE" /\ record.kind # "LINE"
  OBVIOUS
<1>3. Written(record) = text
  BY <1>2, Zenon DEF Written
<1>4. text # <<>> =>
        text[1] \notin {Hex[n] : n \in DOMAIN Hex}
                       \cup {"FUNC", "PUBLIC", "FILE"}
  BY <1>2, Zenon DEF WellFormed
<1> HIDE DEF text
<1>5. QED
  BY <1>1, <1>3, <1>4, TrimStart, Zenon

-----------------------------------------------------------------------------
(* A table of the lines K: each key has the value of its first line.       *)
First(K, key, x) == Min({k \in K : key[k] = x})

Table(K, key, value) ==
  [x \in {key[k] : k \in K} |-> value[First(K, key, x)]]

LEMMA FirstIs ==
  ASSUME NEW K \in SUBSET Nat, NEW key
  PROVE  \A x \in {key[k] : k \in K} :
           First(K, key, x) \in K /\ key[First(K, key, x)] = x
<1> TAKE x \in {key[k] : k \in K}
<1> DEFINE S == {k \in K : key[k] = x}
<1>1. S \in SUBSET Nat /\ S # {}
  OBVIOUS
<1>2. Min(S) \in S
  BY <1>1, MinType
<1>3. QED
  BY <1>2 DEF First

LEMMA TableHas ==
  ASSUME NEW K \in SUBSET Nat, NEW key, NEW value, NEW n \in K
  PROVE  Emplace(Table(K, key, value), key[n], value[n]) = Table(K, key, value)
BY DEF Emplace, Table

IsBefore(K, n) == \A k \in K : k < n

LEMMA TableGrows ==
  ASSUME NEW K \in SUBSET Nat, NEW key, NEW value, NEW n \in Nat,
         IsBefore(K, n)
  PROVE  Table(K \cup {n}, key, value) =
           Emplace(Table(K, key, value), key[n], value[n])
<1> DEFINE table == Table(K, key, value)
           Of(x) == {k \in K : key[k] = x}
           OfNext(x) == {k \in K \cup {n} : key[k] = x}
<1>1. /\ DOMAIN table = {key[k] : k \in K}
      /\ \A x \in DOMAIN table : table[x] = value[Min(Of(x))]
      /\ table = [x \in DOMAIN table |-> table[x]]
  BY DEF Table, First
<1>2. {key[k] : k \in K \cup {n}} = DOMAIN table \cup {key[n]}
  BY <1>1
<1>3. ASSUME NEW x \in DOMAIN table
      PROVE  Min(OfNext(x)) = Min(Of(x))
  <2>1. Of(x) \in SUBSET Nat /\ Of(x) # {}
    BY <1>1
  <2>2. Min(Of(x)) \in Of(x) /\ \A k \in Of(x) : Min(Of(x)) <= k
    BY <2>1, MinType
  <2>3. PICK m \in K : m = Min(Of(x)) /\ key[m] = x
    BY <2>2
  <2>4. OfNext(x) \in SUBSET Nat /\ m \in OfNext(x)
    BY <2>3
  <2>5. \A k \in OfNext(x) : m <= k
    BY <2>2, <2>3 DEF IsBefore
  <2>6. Min(OfNext(x)) = m
    BY <2>4, <2>5, MinIs
  <2>7. QED
    BY <2>3, <2>6
<1>4. ASSUME key[n] \notin DOMAIN table
      PROVE  Min(OfNext(key[n])) = n
  <2>1. OfNext(key[n]) = {n}
    BY <1>1, <1>4
  <2>2. QED
    BY <2>1, MinIs
<1>5. Table(K \cup {n}, key, value) =
        [x \in DOMAIN table \cup {key[n]} |-> value[Min(OfNext(x))]]
  BY <1>2 DEF Table, First
<1> HIDE DEF table, Of, OfNext
<1>6. CASE key[n] \in DOMAIN table
  <2>1. DOMAIN table \cup {key[n]} = DOMAIN table
    BY <1>6
  <2>2. \A x \in DOMAIN table : value[Min(OfNext(x))] = table[x]
    BY <1>1, <1>3
  <2>3. Table(K \cup {n}, key, value) = table
    BY <1>1, <1>5, <2>1, <2>2
  <2>4. QED
    BY <1>6, <2>3 DEF Emplace, table
<1>7. CASE key[n] \notin DOMAIN table
  <2>1. \A x \in DOMAIN table \cup {key[n]} :
          value[Min(OfNext(x))] = IF x = key[n] THEN value[n] ELSE table[x]
    BY <1>1, <1>3, <1>4, <1>7
  <2>2. Table(K \cup {n}, key, value) =
          [x \in DOMAIN table \cup {key[n]} |->
             IF x = key[n] THEN value[n] ELSE table[x]]
    BY <1>5, <2>1
  <2>3. QED
    BY <1>7, <2>2 DEF Emplace, table
<1>8. QED
  BY <1>6, <1>7

(* The lines of K among the first n.                                       *)
Among(K, n) == {k \in K : k <= n}

(* One more line, or one that was read before.                             *)
Reach(n, a) == IF n < a + 1 THEN a + 1 ELSE n

LEMMA TableStep ==
  ASSUME NEW K \in SUBSET Nat, NEW key, NEW value, NEW n \in Nat, NEW a \in Nat,
         a <= n, NEW next \in Nat, next = Reach(n, a)
  PROVE  IF a + 1 \in K
         THEN Table(Among(K, next), key, value) =
                Emplace(Table(Among(K, n), key, value), key[a + 1], value[a + 1])
         ELSE Table(Among(K, next), key, value) = Table(Among(K, n), key, value)
<1>1. Among(K, n) \in SUBSET Nat
  BY DEF Among
<1>2. CASE a + 1 \notin K
  <2>1. \A k \in K : k <= next <=> k <= n
    <3>1. \A k \in K : k \in Nat /\ k # a + 1
      BY <1>2
    <3>2. QED
      BY <3>1 DEF Reach
  <2>2. Among(K, next) = Among(K, n)
    BY <2>1, Zenon DEF Among
  <2>3. QED
    BY <1>2, <2>2
<1>3. CASE a + 1 \in K /\ a + 1 <= n
  <2>1. next = n /\ a + 1 \in Among(K, n)
    BY <1>3 DEF Among, Reach
  <2>2. QED
    BY <1>1, <1>3, <2>1, TableHas
<1>4. CASE a + 1 \in K /\ ~(a + 1 <= n)
  <2>1. next = a + 1 /\ n = a /\ a + 1 \in Nat
    BY <1>4 DEF Reach
  <2>2. \A k \in K : k <= next <=> k <= n \/ k = a + 1
    <3>1. \A k \in K : k \in Nat
      OBVIOUS
    <3>2. QED
      BY <2>1, <3>1
  <2>3. Among(K, next) = Among(K, n) \cup {next}
    BY <1>4, <2>1, <2>2, Zenon DEF Among
  <2>4. IsBefore(Among(K, n), next)
    BY <2>1 DEF Among, IsBefore
  <2>5. Table(Among(K, next), key, value) =
          Emplace(Table(Among(K, n), key, value), key[next], value[next])
    <3>1. PICK read \in SUBSET Nat : read = Among(K, n)
      BY <1>1
    <3>2. IsBefore(read, next)
      BY <2>4, <3>1
    <3>3. Table(read \cup {next}, key, value) =
            Emplace(Table(read, key, value), key[next], value[next])
      BY <3>2, TableGrows
    <3>4. QED
      BY <2>3, <3>1, <3>3, Zenon
  <2>6. QED
    BY <1>4, <2>1, <2>5, Zenon
<1>5. QED
  BY <1>2, <1>3, <1>4


-----------------------------------------------------------------------------
(* The tables of the lines of a file.                                      *)
Symbols == {k \in DOMAIN file : IsSymbol(file[k])}
Lines == {k \in DOMAIN file : file[k].kind = "LINE"}
Paths == {k \in DOMAIN file : file[k].kind = "FILE"}

Address == [k \in DOMAIN file |-> file[k].address]
Name == [k \in DOMAIN file |-> ToSymbol(file[k]).mName]
Id == [k \in DOMAIN file |-> file[k].id]

SymbolOf == [k \in DOMAIN file |-> ToSymbol(file[k])]
LineOf == [k \in DOMAIN file |->
  [mRva |-> file[k].address, mSize |-> file[k].size,
   mFileId |-> file[k].file, mLine |-> file[k].line]]
PathOf == [k \in DOMAIN file |-> file[k].path]

SymbolsHeld(n) ==
  /\ mSymsByRva = Table(Among(Symbols, n), Address, SymbolOf)
  /\ mSymsByName = Table(Among(Symbols, n), Name, SymbolOf)

LinesHeld(n) == mSourceLineSyms = Table(Among(Lines, n), Address, LineOf)

PathsHeld(n) == mFileMap = Table(Among(Paths, n), Id, PathOf)

Loaded == delivered["bploadsyms"]
Furthest == Max({delivered[cb] : cb \in Callbacks})

FileTypeOK ==
  /\ file \in Files
  /\ at \in 0 .. Len(file)
  /\ aCb \in Callbacks \cup {"none"}
  /\ delivered \in [Callbacks -> 0 .. Len(file)]

IsFurthest ==
  /\ Loaded \in 0 .. Len(file) /\ Furthest \in 0 .. Len(file)
  /\ \A cb \in Callbacks : delivered[cb] <= Furthest
  /\ \E cb \in Callbacks : delivered[cb] = Furthest

LEMMA FurthestIs == FileTypeOK => IsFurthest
<1> SUFFICES ASSUME FileTypeOK
             PROVE  IsFurthest
  OBVIOUS
<1> DEFINE S == {delivered[cb] : cb \in Callbacks}
<1>1. file \in Seq(Record) /\ delivered \in [Callbacks -> 0 .. Len(file)]
  BY FileAssumption DEF FileTypeOK, FileAssumption
<1>2. Len(file) \in Nat
  BY <1>1
<1>3. S \in SUBSET (0 .. Len(file)) /\ delivered["bploadsyms"] \in S
  BY <1>1 DEF Callbacks
<1> HIDE DEF S
<1>4. PICK n \in S : \A p \in S : p <= n
  BY <1>2, <1>3, HasGreatest
<1>5. Max(S) = n
  <2>1. S \in SUBSET Nat
    BY <1>2, <1>3
  <2>2. QED
    BY <1>4, <2>1, MaxIs
<1>6. Furthest = n
  BY <1>5 DEF Furthest, S
<1>7. QED
  BY <1>1, <1>3, <1>4, <1>6 DEF S, Loaded, IsFurthest

LEMMA TablesHeld ==
  FileTypeOK =>
    (TablesHoldRecords <=>
       SymbolsHeld(Loaded) /\ LinesHeld(Loaded) /\ PathsHeld(Furthest))
<1> SUFFICES ASSUME FileTypeOK
             PROVE  TablesHoldRecords <=>
                      /\ SymbolsHeld(Loaded)
                      /\ LinesHeld(Loaded)
                      /\ PathsHeld(Furthest)
  OBVIOUS
<1> DEFINE n == Loaded
           m == Furthest
           syms == Among(Symbols, n)
           lines == Among(Lines, n)
           paths == Among(Paths, m)
<1>1. file \in Seq(Record) /\ Len(file) \in Nat /\ DOMAIN file = 1 .. Len(file)
  BY FileAssumption DEF FileTypeOK, FileAssumption
<1>2. n \in 0 .. Len(file) /\ m \in 0 .. Len(file)
  BY FurthestIs DEF IsFurthest
<1>3. /\ syms = {k \in 1 .. n : IsSymbol(file[k])}
      /\ lines = {k \in 1 .. n : file[k].kind = "LINE"}
      /\ paths = {k \in 1 .. m : file[k].kind = "FILE"}
  <2>1. \A k : k \in 1 .. n <=> k \in 1 .. Len(file) /\ k <= n
    BY <1>1, <1>2
  <2>2. \A k : k \in 1 .. m <=> k \in 1 .. Len(file) /\ k <= m
    BY <1>1, <1>2
  <2>3. QED
    BY <1>1, <2>1, <2>2 DEF Among, Symbols, Lines, Paths
<1>4. /\ syms \in SUBSET Nat /\ syms \subseteq DOMAIN file
      /\ lines \in SUBSET Nat /\ lines \subseteq DOMAIN file
      /\ paths \in SUBSET Nat /\ paths \subseteq DOMAIN file
  BY <1>1 DEF Among, Symbols, Lines, Paths
<1> HIDE DEF syms, lines, paths
<1>5. [rva \in {file[k].address : k \in syms} |->
         ToSymbol(file[Min({k \in syms : file[k].address = rva})])]
        = Table(syms, Address, SymbolOf)
  <2>1. \A k \in syms :
          Address[k] = file[k].address /\ SymbolOf[k] = ToSymbol(file[k])
    BY <1>4 DEF Address, SymbolOf
  <2>2. {file[k].address : k \in syms} = {Address[k] : k \in syms}
    BY <2>1
  <2>3. \A rva : {k \in syms : file[k].address = rva}
                   = {k \in syms : Address[k] = rva}
    BY <2>1
  <2>4. \A rva \in {Address[k] : k \in syms} :
          ToSymbol(file[First(syms, Address, rva)])
            = SymbolOf[First(syms, Address, rva)]
    <3>1. \A x \in {Address[k] : k \in syms} :
            First(syms, Address, x) \in syms /\ Address[First(syms, Address, x)] = x
      BY <1>4, FirstIs, Zenon
    <3>2. QED
      BY <2>1, <3>1
  <2>5. QED
    BY <2>2, <2>3, <2>4 DEF Table, First
<1>6. [name \in {ToSymbol(file[k]).mName : k \in syms} |->
         ToSymbol(file[Min({k \in syms : ToSymbol(file[k]).mName = name})])]
        = Table(syms, Name, SymbolOf)
  <2>1. \A k \in syms :
          /\ Name[k] = ToSymbol(file[k]).mName
          /\ SymbolOf[k] = ToSymbol(file[k])
    BY <1>4 DEF Name, SymbolOf
  <2>2. {ToSymbol(file[k]).mName : k \in syms} = {Name[k] : k \in syms}
    BY <2>1
  <2>3. \A name : {k \in syms : ToSymbol(file[k]).mName = name}
                    = {k \in syms : Name[k] = name}
    BY <2>1
  <2>4. \A name \in {Name[k] : k \in syms} :
          ToSymbol(file[First(syms, Name, name)])
            = SymbolOf[First(syms, Name, name)]
    <3>1. \A x \in {Name[k] : k \in syms} :
            First(syms, Name, x) \in syms /\ Name[First(syms, Name, x)] = x
      BY <1>4, FirstIs, Zenon
    <3>2. QED
      BY <2>1, <3>1
  <2>5. QED
    BY <2>2, <2>3, <2>4 DEF Table, First
<1>7. [rva \in {file[k].address : k \in lines} |->
         LET line == file[Min({k \in lines : file[k].address = rva})]
         IN  [mRva |-> rva, mSize |-> line.size, mFileId |-> line.file,
              mLine |-> line.line]]
        = Table(lines, Address, LineOf)
  <2>1. \A k \in lines :
          /\ Address[k] = file[k].address
          /\ LineOf[k] = [mRva |-> file[k].address, mSize |-> file[k].size,
                          mFileId |-> file[k].file, mLine |-> file[k].line]
    BY <1>4 DEF Address, LineOf
  <2>2. {file[k].address : k \in lines} = {Address[k] : k \in lines}
    BY <2>1
  <2>3. \A rva : {k \in lines : file[k].address = rva}
                   = {k \in lines : Address[k] = rva}
    BY <2>1
  <2>4. \A rva \in {Address[k] : k \in lines} :
          LET line == file[First(lines, Address, rva)]
          IN  [mRva |-> rva, mSize |-> line.size, mFileId |-> line.file,
               mLine |-> line.line]
                = LineOf[First(lines, Address, rva)]
    <3> TAKE rva \in {Address[k] : k \in lines}
    <3> DEFINE first == First(lines, Address, rva)
    <3>1. first \in lines /\ Address[first] = rva
      BY <1>4, FirstIs, Zenon
    <3> HIDE DEF first
    <3>2. QED
      BY <2>1, <3>1 DEF first
  <2>5. QED
    BY <2>2, <2>3, <2>4 DEF Table, First
<1>8. [id \in {file[k].id : k \in paths} |->
         file[Min({k \in paths : file[k].id = id})].path]
        = Table(paths, Id, PathOf)
  <2>1. \A k \in paths : Id[k] = file[k].id /\ PathOf[k] = file[k].path
    BY <1>4 DEF Id, PathOf
  <2>2. {file[k].id : k \in paths} = {Id[k] : k \in paths}
    BY <2>1
  <2>3. \A id : {k \in paths : file[k].id = id} = {k \in paths : Id[k] = id}
    BY <2>1
  <2>4. \A id \in {Id[k] : k \in paths} :
          file[First(paths, Id, id)].path
            = PathOf[First(paths, Id, id)]
    <3>1. \A x \in {Id[k] : k \in paths} :
            First(paths, Id, x) \in paths /\ Id[First(paths, Id, x)] = x
      BY <1>4, FirstIs, Zenon
    <3>2. QED
      BY <2>1, <3>1
  <2>5. QED
    BY <2>2, <2>3, <2>4 DEF Table, First
<1>9. /\ LinesOf(IsSymbol, n) = syms
      /\ LinesOf(LAMBDA r : r.kind = "LINE", n) = lines
      /\ LinesOf(LAMBDA r : r.kind = "FILE", m) = paths
  BY <1>3 DEF LinesOf
<1>10. QED
  BY <1>5, <1>6, <1>7, <1>8, <1>9, Zenon
  DEF TablesHoldRecords, SymbolsHeld, LinesHeld, PathsHeld, FirstOf, Loaded,
      Furthest, syms, lines, paths

LEMMA TablesHeldNext ==
  FileTypeOK' =>
    (TablesHoldRecords' <=>
       (SymbolsHeld(Loaded) /\ LinesHeld(Loaded) /\ PathsHeld(Furthest))')
BY TablesHeld, PTL

LEMMA FurthestNext == FileTypeOK' => IsFurthest'
BY FurthestIs, PTL


-----------------------------------------------------------------------------
(* Every line is read as the record it was written from.                   *)
HasLine == file \in Files /\ at \in Nat /\ at < Len(file)
Taken == file[at + 1]

LEMMA LineIs ==
  ASSUME HasLine
  PROVE  /\ Taken \in Record /\ WellFormed(Taken)
         /\ Line = Trim(Written(Taken))
         /\ at + 1 \in DOMAIN file /\ DOMAIN file \in SUBSET Nat
         /\ \A a, b \in DOMAIN file :
              file[a].kind = "FILE" /\ file[b].kind = "FILE" /\ a # b =>
                file[a].id # file[b].id
<1>1. file \in Seq(Record)
  BY FileAssumption DEF FileAssumption, HasLine
<1>2. at + 1 \in DOMAIN file /\ DOMAIN file \in SUBSET Nat
  BY <1>1 DEF HasLine
<1>3. /\ WellFormed(file[at + 1])
      /\ \A a, b \in DOMAIN file :
           file[a].kind = "FILE" /\ file[b].kind = "FILE" /\ a # b =>
             file[a].id # file[b].id
  BY <1>2, FileAssumption, Zenon DEF FileAssumption, HasLine
<1>4. file[at + 1] \in Record
  BY <1>1, <1>2
<1>5. QED
  BY <1>2, <1>3, <1>4, Zenon DEF Line, Taken

(* What a line starts with tells its kind.                                 *)
KindsApart(line) ==
  /\ line \in Texts
  /\ IsFunc <=> 2 <= Len(line) /\ line[1] = "FUNC" /\ line[2] = Space
  /\ IsPublic <=> 2 <= Len(line) /\ line[1] = "PUBLIC" /\ line[2] = Space
  /\ IsFile <=> 2 <= Len(line) /\ line[1] = "FILE" /\ line[2] = Space
  /\ IsXDigit <=> line # <<>> /\ line[1] \in {Hex[n] : n \in DOMAIN Hex}
                                           \cup {"FUNC", "FILE"}

LEMMA Tags ==
  ASSUME Line \in Texts
  PROVE  KindsApart(Line)
<1> DEFINE line == Line
<1>1. "FUNC" \in Words /\ "PUBLIC" \in Words /\ "FILE" \in Words /\ Space \in Words
  BY Zenon DEF Words
<1> HIDE DEF line
<1>2. line \in Texts
  BY DEF line
<1>3. /\ StartsWith(line, <<"FUNC", Space>>) <=>
           2 <= Len(line) /\ line[1] = "FUNC" /\ line[2] = Space
      /\ StartsWith(line, <<"PUBLIC", Space>>) <=>
           2 <= Len(line) /\ line[1] = "PUBLIC" /\ line[2] = Space
      /\ StartsWith(line, <<"FILE", Space>>) <=>
           2 <= Len(line) /\ line[1] = "FILE" /\ line[2] = Space
  BY <1>1, <1>2, StartsTwo, Zenon
<1>4. line # <<>> => Head(line) = line[1]
  BY <1>2 DEF Texts
<1>5. QED
  BY <1>2, <1>3, <1>4, Zenon DEF KindsApart, line, IsFunc, IsPublic, IsFile, IsXDigit

LEMMA KindIs ==
  ASSUME HasLine
  PROVE  /\ IsFunc <=> Taken.kind = "FUNC"
         /\ IsPublic <=> Taken.kind = "PUBLIC"
         /\ IsFile <=> Taken.kind = "FILE"
         /\ Taken.kind = "LINE" => IsXDigit
         /\ Taken.kind = "other" => ~IsXDigit
<1> DEFINE r == Taken
           line == Line
<1>1. r \in Record /\ WellFormed(r) /\ line = Trim(Written(r))
  BY LineIs
<1>2. r.kind \in {"FUNC", "PUBLIC", "FILE", "LINE", "other"}
  BY <1>1, RecordFields
<1> HIDE DEF r, line
<1>3. CASE r.kind = "FUNC"
  <2>1. line \in Texts /\ StartsWith(line, <<"FUNC", Space>>)
    BY <1>1, <1>3, FuncLine, Zenon
  <2>2. KindsApart(line) /\ IsFunc
    BY <2>1, Tags DEF line, IsFunc
  <2>3. QED
    BY <1>3, <2>2 DEF KindsApart, r
<1>4. CASE r.kind = "PUBLIC"
  <2>1. line \in Texts /\ StartsWith(line, <<"PUBLIC", Space>>)
    BY <1>1, <1>4, PublicLine, Zenon
  <2>2. KindsApart(line) /\ IsPublic
    BY <2>1, Tags DEF line, IsPublic
  <2>3. QED
    BY <1>4, <2>2 DEF KindsApart, r
<1>5. CASE r.kind = "FILE"
  <2>1. line \in Texts /\ StartsWith(line, <<"FILE", Space>>)
    BY <1>1, <1>5, FileLine, Zenon
  <2>2. KindsApart(line) /\ IsFile
    BY <2>1, Tags DEF line, IsFile
  <2>3. QED
    BY <1>5, <2>2 DEF KindsApart, r
<1>6. CASE r.kind = "LINE"
  <2>1. line \in Texts /\ line # <<>> /\ line[1] = Hex[r.address]
    BY <1>1, <1>6, LineRecordLine, Zenon
  <2>2. r.address \in DOMAIN Hex
    BY <1>1, <1>6, RecordFields
  <2>3. line[1] \notin {"FUNC", "PUBLIC", "FILE"}
    BY <2>1, <2>2, Numerals DEF Reserved
  <2>4. KindsApart(line)
    BY <2>1, Tags DEF line
  <2>5. QED
    BY <1>6, <2>1, <2>2, <2>3, <2>4 DEF KindsApart, r
<1>7. CASE r.kind = "other"
  <2>1. /\ line \in Texts
        /\ line # <<>> => line[1] \notin {Hex[n] : n \in DOMAIN Hex}
                                         \cup {"FUNC", "PUBLIC", "FILE"}
    BY <1>1, <1>7, OtherLine, Zenon
  <2>2. 2 <= Len(line) => line # <<>>
    BY <2>1 DEF Texts
  <2>3. KindsApart(line)
    BY <2>1, Tags DEF line
  <2>4. QED
    BY <1>7, <2>1, <2>2, <2>3 DEF KindsApart, r
<1>8. QED
  BY <1>2, <1>3, <1>4, <1>5, <1>6, <1>7 DEF r


-----------------------------------------------------------------------------
(* The inductive invariant: a reader is never further than its callback    *)
(* has ever been, so what it takes is in the tables or comes next.         *)
FileIInv ==
  /\ FileTypeOK
  /\ aCb \in Callbacks => at <= delivered[aCb]
  /\ TablesHoldRecords

(* What a line adds to the tables.                                         *)
SymbolsTake ==
  IF aCb = "bploadsyms" /\ IsSymbol(Taken)
  THEN /\ mSymsByRva' = Emplace(mSymsByRva, Taken.address, ToSymbol(Taken))
       /\ mSymsByName' = Emplace(mSymsByName, ToSymbol(Taken).mName, ToSymbol(Taken))
  ELSE UNCHANGED <<mSymsByRva, mSymsByName>>

LinesTake ==
  IF aCb = "bploadsyms" /\ Taken.kind = "LINE"
  THEN mSourceLineSyms' = Emplace(mSourceLineSyms, Taken.address,
         [mRva |-> Taken.address, mSize |-> Taken.size,
          mFileId |-> Taken.file, mLine |-> Taken.line])
  ELSE UNCHANGED mSourceLineSyms

PathsTake ==
  IF Taken.kind = "FILE"
  THEN mFileMap' = Emplace(mFileMap, Taken.id, Taken.path)
  ELSE UNCHANGED mFileMap

LEMMA Counts ==
  ASSUME FileIInv, TakeLine
  PROVE  /\ HasLine /\ FileTypeOK' /\ at' <= delivered'[aCb']
         /\ Loaded \in Nat /\ Furthest \in Nat
         /\ Loaded' \in Nat /\ Furthest' \in Nat
         /\ Loaded' = IF aCb = "bploadsyms" THEN Reach(Loaded, at) ELSE Loaded
         /\ Furthest' = Reach(Furthest, at)
         /\ at <= Furthest
         /\ aCb = "bploadsyms" => at <= Loaded
<1> DEFINE d == delivered[aCb]
<1>1. FileTypeOK /\ aCb \in Callbacks /\ file' = file /\ aCb' = aCb
  BY DEF FileIInv, TakeLine
<1>2. file \in Seq(Record) /\ Len(file) \in Nat
  BY <1>1, FileAssumption DEF FileAssumption, FileTypeOK
<1>3. /\ at \in 0 .. Len(file) /\ at' = at + 1 /\ at + 1 \in 0 .. Len(file)
      /\ d \in 0 .. Len(file) /\ at <= d
  BY <1>1, <1>2 DEF FileIInv, FileTypeOK, TakeLine
<1>4. Max({d, at + 1}) = Reach(d, at)
  <2>1. {d, at + 1} \in SUBSET Nat
    BY <1>3
  <2>2. CASE d < at + 1
    <3>1. at + 1 \in {d, at + 1} /\ \A y \in {d, at + 1} : y <= at + 1
      BY <1>3, <2>2
    <3>2. Max({d, at + 1}) = at + 1
      BY <2>1, <3>1, MaxIs
    <3>3. QED
      BY <2>2, <3>2 DEF Reach
  <2>3. CASE ~(d < at + 1)
    <3>1. d \in {d, at + 1} /\ \A y \in {d, at + 1} : y <= d
      BY <1>3, <2>3
    <3>2. Max({d, at + 1}) = d
      BY <2>1, <3>1, MaxIs
    <3>3. QED
      BY <2>3, <3>2 DEF Reach
  <2>4. QED
    BY <2>2, <2>3
<1>5. delivered' = [delivered EXCEPT ![aCb] = Reach(d, at)]
  BY <1>4 DEF TakeLine
<1>6. Reach(d, at) \in 0 .. Len(file) /\ at + 1 <= Reach(d, at) /\ d <= Reach(d, at)
  BY <1>2, <1>3 DEF Reach
<1>7. FileTypeOK'
  BY <1>1, <1>2, <1>3, <1>5, <1>6 DEF FileTypeOK
<1>8. IsFurthest /\ IsFurthest'
  BY <1>1, <1>7, FurthestIs, FurthestNext
<1>9. /\ delivered'[aCb] = Reach(d, at)
      /\ \A cb \in Callbacks : cb # aCb => delivered'[cb] = delivered[cb]
      /\ \A cb \in Callbacks : delivered[cb] \in 0 .. Len(file)
  BY <1>1, <1>5 DEF FileTypeOK
<1>10. Furthest' = Reach(Furthest, at)
  <2>1. /\ Furthest \in 0 .. Len(file) /\ Furthest' \in 0 .. Len(file)
        /\ d <= Furthest /\ Reach(d, at) <= Furthest'
    BY <1>1, <1>8, <1>9 DEF IsFurthest
  <2>2. PICK cb \in Callbacks : delivered[cb] = Furthest
    BY <1>8 DEF IsFurthest
  <2>3. PICK cc \in Callbacks : delivered'[cc] = Furthest'
    BY <1>8 DEF IsFurthest
  <2>4. Furthest <= Furthest'
    <3>1. CASE cb = aCb
      BY <1>2, <1>3, <1>6, <2>1, <2>2, <3>1
    <3>2. CASE cb # aCb
      BY <1>1, <1>8, <1>9, <2>2, <3>2 DEF IsFurthest
    <3>3. QED
      BY <3>1, <3>2
  <2>5. Furthest' = Reach(d, at) \/ Furthest' <= Furthest
    <3>1. CASE cc = aCb
      BY <1>9, <2>3, <3>1
    <3>2. CASE cc # aCb
      BY <1>8, <1>9, <2>3, <3>2 DEF IsFurthest
    <3>3. QED
      BY <3>1, <3>2
  <2>6. QED
    BY <1>2, <1>3, <1>6, <2>1, <2>4, <2>5 DEF Reach
<1>11. Loaded' = IF aCb = "bploadsyms" THEN Reach(Loaded, at) ELSE Loaded
  BY <1>9 DEF Loaded, Callbacks
<1>12. QED
  BY <1>1, <1>2, <1>3, <1>6, <1>7, <1>8, <1>9, <1>10, <1>11
  DEF HasLine, IsFurthest, FileTypeOK, Loaded, TakeLine


(* The value a table has for a line, at the line that is read.             *)
LEMMA EntryIs ==
  ASSUME HasLine
  PROVE  /\ Symbols \in SUBSET Nat /\ Lines \in SUBSET Nat /\ Paths \in SUBSET Nat
         /\ at + 1 \in Symbols <=> IsSymbol(Taken)
         /\ at + 1 \in Lines <=> Taken.kind = "LINE"
         /\ at + 1 \in Paths <=> Taken.kind = "FILE"
         /\ Address[at + 1] = Taken.address /\ Name[at + 1] = ToSymbol(Taken).mName
         /\ Id[at + 1] = Taken.id /\ PathOf[at + 1] = Taken.path
         /\ SymbolOf[at + 1] = ToSymbol(Taken)
         /\ LineOf[at + 1] = [mRva |-> Taken.address, mSize |-> Taken.size,
                              mFileId |-> Taken.file, mLine |-> Taken.line]
<1>1. at + 1 \in DOMAIN file /\ DOMAIN file \in SUBSET Nat
  BY LineIs
<1>2. QED
  BY <1>1, Zenon DEF Symbols, Lines, Paths, Address, Name, Id, SymbolOf, LineOf,
     PathOf, Taken

LEMMA SameTables ==
  ASSUME UNCHANGED file
  PROVE  /\ UNCHANGED <<Symbols, Lines, Paths, Address, Name, Id>>
         /\ UNCHANGED <<SymbolOf, LineOf, PathOf>>
BY DEF Symbols, Lines, Paths, Address, Name, Id, SymbolOf, LineOf, PathOf

LEMMA TakesHeld ==
  ASSUME FileIInv, TakeLine, SymbolsTake, LinesTake, PathsTake
  PROVE  FileIInv'
<1>1. /\ HasLine /\ FileTypeOK' /\ at' <= delivered'[aCb']
      /\ at \in Nat /\ at + 1 \in Nat
      /\ Loaded \in Nat /\ Furthest \in Nat
      /\ Loaded' \in Nat /\ Furthest' \in Nat
      /\ Loaded' = IF aCb = "bploadsyms" THEN Reach(Loaded, at) ELSE Loaded
      /\ Furthest' = Reach(Furthest, at)
      /\ at <= Furthest
      /\ aCb = "bploadsyms" => at <= Loaded
  BY Counts DEF HasLine
<1>2. SymbolsHeld(Loaded) /\ LinesHeld(Loaded) /\ PathsHeld(Furthest)
  BY TablesHeld DEF FileIInv
<1>3. UNCHANGED file
  BY DEF TakeLine
<1>4. SymbolsHeld(Loaded)'
  <2>1. CASE aCb = "bploadsyms"
    <3>1. Loaded' = Reach(Loaded, at) /\ at <= Loaded
      BY <1>1, <2>1
    <3>2. CASE IsSymbol(Taken)
      <4>1. at + 1 \in Symbols /\ Symbols \in SUBSET Nat
        BY <1>1, <3>2, EntryIs
      <4>2. /\ Table(Among(Symbols, Loaded'), Address, SymbolOf) =
                 Emplace(Table(Among(Symbols, Loaded), Address, SymbolOf),
                         Address[at + 1], SymbolOf[at + 1])
            /\ Table(Among(Symbols, Loaded'), Name, SymbolOf) =
                 Emplace(Table(Among(Symbols, Loaded), Name, SymbolOf),
                         Name[at + 1], SymbolOf[at + 1])
        BY <1>1, <3>1, <4>1, TableStep
      <4>3. /\ mSymsByRva' = Emplace(mSymsByRva, Taken.address, ToSymbol(Taken))
            /\ mSymsByName' = Emplace(mSymsByName, ToSymbol(Taken).mName, ToSymbol(Taken))
        BY <2>1, <3>2 DEF SymbolsTake
      <4>4. QED
        BY <1>1, <1>2, <1>3, <4>2, <4>3, EntryIs, SameTables, Zenon DEF SymbolsHeld
    <3>3. CASE ~IsSymbol(Taken)
      <4>1. at + 1 \notin Symbols /\ Symbols \in SUBSET Nat
        BY <1>1, <3>3, EntryIs
      <4>2. /\ Table(Among(Symbols, Loaded'), Address, SymbolOf) =
                 Table(Among(Symbols, Loaded), Address, SymbolOf)
            /\ Table(Among(Symbols, Loaded'), Name, SymbolOf) =
                 Table(Among(Symbols, Loaded), Name, SymbolOf)
        BY <1>1, <3>1, <4>1, TableStep
      <4>3. UNCHANGED <<mSymsByRva, mSymsByName>>
        BY <3>3 DEF SymbolsTake
      <4>4. QED
        BY <1>2, <1>3, <4>2, <4>3, SameTables DEF SymbolsHeld
    <3>4. QED
      BY <3>2, <3>3
  <2>2. CASE aCb # "bploadsyms"
    <3>1. Loaded' = Loaded /\ UNCHANGED <<mSymsByRva, mSymsByName>>
      BY <1>1, <2>2 DEF SymbolsTake
    <3>2. QED
      BY <1>2, <1>3, <3>1, SameTables DEF SymbolsHeld
  <2>3. QED
    BY <2>1, <2>2
<1>5. LinesHeld(Loaded)'
  <2>1. CASE aCb = "bploadsyms"
    <3>1. Loaded' = Reach(Loaded, at) /\ at <= Loaded
      BY <1>1, <2>1
    <3>2. CASE Taken.kind = "LINE"
      <4>1. at + 1 \in Lines /\ Lines \in SUBSET Nat
        BY <1>1, <3>2, EntryIs
      <4>2. Table(Among(Lines, Loaded'), Address, LineOf) =
              Emplace(Table(Among(Lines, Loaded), Address, LineOf),
                      Address[at + 1], LineOf[at + 1])
        BY <1>1, <3>1, <4>1, TableStep
      <4>3. mSourceLineSyms' = Emplace(mSourceLineSyms, Taken.address,
              [mRva |-> Taken.address, mSize |-> Taken.size,
               mFileId |-> Taken.file, mLine |-> Taken.line])
        BY <2>1, <3>2 DEF LinesTake
      <4>4. QED
        BY <1>1, <1>2, <1>3, <4>2, <4>3, EntryIs, SameTables, Zenon DEF LinesHeld
    <3>3. CASE Taken.kind # "LINE"
      <4>1. at + 1 \notin Lines /\ Lines \in SUBSET Nat
        BY <1>1, <3>3, EntryIs
      <4>2. Table(Among(Lines, Loaded'), Address, LineOf) =
              Table(Among(Lines, Loaded), Address, LineOf)
        BY <1>1, <3>1, <4>1, TableStep
      <4>3. UNCHANGED mSourceLineSyms
        BY <3>3 DEF LinesTake
      <4>4. QED
        BY <1>2, <1>3, <4>2, <4>3, SameTables DEF LinesHeld
    <3>4. QED
      BY <3>2, <3>3
  <2>2. CASE aCb # "bploadsyms"
    <3>1. Loaded' = Loaded /\ UNCHANGED mSourceLineSyms
      BY <1>1, <2>2 DEF LinesTake
    <3>2. QED
      BY <1>2, <1>3, <3>1, SameTables DEF LinesHeld
  <2>3. QED
    BY <2>1, <2>2
<1>6. PathsHeld(Furthest)'
  <2>1. CASE Taken.kind = "FILE"
    <3>1. at + 1 \in Paths /\ Paths \in SUBSET Nat
      BY <1>1, <2>1, EntryIs
    <3>2. Table(Among(Paths, Furthest'), Id, PathOf) =
            Emplace(Table(Among(Paths, Furthest), Id, PathOf),
                    Id[at + 1], PathOf[at + 1])
      BY <1>1, <3>1, TableStep
    <3>3. mFileMap' = Emplace(mFileMap, Taken.id, Taken.path)
      BY <2>1 DEF PathsTake
    <3>4. QED
      BY <1>1, <1>2, <1>3, <3>2, <3>3, EntryIs, SameTables, Zenon DEF PathsHeld
  <2>2. CASE Taken.kind # "FILE"
    <3>1. at + 1 \notin Paths /\ Paths \in SUBSET Nat
      BY <1>1, <2>2, EntryIs
    <3>2. Table(Among(Paths, Furthest'), Id, PathOf) =
            Table(Among(Paths, Furthest), Id, PathOf)
      BY <1>1, <3>1, TableStep
    <3>3. UNCHANGED mFileMap
      BY <2>2 DEF PathsTake
    <3>4. QED
      BY <1>2, <1>3, <3>2, <3>3, SameTables DEF PathsHeld
  <2>3. QED
    BY <2>1, <2>2
<1>7. TablesHoldRecords'
  BY <1>1, <1>4, <1>5, <1>6, TablesHeldNext
<1>8. QED
  BY <1>1, <1>7 DEF FileIInv

(* Each of the five actions takes what the record says.                    *)
LEMMA ReadFuncTakes ==
  ASSUME FileIInv, ReadFunc
  PROVE  SymbolsTake /\ LinesTake /\ PathsTake
<1> DEFINE r == Taken
           start == IF StartsWith(Line, <<"FUNC", Space, "m", Space>>)
                    THEN 3 ELSE 2
           tokens == Split(Line, Space, start + 3)
           funcName == tokens[start + 3]
<1>1. HasLine /\ IsFunc
  BY Counts DEF ReadFunc
<1>2. r \in Record /\ WellFormed(r) /\ Line = Trim(Written(r)) /\ r.kind = "FUNC"
  BY <1>1, LineIs, KindIs
<1>3. AddSymbol(Number(Hex, tokens[start]), Number(Hex, tokens[start + 1]),
                SymName(funcName), Params(funcName))
  BY Zenon DEF ReadFunc
<1>4. /\ Number(Hex, tokens[start]) = r.address
      /\ Number(Hex, tokens[start + 1]) = r.size
      /\ funcName = r.name \o r.params
  BY <1>2, FuncLine, Zenon
<1> HIDE DEF r, start, tokens, funcName
<1> DEFINE name == SymName(r.name \o r.params)
           params == Params(r.name \o r.params)
<1>5. AddSymbol(r.address, r.size, name, params)
  BY <1>3, <1>4, Zenon
<1>6. /\ ToSymbol(r) = BpSymbolInfo(r.address, r.size, name, params)
      /\ IsSymbol(r)
  BY <1>2, SymbolIs DEF IsSymbol
<1> HIDE DEF name, params
<1>7. SymbolsTake
  BY <1>5, <1>6 DEF AddSymbol, SymbolsTake, BpSymbolInfo, r
<1>8. UNCHANGED <<mSourceLineSyms, mFileMap>>
  BY DEF ReadFunc
<1>9. QED
  BY <1>2, <1>7, <1>8 DEF LinesTake, PathsTake, r

LEMMA ReadPublicTakes ==
  ASSUME FileIInv, ReadPublic
  PROVE  SymbolsTake /\ LinesTake /\ PathsTake
<1> DEFINE r == Taken
           start == IF StartsWith(Line, <<"PUBLIC", Space, "m", Space>>)
                    THEN 3 ELSE 2
           tokens == Split(Line, Space, start + 2)
<1>1. HasLine /\ IsPublic
  BY Counts DEF ReadPublic
<1>2. r \in Record /\ WellFormed(r) /\ Line = Trim(Written(r)) /\ r.kind = "PUBLIC"
  BY <1>1, LineIs, KindIs
<1>3. AddSymbol(Number(Hex, tokens[start]), 0, tokens[start + 2], <<>>)
  BY Zenon DEF ReadPublic
<1>4. /\ Number(Hex, tokens[start]) = r.address
      /\ tokens[start + 2] = r.name
  BY <1>2, PublicLine, Zenon
<1> HIDE DEF r, start, tokens
<1>5. AddSymbol(r.address, 0, r.name, <<>>)
  BY <1>3, <1>4, Zenon
<1>6. ToSymbol(r) = BpSymbolInfo(r.address, 0, r.name, <<>>) /\ IsSymbol(r)
  BY <1>2 DEF ToSymbol, IsSymbol
<1>7. SymbolsTake
  BY <1>5, <1>6 DEF AddSymbol, SymbolsTake, BpSymbolInfo, r
<1>8. UNCHANGED <<mSourceLineSyms, mFileMap>>
  BY DEF ReadPublic
<1>9. QED
  BY <1>2, <1>7, <1>8 DEF LinesTake, PathsTake, r

(* A file id that is there already was read from this same line.           *)
LEMMA ReadFileTakes ==
  ASSUME FileIInv, ReadFile
  PROVE  SymbolsTake /\ LinesTake /\ PathsTake
<1> DEFINE r == Taken
           tokens == Split(Line, Space, 3)
           fileId == Number(Dec, tokens[2])
<1>1. HasLine /\ IsFile
  BY Counts DEF ReadFile
<1>2. r \in Record /\ WellFormed(r) /\ Line = Trim(Written(r)) /\ r.kind = "FILE"
  BY <1>1, LineIs, KindIs
<1>3. mFileMap' = [id \in DOMAIN mFileMap \cup {fileId} |->
                     IF id = fileId THEN SanitizeFilePath(tokens[3])
                                    ELSE mFileMap[id]]
  BY Zenon DEF ReadFile
<1>4. fileId = r.id /\ SanitizeFilePath(tokens[3]) = r.path
  BY <1>2, FileLine, Zenon
<1> HIDE DEF r, tokens, fileId
<1>5. mFileMap' = [id \in DOMAIN mFileMap \cup {r.id} |->
                     IF id = r.id THEN r.path ELSE mFileMap[id]]
  BY <1>3, <1>4, Zenon
<1>6. r.id \in DOMAIN mFileMap => mFileMap[r.id] = r.path
  <2> SUFFICES ASSUME r.id \in DOMAIN mFileMap
               PROVE  mFileMap[r.id] = r.path
    OBVIOUS
  <2> DEFINE K == Among(Paths, Furthest)
             first == First(K, Id, r.id)
  <2>1. mFileMap = Table(K, Id, PathOf)
    BY TablesHeld DEF FileIInv, PathsHeld
  <2>2. K \in SUBSET Nat
    BY <1>1, EntryIs DEF Among
  <2>3. r.id \in {Id[k] : k \in K} /\ mFileMap[r.id] = PathOf[first]
    BY <2>1 DEF Table
  <2>4. first \in K /\ Id[first] = r.id
    BY <2>2, <2>3, FirstIs, Zenon
  <2> HIDE DEF first
  <2>5. /\ first \in DOMAIN file /\ file[first].kind = "FILE"
        /\ file[first].id = r.id /\ PathOf[first] = file[first].path
    BY <2>4 DEF Among, Paths, Id, PathOf
  <2>6. file[at + 1].kind = "FILE" /\ file[at + 1].id = r.id /\ at + 1 \in DOMAIN file
    BY <1>1, <1>2, LineIs DEF r, Taken
  <2>7. first = at + 1
    BY <1>1, <2>5, <2>6, LineIs
  <2>8. QED
    BY <2>3, <2>5, <2>7 DEF r, Taken, first
<1>7. mFileMap' = Emplace(mFileMap, r.id, r.path)
  <2>1. CASE r.id \in DOMAIN mFileMap
    <3>1. DOMAIN mFileMap \cup {r.id} = DOMAIN mFileMap
      BY <2>1
    <3>2. \A id \in DOMAIN mFileMap :
            (IF id = r.id THEN r.path ELSE mFileMap[id]) = mFileMap[id]
      BY <1>6
    <3>3. mFileMap = [id \in DOMAIN mFileMap |-> mFileMap[id]]
      BY TablesHeld DEF FileIInv, PathsHeld, Table
    <3>4. mFileMap' = mFileMap
      BY <1>5, <3>1, <3>2, <3>3
    <3>5. QED
      BY <2>1, <3>4 DEF Emplace
  <2>2. CASE r.id \notin DOMAIN mFileMap
    BY <1>5, <2>2 DEF Emplace
  <2>3. QED
    BY <2>1, <2>2
<1>8. UNCHANGED <<mSymsByRva, mSymsByName, mSourceLineSyms>>
  BY DEF ReadFile
<1>9. QED
  BY <1>2, <1>7, <1>8 DEF SymbolsTake, LinesTake, PathsTake, IsSymbol, r

LEMMA ReadLineRecordTakes ==
  ASSUME FileIInv, ReadLineRecord
  PROVE  SymbolsTake /\ LinesTake /\ PathsTake
<1> DEFINE r == Taken
           tokens == Split(Line, Space, 4)
<1>1. HasLine /\ ~IsFunc /\ ~IsPublic /\ ~IsFile /\ IsXDigit
  BY Counts DEF ReadLineRecord
<1>2. r \in Record /\ Line = Trim(Written(r)) /\ r.kind = "LINE"
  BY <1>1, LineIs, KindIs, RecordFields
<1>3. AddLine(Number(Hex, tokens[1]), Number(Hex, tokens[2]),
              Number(Dec, tokens[4]), Number(Dec, tokens[3]))
  BY Zenon DEF ReadLineRecord
<1>4. /\ Number(Hex, tokens[1]) = r.address /\ Number(Hex, tokens[2]) = r.size
      /\ Number(Dec, tokens[3]) = r.line /\ Number(Dec, tokens[4]) = r.file
  BY <1>2, LineRecordLine, Zenon
<1> HIDE DEF r, tokens
<1>5. AddLine(r.address, r.size, r.file, r.line)
  BY <1>3, <1>4, Zenon
<1>6. LinesTake
  BY <1>2, <1>5 DEF AddLine, LinesTake, r
<1>7. UNCHANGED <<mSymsByRva, mSymsByName, mFileMap>>
  BY DEF ReadLineRecord
<1>8. QED
  BY <1>2, <1>6, <1>7 DEF SymbolsTake, PathsTake, IsSymbol, r

LEMMA SkipRecordTakes ==
  ASSUME FileIInv, SkipRecord
  PROVE  SymbolsTake /\ LinesTake /\ PathsTake
<1>1. HasLine /\ ~IsFunc /\ ~IsPublic /\ ~IsFile /\ ~IsXDigit
  BY Counts DEF SkipRecord
<1>2. Taken.kind = "other"
  BY <1>1, LineIs, KindIs, RecordFields
<1>3. UNCHANGED <<mSymsByRva, mSymsByName, mSourceLineSyms, mFileMap>>
  BY DEF SkipRecord, tables
<1>4. QED
  BY <1>2, <1>3 DEF SymbolsTake, LinesTake, PathsTake, IsSymbol

LEMMA FileIInvInit == Init => FileIInv
<1> SUFFICES ASSUME Init PROVE FileIInv
  OBVIOUS
<1>1. file \in Seq(Record) /\ Len(file) \in Nat
  BY FileAssumption DEF FileAssumption, Init
<1>2. FileTypeOK
  BY <1>1 DEF Init, FileTypeOK
<1>3. Loaded = 0 /\ Furthest = 0
  <2>1. IsFurthest /\ \A cb \in Callbacks : delivered[cb] = 0
    BY <1>2, FurthestIs DEF Init
  <2>2. QED
    BY <2>1 DEF IsFurthest, Loaded, Callbacks
<1>4. Symbols \in SUBSET (Nat \ {0}) /\ Lines \in SUBSET (Nat \ {0})
      /\ Paths \in SUBSET (Nat \ {0})
  BY <1>1 DEF Symbols, Lines, Paths
<1>5. Among(Symbols, 0) = {} /\ Among(Lines, 0) = {} /\ Among(Paths, 0) = {}
  <2>1. \A k \in Nat \ {0} : ~(k <= 0)
    OBVIOUS
  <2>2. QED
    BY <1>4, <2>1, Zenon DEF Among
<1>6. ASSUME NEW key, NEW value PROVE Table({}, key, value) = EmptyMap
  <2>1. {key[k] : k \in {}} = {}
    OBVIOUS
  <2>2. QED
    BY <2>1 DEF Table, EmptyMap
<1>7. SymbolsHeld(Loaded) /\ LinesHeld(Loaded) /\ PathsHeld(Furthest)
  BY <1>3, <1>5, <1>6 DEF SymbolsHeld, LinesHeld, PathsHeld, Init
<1>8. aCb \notin Callbacks
  BY DEF Init, Callbacks
<1>9. QED
  BY <1>2, <1>7, <1>8, TablesHeld DEF FileIInv

LEMMA FileIInvNext == FileIInv /\ [Next]_vars => FileIInv'
<1> SUFFICES ASSUME FileIInv, [Next]_vars
             PROVE  FileIInv'
  OBVIOUS
<1>1. file \in Seq(Record) /\ Len(file) \in Nat
  BY FileAssumption DEF FileAssumption, FileIInv, FileTypeOK
<1>2. ASSUME UNCHANGED <<file, tables, delivered>>, FileTypeOK'
      PROVE  TablesHoldRecords'
  <2>1. SymbolsHeld(Loaded) /\ LinesHeld(Loaded) /\ PathsHeld(Furthest)
    BY TablesHeld DEF FileIInv
  <2>2. Loaded' = Loaded /\ Furthest' = Furthest
    BY <1>2, Zenon DEF Loaded, Furthest
  <2>3. (SymbolsHeld(Loaded) /\ LinesHeld(Loaded) /\ PathsHeld(Furthest))'
    BY <1>2, <2>1, <2>2, SameTables
    DEF SymbolsHeld, LinesHeld, PathsHeld, tables
  <2>4. QED
    BY <1>2, <2>3, TablesHeldNext
<1>3. CASE \E cb \in Callbacks : Open(cb)
  <2>1. PICK cb \in Callbacks : Open(cb)
    BY <1>3
  <2>2. FileTypeOK' /\ at' <= delivered'[aCb']
    BY <1>1, <2>1 DEF Open, FileIInv, FileTypeOK
  <2>3. UNCHANGED <<file, tables, delivered>>
    BY <2>1 DEF Open
  <2>4. QED
    BY <1>2, <2>2, <2>3 DEF FileIInv
<1>4. CASE ReadFunc
  BY <1>4, ReadFuncTakes, TakesHeld DEF ReadFunc
<1>5. CASE ReadPublic
  BY <1>5, ReadPublicTakes, TakesHeld DEF ReadPublic
<1>6. CASE ReadFile
  BY <1>6, ReadFileTakes, TakesHeld DEF ReadFile
<1>7. CASE ReadLineRecord
  BY <1>7, ReadLineRecordTakes, TakesHeld DEF ReadLineRecord
<1>8. CASE SkipRecord
  BY <1>8, SkipRecordTakes, TakesHeld DEF SkipRecord
<1>9. CASE EndOfStream
  <2>1. FileTypeOK' /\ aCb' \notin Callbacks
    BY <1>9 DEF EndOfStream, FileIInv, FileTypeOK, Callbacks
  <2>2. UNCHANGED <<file, tables, delivered>>
    BY <1>9 DEF EndOfStream
  <2>3. QED
    BY <1>2, <2>1, <2>2 DEF FileIInv
<1>10. CASE UNCHANGED vars
  <2>1. UNCHANGED <<file, at, aCb, tables, delivered>>
    BY <1>10 DEF vars
  <2>2. QED
    BY <1>2, <2>1 DEF FileIInv, FileTypeOK
<1>11. QED
  BY <1>3, <1>4, <1>5, <1>6, <1>7, <1>8, <1>9, <1>10 DEF Next

(* The tables of a module are those of its .sym file: each line is in them *)
(* with all that was written in it, and of two records with the same       *)
(* offset or name the first one stays, also when a reader stopped early    *)
(* and another began again, or bpsynthsyms read the paths before.  The     *)
(* names of functions are those of FunctionsUnderTheirNames, and otherwise *)
(* where NameEnd cuts them.                                                *)
THEOREM TablesAlwaysHoldRecords == Spec => []TablesHoldRecords
<1>1. FileIInv => TablesHoldRecords
  BY DEF FileIInv
<1>2. QED
  BY <1>1, FileIInvInit, FileIInvNext, PTL DEF Spec

=============================================================================
