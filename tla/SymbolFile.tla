----------------------------- MODULE SymbolFile -----------------------------
(***************************************************************************)
(* LoadBpSymbolFile of src/bpsyms.cpp: the reader of a module's .sym file, *)
(* line by line, and the callback of bploadsyms that files the symbols in  *)
(* the tables of the ModuleInfo.  The callback of bpsynthsyms drops them.  *)
(* A ModuleInfo is read into as often as a process loads its module.       *)
(*                                                                         *)
(* The file is what dump_syms writes: Written gives the line of a record.  *)
(* The line of a function gives its name and its parameters as one text,   *)
(* with parentheses in either.                                             *)
(***************************************************************************)
EXTENDS SymbolText, Maps

CONSTANTS
  Hex, Dec,     (* The texts of the numbers, in either base.               *)
  EndInOperator,(* The words whose last eight letters are "operator".      *)
  Files         (* Sequences of records: the .sym files.                   *)

(* The records of a file.  name is that of the symbol, without parameters. *)
(* vcs is the repository a path is in, empty for a local file.             *)
EndOfLine == <<"\r">>
M(record) == IF record.m THEN <<"m", Space>> ELSE <<>>

Written(record) ==
  CASE record.kind = "FUNC" ->
         <<"FUNC", Space>> \o M(record)
           \o <<Hex[record.address], Space, Hex[record.size], Space,
                Hex[0], Space>>
           \o record.name \o record.params \o EndOfLine
    [] record.kind = "PUBLIC" ->
         <<"PUBLIC", Space>> \o M(record)
           \o <<Hex[record.address], Space, Hex[0], Space>> \o record.name
    [] record.kind = "FILE" ->
         <<"FILE", Space, Dec[record.id], Space>>
           \o (IF record.vcs = <<>>
               THEN record.path
               ELSE <<"hg", ":">> \o record.vcs \o <<":">>
                      \o (record.path \o <<":", "revision">>))
    [] record.kind = "LINE" ->
         <<Hex[record.address], Space, Hex[record.size], Space,
           Dec[record.line], Space>> \o <<Dec[record.file]>> \o EndOfLine
    [] OTHER -> record.text

Injective(f) == \A a, b \in DOMAIN f : f[a] = f[b] => a = b

(* The records there are.                                                  *)
Text == Seq(STRING)

Record ==
  [kind : {"FUNC"}, m : BOOLEAN, address : DOMAIN Hex, size : DOMAIN Hex,
   name : Text, params : Text]
  \cup [kind : {"PUBLIC"}, m : BOOLEAN, address : DOMAIN Hex, name : Text]
  \cup [kind : {"FILE"}, id : DOMAIN Dec, vcs : Text, path : Text]
  \cup [kind : {"LINE"}, address : DOMAIN Hex, size : DOMAIN Hex,
        line : DOMAIN Dec, file : DOMAIN Dec]
  \cup [kind : {"other"}, text : Text]

(* A text no space is cut off.                                             *)
Trimmed(text) == text # <<>> /\ text[Len(text)] \notin Spaces

(* What dump_syms keeps to.                                                *)
WellFormed(record) ==
  CASE record.kind = "FUNC" ->
         Trimmed(record.name \o record.params)
    [] record.kind = "PUBLIC" -> Trimmed(record.name)
    [] record.kind = "FILE" ->
         /\ Trimmed(record.path)
         /\ \A p \in DOMAIN record.vcs : record.vcs[p] # ":"
         /\ record.vcs = <<>> => ~StartsWith(record.path, <<"hg", ":">>)
    [] record.kind = "LINE" -> TRUE
    [] OTHER -> record.text # <<>> =>
         record.text[1] \notin {Hex[n] : n \in DOMAIN Hex}
                               \cup {"FUNC", "PUBLIC", "FILE"}

(* The digits of a number are none of the words the reader looks for, and  *)
(* a file gives each of its file ids once.                                 *)
ASSUME FileAssumption ==
  /\ "operator" \in EndInOperator /\ "(" \notin EndInOperator
  /\ 0 \in DOMAIN Hex /\ Injective(Hex) /\ Injective(Dec)
  /\ \A numeral \in {Hex[n] : n \in DOMAIN Hex} \cup {Dec[n] : n \in DOMAIN Dec} :
       numeral \in STRING \ (Spaces \cup {"m", "FUNC", "PUBLIC", "FILE"})
  /\ Files \subseteq Seq(Record)
  /\ \A contents \in Files :
       /\ \A k \in DOMAIN contents : WellFormed(contents[k])
       /\ \A a, b \in DOMAIN contents :
            contents[a].kind = "FILE" /\ contents[b].kind = "FILE" /\ a # b =>
              contents[a].id # contents[b].id

VARIABLES
  file,             (* The module's .sym file.                             *)
  at,               (* The lines the reader has taken.                     *)
  aCb,              (* The callback of the reader, "none" outside it.      *)
  mSymsByRva,       (* The symbols, by offset                              *)
  mSymsByName,      (* and by name.                                        *)
  mSourceLineSyms,  (* The line records, by offset.                        *)
  mFileMap,         (* The paths, by file id.                              *)
  delivered         (* How many lines each callback has been given.        *)

tables == <<mSymsByRva, mSymsByName, mSourceLineSyms, mFileMap>>
vars == <<file, at, aCb, tables, delivered>>

Callbacks == {"bploadsyms", "bpsynthsyms"}

Init ==
  /\ file \in Files
  /\ at = 0
  /\ aCb = "none"
  /\ mSymsByRva = EmptyMap
  /\ mSymsByName = EmptyMap
  /\ mSourceLineSyms = EmptyMap
  /\ mFileMap = EmptyMap
  /\ delivered = [cb \in Callbacks |-> 0]

-----------------------------------------------------------------------------
(* The parts of a line.                                                    *)

(* istringstream >> number: 0 where there is none.                         *)
Number(text, token) ==
  IF \E n \in DOMAIN text : <<text[n]>> = token
  THEN CHOOSE n \in DOMAIN text : <<text[n]>> = token
  ELSE 0

Line == Trim(Written(file[at + 1]))

(* hg:repository:path:revision keeps the path.                             *)
SanitizeFilePath(path) ==
  LET rest == Split(path, ":", 3)[3]
      colon == SelectLastInSeq(rest, LAMBDA w : w = ":")
  IN  IF StartsWith(path, <<"hg", ":">>)
      THEN SubSeq(rest, 1, IF colon = 0 THEN Len(rest) ELSE colon - 1)
      ELSE path

(* Mutated form of ParamPos: no case for operator().                       *)
FirstParen(funcName) == Find(funcName, "(", 1)

(* Where the parameters of a function begin, 0 where it has none: at the   *)
(* first parenthesis, unless the letters before it are operator.           *)
ParamPos(funcName) ==
  LET paren == Find(funcName, "(", 1)
      isOperator == paren > 1 /\ funcName[paren - 1] \in EndInOperator
  IN  IF isOperator THEN Find(funcName, "(", paren + 1) ELSE paren

SymName(funcName) ==
  LET pos == ParamPos(funcName)
  IN  IF pos = 0 THEN funcName ELSE SubSeq(funcName, 1, pos - 1)

Params(funcName) ==
  LET pos == ParamPos(funcName)
  IN  IF pos = 0 THEN <<>> ELSE SubSeq(funcName, pos, Len(funcName))

-----------------------------------------------------------------------------
(* The callback of bploadsyms.                                             *)

BpSymbolInfo(rva, size, name, params) ==
  [mRva |-> rva, mSize |-> size, mName |-> name, mParams |-> params]

(* Mutated form of AddSymbol: filed by name and parameters.                *)
AddOverload(rva, size, name, params) ==
  LET symPtr == BpSymbolInfo(rva, size, name, params)
  IN  IF aCb = "bploadsyms"
      THEN /\ mSymsByRva' = Emplace(mSymsByRva, rva, symPtr)
           /\ mSymsByName' = Emplace(mSymsByName, name \o params, symPtr)
      ELSE UNCHANGED <<mSymsByRva, mSymsByName>>

AddSymbol(rva, size, name, params) ==
  LET symPtr == BpSymbolInfo(rva, size, name, params)
  IN  IF aCb = "bploadsyms"
      THEN /\ mSymsByRva' = Emplace(mSymsByRva, rva, symPtr)
           /\ mSymsByName' = Emplace(mSymsByName, name, symPtr)
      ELSE UNCHANGED <<mSymsByRva, mSymsByName>>

AddLine(rva, size, fileId, line) ==
  IF aCb = "bploadsyms"
  THEN mSourceLineSyms' = Emplace(mSourceLineSyms, rva,
         [mRva |-> rva, mSize |-> size, mFileId |-> fileId, mLine |-> line])
  ELSE UNCHANGED mSourceLineSyms

-----------------------------------------------------------------------------
(* The reader.                                                             *)

(* A reader begins where the module has no symbol yet and the file opens.  *)
Open(cb) ==
  /\ aCb = "none"
  /\ mSymsByRva = EmptyMap
  /\ aCb' = cb
  /\ at' = 0
  /\ UNCHANGED <<file, tables, delivered>>

(* getline gives the next line.                                            *)
TakeLine ==
  /\ aCb \in Callbacks
  /\ at < Len(file)
  /\ at' = at + 1
  /\ delivered' = [delivered EXCEPT ![aCb] = Max({@, at + 1})]
  /\ UNCHANGED <<file, aCb>>

IsFunc == StartsWith(Line, <<"FUNC", Space>>)
IsPublic == StartsWith(Line, <<"PUBLIC", Space>>)
IsFile == StartsWith(Line, <<"FILE", Space>>)

(* The first character of the line is a hexadecimal digit.                 *)
IsXDigit == Line # <<>> /\ Head(Line) \in {Hex[n] : n \in DOMAIN Hex}
                                           \cup {"FUNC", "FILE"}

(* The tokens of FUNC [m] address size parameter_size name.                *)
ReadFunc ==
  LET start == IF StartsWith(Line, <<"FUNC", Space, "m", Space>>) THEN 3 ELSE 2
      tokens == Split(Line, Space, start + 3)
      funcName == tokens[start + 3]
  IN  /\ TakeLine
      /\ IsFunc
      /\ AddSymbol(Number(Hex, tokens[start]), Number(Hex, tokens[start + 1]),
                   SymName(funcName), Params(funcName))
      /\ UNCHANGED <<mSourceLineSyms, mFileMap>>

(* PUBLIC [m] address parameter_size name.                                 *)
ReadPublic ==
  LET start == IF StartsWith(Line, <<"PUBLIC", Space, "m", Space>>) THEN 3 ELSE 2
      tokens == Split(Line, Space, start + 2)
  IN  /\ TakeLine
      /\ IsPublic
      /\ AddSymbol(Number(Hex, tokens[start]), 0, tokens[start + 2], <<>>)
      /\ UNCHANGED <<mSourceLineSyms, mFileMap>>

(* FILE id path, whatever the callback.                                    *)
ReadFile ==
  LET tokens == Split(Line, Space, 3)
      fileId == Number(Dec, tokens[2])
  IN  /\ TakeLine
      /\ IsFile
      /\ mFileMap' = [id \in DOMAIN mFileMap \cup {fileId} |->
                        IF id = fileId THEN SanitizeFilePath(tokens[3])
                                       ELSE mFileMap[id]]
      /\ UNCHANGED <<mSymsByRva, mSymsByName, mSourceLineSyms>>

(* address size line file.                                                 *)
ReadLineRecord ==
  LET tokens == Split(Line, Space, 4)
  IN  /\ TakeLine
      /\ ~IsFunc /\ ~IsPublic /\ ~IsFile /\ IsXDigit
      /\ AddLine(Number(Hex, tokens[1]), Number(Hex, tokens[2]),
                 Number(Dec, tokens[4]), Number(Dec, tokens[3]))
      /\ UNCHANGED <<mSymsByRva, mSymsByName, mFileMap>>

(* Blank lines, MODULE, whose name is only printed, and all other records. *)
SkipRecord ==
  /\ TakeLine
  /\ ~IsFunc /\ ~IsPublic /\ ~IsFile /\ ~IsXDigit
  /\ UNCHANGED tables

(* getline fails: at the end of the file or, the stream gone bad, earlier. *)
EndOfStream ==
  /\ aCb \in Callbacks
  /\ aCb' = "none"
  /\ UNCHANGED <<file, at, tables, delivered>>

Next ==
  \/ \E cb \in Callbacks : Open(cb)
  \/ ReadFunc
  \/ ReadPublic
  \/ ReadFile
  \/ ReadLineRecord
  \/ SkipRecord
  \/ EndOfStream

Spec == Init /\ [][Next]_vars

-----------------------------------------------------------------------------
(* Properties.                                                             *)

IsSymbol(record) == record.kind \in {"FUNC", "PUBLIC"}

(* A name whose parameters the reader finds: it has no parenthesis but one *)
(* behind a word in operator, and where it ends in such a word it has that *)
(* one.  So operator() and its parameters are told apart, and operator new *)
(* and its own; not set_operator and (int).                                *)
ToldApart(name, params) ==
  /\ \A p \in DOMAIN name : name[p] = "(" =>
       /\ p > 1 /\ name[p - 1] \in EndInOperator
       /\ \A q \in DOMAIN name : name[q] = "(" => q = p
  /\ params # <<>> =>
       /\ params[1] = "("
       /\ name # <<>> /\ name[Len(name)] \in EndInOperator =>
            \E p \in DOMAIN name : name[p] = "("

(* Where the name ends that a function is filed under: where its own does, *)
(* if the reader tells it from the parameters, and otherwise where another *)
(* name would that it does tell apart.                                     *)
NameEnd(record) ==
  LET written == record.name \o record.params
  IN  IF ToldApart(record.name, record.params)
      THEN Len(record.name)
      ELSE CHOOSE n \in 0 .. Len(written) :
             ToldApart(SubSeq(written, 1, n), SubSeq(written, n + 1, Len(written)))

ToSymbol(record) ==
  IF record.kind = "FUNC"
  THEN LET written == record.name \o record.params
       IN  BpSymbolInfo(record.address, record.size,
             SubSeq(written, 1, NameEnd(record)),
             SubSeq(written, NameEnd(record) + 1, Len(written)))
  ELSE BpSymbolInfo(record.address, 0, record.name, <<>>)

(* The lines among the first n of a kind, and the first of some lines.     *)
LinesOf(Kind(_), n) == {k \in 1 .. n : Kind(file[k])}
FirstOf(lines) == file[Min(lines)]

(* The tables hold what dump_syms wrote in the lines read so far, and only *)
(* that: each offset and each name the first symbol that has it; each line *)
(* its number and file; each file id its path without the repository.  A   *)
(* symbol has all that was written of it: its full name and its parameters *)
(* apart, also for operator(), if they are ToldApart, and not in general:  *)
(* set_operator(int) is one name, and run<void (int)>() ends at the first  *)
(* parenthesis.                                                            *)
TablesHoldRecords ==
  LET syms == LinesOf(IsSymbol, delivered["bploadsyms"])
      lines == LinesOf(LAMBDA r : r.kind = "LINE", delivered["bploadsyms"])
      paths == LinesOf(LAMBDA r : r.kind = "FILE",
                       Max({delivered[cb] : cb \in Callbacks}))
  IN  /\ mSymsByRva = [rva \in {file[k].address : k \in syms} |->
           ToSymbol(FirstOf({k \in syms : file[k].address = rva}))]
      /\ mSymsByName = [name \in {ToSymbol(file[k]).mName : k \in syms} |->
           ToSymbol(FirstOf({k \in syms : ToSymbol(file[k]).mName = name}))]
      /\ mSourceLineSyms = [rva \in {file[k].address : k \in lines} |->
           LET line == FirstOf({k \in lines : file[k].address = rva})
           IN  [mRva |-> rva, mSize |-> line.size, mFileId |-> line.file,
                mLine |-> line.line]]
      /\ mFileMap = [id \in {file[k].id : k \in paths} |->
           FirstOf({k \in paths : file[k].id = id}).path]

(* A symbol found under either key is there under that key, and the other  *)
(* table knows its offset, or its name: bpbp looks up by name what bpln    *)
(* finds by offset.  Whatever the file holds.                              *)
TablesAgree ==
  /\ \A rva \in DOMAIN mSymsByRva :
       /\ mSymsByRva[rva].mRva = rva
       /\ mSymsByRva[rva].mName \in DOMAIN mSymsByName
  /\ \A name \in DOMAIN mSymsByName :
       /\ mSymsByName[name].mName = name
       /\ mSymsByName[name].mRva \in DOMAIN mSymsByRva

=============================================================================
