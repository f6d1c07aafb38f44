----------------------------- MODULE SymbolPath -----------------------------
(***************************************************************************)
(* LoadBpSymbols of src/bpsyms.cpp, and the functions that find the .sym   *)
(* file of a module for it: the path is made of the name of its PDB, and   *)
(* of the GUID and age in its image, which tell its builds apart.          *)
(***************************************************************************)
EXTENDS Integers, Sequences, SequencesExt

CONSTANTS
  HexBase,            (* 16: the values of a digit.                        *)
  GuidWidths,         (* Digits of the fields of a GUID: <<8, 4, 4, 2, ..>>.*)
  PdbNames,           (* Names of PDBs.                                    *)
  Directories,        (* Debug directories of images: sequences of         *)
                      (* [type, guid, age, pdb].                           *)
  NoInfo              (* No directory, or no path.                         *)

(* n without its last k digits.                                            *)
WithoutLast(n, k) ==
  LET rest[j \in Nat] == IF j = 0 THEN n ELSE rest[j - 1] \div HexBase
  IN  rest[k]

(* No field of a GUID has more digits than it is given.                    *)
Guids ==
  {guid \in [1 .. Len(GuidWidths) -> Nat] :
     \A n \in 1 .. Len(GuidWidths) : WithoutLast(guid[n], GuidWidths[n]) = 0}

ASSUME PathAssumption ==
  /\ HexBase \in Nat \ {0, 1}
  /\ GuidWidths \in Seq(Nat) /\ Len(GuidWidths) > 0
  /\ \A dir \in Directories :
       dir \in Seq([type : STRING, guid : Guids, age : Nat, pdb : PdbNames])

VARIABLES
  dbgDir,             (* The module's debug directory.                     *)
  entry,              (* The entries looked at.                            *)
  pathPc,             (* "idle" outside LoadBpSymbols.                     *)
  pdbPath             (* The file opened, below the base path.             *)

pathVars == <<dbgDir, entry, pathPc, pdbPath>>

PathTypeOK ==
  /\ dbgDir \in Directories \cup {NoInfo}
  /\ entry \in Nat
  /\ pathPc \in {"idle", "entries", "read", "true", "false"}
  /\ \/ pdbPath = NoInfo
     \/ pdbPath \in PdbNames \X Seq(0 .. HexBase - 1) \X PdbNames

PathInit ==
  /\ dbgDir = NoInfo
  /\ entry = 0
  /\ pathPc = "idle"
  /\ pdbPath = NoInfo

-----------------------------------------------------------------------------
(* Numbers in hexadecimal, as an ostream writes them.                      *)

(* The last width digits of n, zeros first.                                *)
Digits(n, width) ==
  [k \in 1 .. width |-> WithoutLast(n, width - k) % HexBase]

(* As many digits as it takes: setw(0).                                    *)
Unpadded(n) ==
  Digits(n, CHOOSE width \in 1 .. n + 1 :
              /\ WithoutLast(n, width) = 0
              /\ width > 1 => WithoutLast(n, width - 1) # 0)

(* Mutated form of Padded: setfill without setw.                           *)
NotPadded(n, width) == Unpadded(n)

Padded(n, width) == Digits(n, width)

(* GenerateDebugInfoUniqueId.                                              *)
UniqueId(guid, age) ==
  FlattenSeq([n \in DOMAIN guid |-> Padded(guid[n], GuidWidths[n])])
    \o Unpadded(age)

-----------------------------------------------------------------------------

(* GetDataDirectoryEntry, and the read of the directory; where they fail,  *)
(* LoadBpSymbols returns with nothing opened.                              *)
PathBegin(dir) ==
  /\ pathPc = "idle"
  /\ dbgDir' = dir
  /\ pathPc' = "entries"
  /\ UNCHANGED <<entry, pdbPath>>

(* The next entry is looked at.                                            *)
NextEntry ==
  /\ pathPc = "entries"
  /\ entry < Len(dbgDir)
  /\ entry' = entry + 1
  /\ pathPc' = IF dbgDir[entry + 1].type = "CODEVIEW" THEN "read" ELSE pathPc
  /\ UNCHANGED <<dbgDir, pdbPath>>

NoPdbReference ==
  /\ pathPc = "entries"
  /\ entry = Len(dbgDir)
  /\ pathPc' = "false"
  /\ UNCHANGED <<dbgDir, entry, pdbPath>>

(* The CodeView data cannot be read, its path not be converted or taken    *)
(* apart, or the path that it makes is too long.                           *)
NoPath ==
  /\ pathPc = "read"
  /\ pathPc' = "false"
  /\ UNCHANGED <<dbgDir, entry, pdbPath>>

(* pdb/id/pdb.                                                             *)
OpenSymFile ==
  LET cv == dbgDir[entry]
  IN  /\ pathPc = "read"
      /\ pdbPath' = <<cv.pdb, UniqueId(cv.guid, cv.age), cv.pdb>>
      /\ pathPc' = "true"
      /\ UNCHANGED <<dbgDir, entry>>

PathReturn ==
  /\ pathPc \in {"true", "false"}
  /\ dbgDir' = NoInfo
  /\ entry' = 0
  /\ pathPc' = "idle"
  /\ pdbPath' = NoInfo

PathWalk ==
  NextEntry \/ NoPdbReference \/ NoPath \/ OpenSymFile \/ PathReturn

-----------------------------------------------------------------------------
(* Properties.                                                             *)

References(dir) == {k \in DOMAIN dir : dir[k].type = "CODEVIEW"}

PdbOf(dir) == dir[CHOOSE k \in References(dir) :
                    \A other \in References(dir) : k <= other]

SameBuild(a, b) == a.guid = b.guid /\ a.age = b.age /\ a.pdb = b.pdb

PathOf(cv) == <<cv.pdb, UniqueId(cv.guid, cv.age), cv.pdb>>

(* The file opened for a module is that of its own build: the path is that *)
(* of its first PDB reference, and no other PDB, GUID or age has the same. *)
PathIsOfBuild ==
  pathPc = "true" =>
    /\ pdbPath = PathOf(PdbOf(dbgDir))
    /\ \A dir \in Directories : \A k \in References(dir) :
         PathOf(dir[k]) = pdbPath => SameBuild(dir[k], PdbOf(dbgDir))

=============================================================================
