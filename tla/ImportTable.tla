----------------------------- MODULE ImportTable -----------------------------
(***************************************************************************)
(* The iat command of src/iat.cpp: given the address of an entry of a      *)
(* module's import address table, it finds the imported function by        *)
(* walking the table to that entry and reading the entry of the same index *)
(* in the import lookup table.                                             *)
(*                                                                         *)
(* The target is stopped, and the image is one the loader has bound: the   *)
(* entries of an address table are nonzero up to its terminator.           *)
(* Addresses are relative to the base of the module.                       *)
(***************************************************************************)
EXTENDS Integers, Sequences

CONSTANTS
  ThunkSize,    (* sizeof(ThunkDataT), by gPointerWidth.                   *)
  Dlls,         (* Names of imported modules.                              *)
  Functions,    (* What a lookup entry names: a function or an ordinal.    *)
  Images,       (* Import directories of modules.                          *)
  MaxPtr,       (* Bound on the addresses asked for.                       *)
  Null

(* An IMAGE_IMPORT_DESCRIPTOR and the functions its tables are about.  The *)
(* descriptor has no lookup table when OriginalFirstThunk is 0.            *)
Descriptors == [Name : Dlls, FirstThunk : Nat, OriginalFirstThunk : Nat,
                functions : Seq(Functions)]

(* The k-th entry of the address table of d, the terminator the last.      *)
Slot(d, k) == d.FirstThunk + k * ThunkSize
Slots(d) == {Slot(d, k) : k \in 0 .. Len(d.functions) - 1}
Terminator(d) == Slot(d, Len(d.functions))

(* No address table runs into another.                                     *)
Apart(image) ==
  \A a, b \in DOMAIN image :
    a # b => \/ Terminator(image[a]) < image[b].FirstThunk
             \/ Terminator(image[b]) < image[a].FirstThunk

ASSUME ImportAssumption ==
  /\ ThunkSize \in Nat \ {0}
  /\ MaxPtr \in Nat
  /\ Null \notin Dlls \X Functions
  /\ Images \subseteq Seq(Descriptors)
  /\ \A image \in Images : Apart(image)

VARIABLES
  importDescriptors,  (* The directory of the module asked about.          *)
  unreadable,         (* Whether reads of the target's memory may fail.    *)
  aPtr,               (* The address asked for.                            *)
  i,                  (* The descriptor the command is at.                 *)
  thunk, index,       (* Where WalkImageThunkData is in its address table. *)
  target,             (* <<module, function>> printed, Null before.        *)
  pc                  (* "done" outside the command.                       *)

vars == <<importDescriptors, unreadable, aPtr, i, thunk, index, target, pc>>

TypeOK ==
  /\ importDescriptors \in Images
  /\ unreadable \in BOOLEAN
  /\ aPtr \in 0 .. MaxPtr
  /\ i \in 1 .. Len(importDescriptors) + 1
  /\ thunk \in Nat
  /\ index \in Nat
  /\ target \in (Dlls \X Functions) \cup {Null}
  /\ pc \in {"descriptor", "thunk", "done"}

Init ==
  /\ importDescriptors \in Images
  /\ unreadable \in BOOLEAN
  /\ aPtr \in 0 .. MaxPtr
  /\ i = 1
  /\ thunk = 0
  /\ index = 0
  /\ target = Null
  /\ pc = "done"

Descriptor == importDescriptors[i]

-----------------------------------------------------------------------------

(* What GetDataDirectoryEntry of src/pe.cpp returns: false when it cannot  *)
(* read one of the headers.                                                *)
GetDataDirectoryEntry == IF unreadable THEN BOOLEAN ELSE {TRUE}

(* The command begins; or it returns because it cannot evaluate its        *)
(* argument, find the module or read its directory.                        *)
Begin(ptr) ==
  /\ pc = "done"
  /\ aPtr' = ptr
  /\ i' = 1
  /\ target' = Null
  /\ \E found \in GetDataDirectoryEntry :
       pc' = IF found THEN "descriptor" ELSE "done"
  /\ UNCHANGED <<importDescriptors, unreadable, thunk, index>>

(* Mutated form of NextDescriptor: from the last to the first.             *)
PreviousDescriptor ==
  /\ i' = i - 1
  /\ pc' = "descriptor"
  /\ UNCHANGED <<importDescriptors, unreadable, aPtr, thunk, index, target>>

(* continue, where WalkImageThunkData has returned false.                  *)
NextDescriptor ==
  /\ i' = i + 1
  /\ pc' = "descriptor"
  /\ UNCHANGED <<importDescriptors, unreadable, aPtr, thunk, index, target>>

SkipDescriptor ==
  /\ pc = "descriptor"
  /\ i <= Len(importDescriptors)
  /\ Descriptor.OriginalFirstThunk = 0 \/ Descriptor.FirstThunk > aPtr
  /\ NextDescriptor

EnterTable ==
  /\ pc = "descriptor"
  /\ i <= Len(importDescriptors)
  /\ Descriptor.OriginalFirstThunk # 0
  /\ Descriptor.FirstThunk <= aPtr
  /\ thunk' = Descriptor.FirstThunk
  /\ index' = 0
  /\ pc' = "thunk"
  /\ UNCHANGED <<importDescriptors, unreadable, aPtr, i, target>>

(* ReadVirtual at thunk, of an entry that is not 0.                        *)
Filled(address) ==
  \E d \in DOMAIN importDescriptors : address \in Slots(importDescriptors[d])

(* Mutated forms of NextThunk: the walk goes past aPtr; past a terminator. *)
NextThunkInclusive ==
  /\ pc = "thunk"
  /\ thunk <= aPtr
  /\ Filled(thunk)
  /\ index' = index + 1
  /\ thunk' = thunk + ThunkSize
  /\ UNCHANGED <<importDescriptors, unreadable, aPtr, i, target, pc>>
NextThunkUnchecked ==
  /\ pc = "thunk"
  /\ thunk < aPtr
  /\ index' = index + 1
  /\ thunk' = thunk + ThunkSize
  /\ UNCHANGED <<importDescriptors, unreadable, aPtr, i, target, pc>>

NextThunk ==
  /\ pc = "thunk"
  /\ thunk < aPtr
  /\ Filled(thunk)
  /\ index' = index + 1
  /\ thunk' = thunk + ThunkSize
  /\ UNCHANGED <<importDescriptors, unreadable, aPtr, i, target, pc>>

(* Mutated form of LeaveTable: the command returns.                        *)
GiveUpAtTable ==
  /\ pc = "thunk"
  /\ thunk < aPtr
  /\ unreadable \/ ~Filled(thunk)
  /\ pc' = "done"
  /\ UNCHANGED <<importDescriptors, unreadable, aPtr, i, thunk, index, target>>

LeaveTable ==
  /\ pc = "thunk"
  /\ thunk < aPtr
  /\ unreadable \/ ~Filled(thunk)
  /\ NextDescriptor

(* The lookup entry at index.  That of the terminator is 0, and is taken   *)
(* for a name at the start of the image, which may read as any string.     *)
LookupEntry(d, n) ==
  IF n < Len(d.functions) THEN {d.functions[n + 1]} ELSE Functions

(* The entry and the names are read and printed.                           *)
Report ==
  /\ pc = "thunk"
  /\ thunk >= aPtr
  /\ \E function \in LookupEntry(Descriptor, index) :
       target' = <<Descriptor.Name, function>>
  /\ pc' = "done"
  /\ UNCHANGED <<importDescriptors, unreadable, aPtr, i, thunk, index>>

(* The entry or the function's name cannot be read.                        *)
EntryUnread ==
  /\ pc = "thunk"
  /\ thunk >= aPtr
  /\ unreadable \/ index = Len(Descriptor.functions)
  /\ NextDescriptor

(* The name of the imported module cannot be read.                         *)
ModuleUnread ==
  /\ unreadable
  /\ pc = "thunk"
  /\ thunk >= aPtr
  /\ pc' = "done"
  /\ UNCHANGED <<importDescriptors, unreadable, aPtr, i, thunk, index, target>>

NotFound ==
  /\ pc = "descriptor"
  /\ i > Len(importDescriptors)
  /\ pc' = "done"
  /\ UNCHANGED <<importDescriptors, unreadable, aPtr, i, thunk, index, target>>

Walk ==
  \/ SkipDescriptor \/ EnterTable \/ NextThunk \/ LeaveTable
  \/ Report \/ EntryUnread \/ ModuleUnread \/ NotFound

Next ==
  \/ Walk
  \/ \E ptr \in 0 .. MaxPtr : Begin(ptr)

Spec == Init /\ [][Next]_vars

FairSpec == Spec /\ WF_vars(Walk)

-----------------------------------------------------------------------------
(* Properties.                                                             *)

(* What iat prints for an entry of an address table is the import that the *)
(* loader bound there, wherever the table lies among the others and        *)
(* whatever could not be read on the way; and it prints nothing for an     *)
(* address outside every table.                                            *)
TargetIsBound ==
  target # Null =>
    /\ \A d \in DOMAIN importDescriptors :
         \A k \in 1 .. Len(importDescriptors[d].functions) :
           aPtr = Slot(importDescriptors[d], k - 1)
             => target = <<importDescriptors[d].Name,
                           importDescriptors[d].functions[k]>>
    /\ \E d \in DOMAIN importDescriptors :
         /\ importDescriptors[d].FirstThunk <= aPtr
         /\ aPtr <= Terminator(importDescriptors[d])

(* The walk of an address table ends at its terminator, so that the lookup *)
(* entry that is read is one of the same descriptor.                       *)
WalkInTable ==
  pc = "thunk" =>
    /\ index <= Len(Descriptor.functions)
    /\ thunk = Slot(Descriptor, index)

(* When the engine can read the image, every entry of a table that has a   *)
(* lookup table is reported, also when tables before it in the directory   *)
(* lie below it.                                                           *)
EntryIsReported ==
  (/\ pc # "done"
   /\ ~unreadable
   /\ \E d \in DOMAIN importDescriptors :
        /\ importDescriptors[d].OriginalFirstThunk # 0
        /\ aPtr \in Slots(importDescriptors[d]))
  ~> (pc = "done" /\ target # Null)

=============================================================================
