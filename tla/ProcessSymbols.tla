---------------------------- MODULE ProcessSymbols ----------------------------
(***************************************************************************)
(* What the symbol cache of src/bpsyms.cpp is to the process it was loaded *)
(* for: the symbols of the modules that the process has, learned and       *)
(* forgotten one by one, and all of it in time, before the target moves    *)
(* again.  The tables, the sharing of objects under a name, the listeners  *)
(* and the loops over them are SymbolCache's.                              *)
(***************************************************************************)
EXTENDS Maps

CONSTANTS
  Bases,
  Exes,     (* Builds of executables, loaded when the process starts.      *)
  Dlls,     (* Builds of libraries, loaded and unloaded at any time.       *)
  SymsOf    (* SymsOf[x]: the symbols there are of build x.                *)

VARIABLES
  modules,  (* modules[b]: the build the process has at base b.            *)
  known,    (* known[b]: the symbols known of the module at base b.        *)
  followed  (* Whether the process is followed as it loads libraries.      *)

vars == <<modules, known, followed>>

Init ==
  /\ modules = EmptyMap
  /\ known = EmptyMap
  /\ followed = FALSE

(* Nothing is known that is not there, and nothing is missed that came     *)
(* while the process was followed; one that is not is not known at all.    *)
CaughtUp ==
  /\ DOMAIN known \subseteq DOMAIN modules
  /\ IF followed
     THEN \A base \in DOMAIN modules :
            modules[base] \in Dlls => base \in DOMAIN known
     ELSE known = EmptyMap

(* The target moves only when the cache has caught up with it.             *)
Start(base, x) ==
  /\ CaughtUp
  /\ modules = EmptyMap
  /\ modules' = Emplace(EmptyMap, base, x)
  /\ UNCHANGED <<known, followed>>

Load(base, x) ==
  /\ CaughtUp
  /\ base \notin DOMAIN modules
  /\ modules' = Emplace(modules, base, x)
  /\ UNCHANGED <<known, followed>>

Unload(base) ==
  /\ CaughtUp
  /\ base \in DOMAIN modules
  /\ modules[base] \in Dlls
  /\ modules' = Erase(modules, {base})
  /\ UNCHANGED <<known, followed>>

(* Nothing is left of the process when it goes.                            *)
Exit ==
  /\ CaughtUp
  /\ modules' = EmptyMap
  /\ known' = EmptyMap
  /\ UNCHANGED followed

(* What is known of a module is what there is of its very build.           *)
Learn(base) ==
  /\ base \in DOMAIN modules
  /\ base \notin DOMAIN known
  /\ known' = Emplace(known, base, SymsOf[modules[base]])
  /\ UNCHANGED <<modules, followed>>

(* Only what the process no longer has.                                    *)
Forget(base) ==
  /\ base \in DOMAIN known \ DOMAIN modules
  /\ known' = Erase(known, {base})
  /\ UNCHANGED <<modules, followed>>

(* The process is followed from when all its modules are known.            *)
Follow ==
  /\ DOMAIN modules = DOMAIN known
  /\ followed' = TRUE
  /\ UNCHANGED <<modules, known>>

Next ==
  \/ \E base \in Bases :
       \/ \E x \in Exes : Start(base, x)
       \/ \E x \in Dlls : Load(base, x)
       \/ Unload(base) \/ Learn(base) \/ Forget(base)
  \/ Exit
  \/ Follow

Spec == Init /\ [][Next]_vars

=============================================================================
