----------------------------- MODULE ModuleKeys -----------------------------
(***************************************************************************)
(* The ordered map of src/bpsyms.cpp: keys (process, base address),        *)
(* their order, and the iterator ranges the code takes over them.          *)
(***************************************************************************)
EXTENDS Integers, Maps

CONSTANTS
  Pids,     (* Engine process ids.                                         *)
  Bases,    (* Addresses at which a module can be loaded.                  *)
  MaxBase   (* numeric_limits<ULONG64>::max().                             *)

ASSUME KeyAssumption ==
  /\ Pids \subseteq Nat
  /\ MaxBase \in Nat
  /\ Bases \subseteq 0 .. MaxBase

ModuleKey(pid, base) == [mPid |-> pid, mBase |-> base]

Keys == [mPid : Pids, mBase : Bases]

KeyLess(k, l) ==
  \/ k.mPid < l.mPid
  \/ k.mPid = l.mPid /\ k.mBase < l.mBase

(* The keys of S from the iterator lower_bound(k), or upper_bound(k), on.  *)
FromLowerBound(S, k) == {x \in S : ~KeyLess(x, k)}
FromUpperBound(S, k) == {x \in S : KeyLess(k, x)}

(* Mutated forms of PidRange: the range starts at begin(); it ends after   *)
(* base 0.                                                                 *)
PidRangeFromBegin(S, pid) == S \ FromUpperBound(S, ModuleKey(pid, MaxBase))
PidRangeToMin(S, pid) ==
  FromLowerBound(S, ModuleKey(pid, 0)) \ FromUpperBound(S, ModuleKey(pid, 0))

(* The iterator range [first, last) over the keys of one process.          *)
PidRange(S, pid) ==
  FromLowerBound(S, ModuleKey(pid, 0))
    \ FromUpperBound(S, ModuleKey(pid, MaxBase))

=============================================================================
