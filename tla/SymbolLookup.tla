---------------------------- MODULE SymbolLookup ----------------------------
(***************************************************************************)
(* The queries on the symbol cache: NearestSymbol of src/bpsyms.cpp,       *)
(* behind bpln, bpk and iat, as a function of the tables.  An address the  *)
(* cache does not resolve goes to the debugger engine or is printed in     *)
(* hexadecimal: Unresolved stands for both.                                *)
(***************************************************************************)
EXTENDS SymbolCache

CONSTANTS
  SymRvas   (* SymRvas[x]: offsets of the symbols in the .sym file of x.   *)

ASSUME LookupAssumption == SymRvas \in [Builds -> SUBSET (0 .. MaxBase)]

(* ULONG64 arithmetic.                                                     *)
Wrap(n) == n % (MaxBase + 1)

mSymsByRva(moduleInfo) ==
  IF moduleInfo.mSyms = Null THEN {} ELSE SymRvas[moduleInfo.mSyms]

(* --map.upper_bound(k): the entry before the first one greater than k.    *)
LastNotAfter(S, k) ==
  LET before == S \ FromUpperBound(S, k)
  IN  CHOOSE x \in before : \A y \in before : ~KeyLess(x, y)

(* Mutated form of RvasUpTo: lower_bound in place of upper_bound.          *)
RvasBelow(rvas, rvaLookup) == {r \in rvas : r < rvaLookup}

(* --symbol stands on the last of these, when there is one.                *)
RvasUpTo(rvas, rvaLookup) == {r \in rvas : r <= rvaLookup}

Unresolved == [kind |-> "unresolved"]

(* The answer for the symbol at offset rva of the module filed under key.  *)
Resolved(key, rva, offset) ==
  LET symOffset == Wrap(key.mBase + rva)
  IN  [kind |-> "symbol", key |-> key, rva |-> rva, symOffset |-> symOffset,
       displacement |-> Wrap(offset - symOffset)]

NearestSymbol(pid, offset) ==
  LET keys == DOMAIN gModuleInfoByKey
      here == ModuleKey(pid, offset)
      key == LastNotAfter(keys, here)
      module == info[gModuleInfoByKey[key]]
      rvas == RvasUpTo(mSymsByRva(module), Wrap(offset - key.mBase))
  IN  IF \/ keys = FromUpperBound(keys, here)
         \/ offset > Wrap(key.mBase + module.mSize)
         \/ rvas = {}
      THEN Unresolved
      ELSE Resolved(key, CHOOSE r \in rvas : \A s \in rvas : s <= r, offset)

-----------------------------------------------------------------------------
(* Properties.                                                             *)

(* Inside the image of a filed module of the current process the answer is *)
(* the last symbol at or before the address in that module's own symbols,  *)
(* with its distance; without one the cache does not answer.               *)
LookupIsExact ==
  \A k \in DOMAIN gModuleInfoByKey :
    task = Idle /\ k.mPid = current =>
      LET x == image[current][k.mBase]
      IN  \A offset \in k.mBase .. k.mBase + SizeOf[x] - 1 :
            LET answer == NearestSymbol(current, offset)
                known == {k.mBase + r : r \in SymRvas[x]} \cap 0 .. offset
            IN  IF <<gBasePdbPath, x>> \in SymFiles /\ known # {}
                THEN /\ answer.kind = "symbol"
                     /\ answer.key = k
                     /\ answer.symOffset \in known
                     /\ \A o \in known : o <= answer.symOffset
                     /\ answer.displacement = offset - answer.symOffset
                ELSE answer = Unresolved

(* The comments "we actually want the one <= that key" and "<= that RVA":  *)
(* a symbol that is the answer for an address lies at or before it.        *)
SymbolAtOrBelow ==
  \A offset \in 0 .. MaxBase :
    current # Null =>
      LET answer == NearestSymbol(current, offset)
      IN  answer.kind = "symbol" => answer.symOffset <= offset

=============================================================================
