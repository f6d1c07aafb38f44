-------------------------- MODULE SymbolBreakpoints --------------------------
(***************************************************************************)
(* bpbp of src/bpsyms.cpp: a breakpoint on module!name.  The symbol comes  *)
(* from the cache, whose names outlive the modules, the base address from  *)
(* the engine, and the breakpoint is made before the latter is known.      *)
(***************************************************************************)
EXTENDS SymbolCommands

CONSTANTS
  SymNameOf,         (* SymNameOf[x][rva]: the symbol at rva of build x.   *)
  BreakpointFails,   (* Whether SetOffset and AddFlags may fail.           *)
  MaxBreakpoints     (* Bound on the breakpoints a session makes.          *)

ASSUME BreakpointAssumption ==
  /\ BreakpointFails \in BOOLEAN
  /\ MaxBreakpoints \in Nat
  /\ \A x \in Builds : DOMAIN SymNameOf[x] = SymRvas[x]
  /\ Null \notin 0 .. MaxBase

VARIABLE
  breakpoints   (* Those the engine has been asked for, in order: offset   *)
                (* is Null before SetOffset, asked is <<module, name>>.    *)

allVars == <<vars, synthetic, breakpoints>>

BreakpointsInit == CommandsInit /\ breakpoints = << >>

-----------------------------------------------------------------------------

(* CrackSymbolicName: a name without "!" is refused.                       *)
Cracked(args) == Len(args) = 2

(* LookupSymbolByName: the offset of the symbol, none when the cache does  *)
(* not know the module or the name.                                        *)
LookupSymbolByName(module, name) ==
  IF module \in DOMAIN gModuleInfoByName
  THEN LET x == info[gModuleInfoByName[module]].mSyms
       IN  IF x = Null
           THEN {}
           ELSE {[build |-> x, mRva |-> r] :
                   r \in {q \in SymRvas[x] : SymNameOf[x][q] = name}}
  ELSE {}

(* GetModuleByModuleName: a base the current process has the module at.    *)
GetModuleByModuleName(module) ==
  IF current = Null
  THEN {}
  ELSE {b \in DOMAIN image[current] : NameOf[image[current][b]] = module}

AddBreakpoint(offset, enabled, asked) ==
  breakpoints' = Append(breakpoints, [offset |-> offset, enabled |-> enabled,
                                      asked |-> asked])

(* Mutated form of Unplaced: AddFlags before the address is known.         *)
UnplacedEnabled(asked) ==
  /\ AddBreakpoint(Null, TRUE, asked)
  /\ UNCHANGED synthetic

(* GetModuleByModuleName or SetOffset fails: the command returns and the   *)
(* breakpoint stays with the engine.                                       *)
Unplaced(asked) ==
  /\ AddBreakpoint(Null, FALSE, asked)
  /\ UNCHANGED synthetic

(* AddFlags fails.                                                         *)
Placed(offset, asked) ==
  /\ AddBreakpoint(offset, FALSE, asked)
  /\ UNCHANGED synthetic

(* Mutated form of Enabled: the base of the module, without the symbol's   *)
(* offset in it.                                                           *)
EnabledAtBase(base, sym, asked) ==
  /\ AddBreakpoint(base, TRUE, asked)
  /\ synthetic' = synthetic \cup AddSyntheticSymbol(base, sym.build, sym.mRva)

Enabled(base, sym, asked) ==
  LET offset == Wrap(base + sym.mRva)
  IN  /\ AddBreakpoint(offset, TRUE, asked)
      /\ synthetic' =
           synthetic \cup AddSyntheticSymbol(offset, sym.build, sym.mRva)

(* The command finds the symbol and AddBreakpoint succeeds; where it does  *)
(* not, nothing has changed.                                               *)
bpbp(asked) ==
  /\ task = Idle
  /\ Len(breakpoints) < MaxBreakpoints
  /\ Cracked(asked)
  /\ \E sym \in LookupSymbolByName(asked[1], asked[2]) :
       LET bases == GetModuleByModuleName(asked[1])
       IN  \/ /\ bases = {} \/ BreakpointFails
              /\ Unplaced(asked)
           \/ \E base \in bases :
                /\ BreakpointFails
                /\ Placed(Wrap(base + sym.mRva), asked)
           \/ \E base \in bases : Enabled(base, sym, asked)
  /\ UNCHANGED vars

SymNames == UNION {{SymNameOf[x][r] : r \in SymRvas[x]} : x \in Builds}

(* A breakpoint keeps its address when its module goes.                    *)
BreakpointsNext ==
  \/ CommandsNext /\ UNCHANGED breakpoints
  \/ \E asked \in {<<m>> : m \in Names} \cup Names \X SymNames : bpbp(asked)

BreakpointsSpec == BreakpointsInit /\ [][BreakpointsNext]_allVars

-----------------------------------------------------------------------------
(* Properties.                                                             *)

(* The breakpoint that a failed bpbp leaves behind is not armed: it is     *)
(* never enabled before it has its address.                                *)
UnplacedIsDisabled ==
  \A k \in DOMAIN breakpoints :
    breakpoints[k].enabled => breakpoints[k].offset # Null

(* A breakpoint is armed at the symbol it was asked for, in the module of  *)
(* that name that the current process has loaded at this moment: also when *)
(* the cache has the symbol from an earlier load, from another base, or    *)
(* from another process.                                                   *)
ArmedAtSymbol ==
  \A k \in DOMAIN breakpoints' \ DOMAIN breakpoints :
    LET bp == breakpoints'[k]
    IN  bp.enabled =>
          \E base \in DOMAIN image[current] :
            LET x == image[current][base]
            IN  /\ NameOf[x] = bp.asked[1]
                /\ \E rva \in SymRvas[x] :
                     /\ SymNameOf[x][rva] = bp.asked[2]
                     /\ bp.offset = base + rva

BreakpointsArmedAtSymbols == [][ArmedAtSymbol]_allVars

=============================================================================
