--------------------------- MODULE SymbolCommands ---------------------------
(***************************************************************************)
(* bpln and bpk of src/bpsyms.cpp beside the symbol cache.  They resolve   *)
(* addresses with NearestSymbol, which hands each symbol it finds to the   *)
(* debugger engine as a synthetic symbol.  The engine keeps those with the *)
(* module they fall into: the names the extension gave it have to be true  *)
(* for as long, whatever the cache does.                                   *)
(***************************************************************************)
EXTENDS SymbolLookup

VARIABLE
  synthetic   (* The engine's synthetic symbols: the module (process and   *)
              (* base) and the address it has them at, the build and the   *)
              (* offset of the symbol whose name they have.                *)

CommandsInit == Init /\ synthetic = {}

(* AddSyntheticSymbol of the engine: in the module of the current process  *)
(* that the address falls into, an error that is ignored elsewhere or      *)
(* where there is one already.                                             *)
AddSyntheticSymbol(offset, build, rva) ==
  {[pid |-> current, base |-> base, offset |-> offset,
    build |-> build, rva |-> rva] :
     base \in {b \in DOMAIN image[current] :
                 /\ offset \in b .. b + SizeOf[image[current][b]] - 1
                 /\ \A s \in synthetic : s.pid = current => s.offset # offset}}

(* NearestSymbol with eLazyAddSynthSyms: what it adds for an address.      *)
LazyAddSynthSyms(offset) ==
  LET answer == NearestSymbol(current, offset)
  IN  IF answer = Unresolved
      THEN {}
      ELSE AddSyntheticSymbol(answer.symOffset,
                              info[gModuleInfoByKey[answer.key]].mSyms,
                              answer.rva)

(* bpln with an address, bpk with those of a stack.  GetCurrentProcessId   *)
(* fails without a process, and nothing is added.                          *)
Resolve(offsets) ==
  /\ task = Idle
  /\ current # Null
  /\ synthetic' = synthetic \cup UNION {LazyAddSynthSyms(o) : o \in offsets}
  /\ UNCHANGED vars

bpln(address) == Resolve({address})

bpk(frames) == Resolve(frames)

(* The engine drops the synthetic symbols of a module with the module.     *)
Surviving ==
  {s \in synthetic : /\ s.pid \in DOMAIN image'
                     /\ s.base \in DOMAIN image'[s.pid]}

(* The addresses of stacks of up to two frames.                            *)
CallStacks == {{caller, callee} : caller, callee \in 0 .. MaxBase}

CommandsNext ==
  \/ Next /\ synthetic' = Surviving
  \/ \E address \in 0 .. MaxBase : bpln(address)
  \/ \E frames \in CallStacks : bpk(frames)

CommandsSpec == CommandsInit /\ [][CommandsNext]_<<vars, synthetic>>

-----------------------------------------------------------------------------
(* Properties.                                                             *)

(* A synthetic symbol that the engine has been given is a symbol of the    *)
(* very build loaded there, at that symbol's address, also after the cache *)
(* has forgotten, refiled or reread the module.                            *)
SyntheticIsTrue ==
  \A s \in synthetic :
    /\ image[s.pid][s.base] = s.build
    /\ s.rva \in SymRvas[s.build]
    /\ s.offset = s.base + s.rva

=============================================================================
