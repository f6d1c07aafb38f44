---------------------------- MODULE MCSymbolFile ----------------------------
(***************************************************************************)
(* Files for TLC: the symbols, lines and paths below, in every order.  16  *)
(* is "10" in hexadecimal, 10 is "10" in decimal.                          *)
(***************************************************************************)
EXTENDS SymbolFile

MCHex == (0 :> "0") @@ (10 :> "a") @@ (16 :> "10")
MCDec == (0 :> "0") @@ (10 :> "10") @@ (16 :> "16")
MCEndInOperator == {"operator", "set_operator"}

Func(m, address, name, params) ==
  [kind |-> "FUNC", m |-> m, address |-> address, size |-> 10,
   name |-> name, params |-> params]
Public(m, address, name) ==
  [kind |-> "PUBLIC", m |-> m, address |-> address, name |-> name]
Path(id, vcs, path) == [kind |-> "FILE", id |-> id, vcs |-> vcs, path |-> path]
LineAt(address) ==
  [kind |-> "LINE", address |-> address, size |-> 10, line |-> 16, file |-> 10]
Other(text) == [kind |-> "other", text |-> text]

(* Two overloads of a function, one folded with operator() at one offset,  *)
(* names with spaces and colons, and three whose parameters the reader     *)
(* does not find: two end in operator, of which one takes a function, and  *)
(* the third is of a template over a function type.                        *)
Symbols ==
  {Func(FALSE, 10, <<"get">>, <<"(", "int", " ", "*", ")">>),
   Func(TRUE, 16, <<"get">>, <<"(", ")">>),
   Func(TRUE, 10, <<"Fn", ":", ":", "operator", "(", ")">>, <<"(", "int", ")">>),
   Func(FALSE, 0, <<"operator", " ", "bool">>, <<>>),
   Func(FALSE, 16, <<"set_operator">>, <<"(", "int", ")">>),
   Func(TRUE, 10, <<"set_operator">>,
        <<"(", "void", " ", "(", "*", ")", "(", ")", ")">>),
   Func(FALSE, 0, <<"run<void", " ", "(", "int", ")", ">">>, <<"(", ")">>),
   Public(FALSE, 16, <<"_get">>),
   Public(TRUE, 0, <<"a", " ", "b">>)}

Others ==
  {Path(10, <<"host">>, <<"xpcom", "/", "a b", ".cpp">>),
   Path(16, <<>>, <<"c", ":", "a.cpp">>),
   Path(0, <<"host">>, <<"d", ":", "a.cpp">>),
   LineAt(10), LineAt(0),
   Other(<<"MODULE", " ", "windows", " ", "x86", " ", "id", " ", "a.pdb">>),
   Other(<<"\r">>),
   Other(<<"STACK", " ", "WIN">>)}

MCFiles ==
  {f \in BoundedSeq(Symbols, 3) : \A a, b \in DOMAIN f : f[a] = f[b] => a = b}
  \cup {<<a, b>> : a \in Others, b \in Symbols \cup {LineAt(16)}}
  \cup {<<a, b, c>> : a \in Others, b \in {LineAt(0), Other(<<"\r">>)},
                      c \in {LineAt(0), LineAt(16)}}

=============================================================================
