---------------------------- MODULE MCImportTable ----------------------------
(***************************************************************************)
(* An instance of ImportTable for TLC: directories of up to two            *)
(* descriptors with one or two functions each, their address tables packed *)
(* in either order, thunks of two bytes so that some addresses fall inside *)
(* an entry.                                                               *)
(***************************************************************************)
EXTENDS ImportTable

CONSTANTS
  dllA, dllB, f1, f2, f3

MCFunctions == {<<f1>>, <<f2>>, <<f1, f2>>, <<f3, f1>>}

(* One table at 2, and another behind it with its lookup table or without. *)
TableAt(dll, first, lookup, functions) ==
  [Name |-> dll, FirstThunk |-> first, OriginalFirstThunk |-> lookup,
   functions |-> functions]

MCImages ==
  {<<TableAt(dllA, 2, 20, s)>> : s \in MCFunctions}
  \cup UNION {{<<TableAt(dllA, 2, 20, s), TableAt(dllB, 4 + 2 * Len(s), l, t)>>,
               <<TableAt(dllA, 4 + 2 * Len(s), l, t), TableAt(dllB, 2, 20, s)>>} :
              s \in MCFunctions, t \in MCFunctions, l \in {0, 30}}

=============================================================================
