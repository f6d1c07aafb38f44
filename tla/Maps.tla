-------------------------------- MODULE Maps --------------------------------
(***************************************************************************)
(* The maps of the C++ library as the extension uses them: functions whose *)
(* DOMAIN is the set of their keys.                                        *)
(***************************************************************************)

EmptyMap == [x \in {} |-> x]

IsMap(map, S, T) == DOMAIN map \subseteq S /\ map \in [DOMAIN map -> T]

(* std::map::emplace: an entry that is already there is kept.              *)
Emplace(map, k, v) ==
  IF k \in DOMAIN map
  THEN map
  ELSE [x \in DOMAIN map \cup {k} |-> IF x = k THEN v ELSE map[x]]

(* std::map::erase of a set of keys, those that are absent ignored.        *)
Erase(map, S) == [x \in DOMAIN map \ S |-> map[x]]

=============================================================================
