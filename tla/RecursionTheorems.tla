-------------------------- MODULE RecursionTheorems --------------------------
(***************************************************************************)
(* Facts the proofs about more than one component rest on: least elements, *)
(* induction and recursion over the numbers, and the maps of Maps.         *)
(*                                                                         *)
(* Induction and recursion are stated of sets and functions, not of an     *)
(* operator: a step that uses them names the set of the numbers for which  *)
(* its claim holds, or the function that takes a value to the next one.    *)
(***************************************************************************)
EXTENDS Integers, Maps, WellFoundedInduction, TLAPS

LEMMA EmplaceType ==
  ASSUME NEW S, NEW T, NEW map, IsMap(map, S, T), NEW k \in S, NEW v \in T
  PROVE  /\ IsMap(Emplace(map, k, v), S, T)
         /\ DOMAIN Emplace(map, k, v) = DOMAIN map \cup {k}
         /\ \A x \in DOMAIN map : Emplace(map, k, v)[x] = map[x]
         /\ k \notin DOMAIN map => Emplace(map, k, v)[k] = v
BY DEF IsMap, Emplace

LEMMA EraseType ==
  ASSUME NEW S, NEW T, NEW map, IsMap(map, S, T), NEW R
  PROVE  /\ IsMap(Erase(map, R), S, T)
         /\ DOMAIN Erase(map, R) = DOMAIN map \ R
         /\ \A x \in DOMAIN map \ R : Erase(map, R)[x] = map[x]
BY DEF IsMap, Erase

-----------------------------------------------------------------------------
(* Least and greatest elements.                                            *)

LEMMA HasLeast ==
  ASSUME NEW T \in SUBSET Nat, T # {}
  PROVE  \E x \in T : \A y \in T : x <= y
<1> DEFINE less == {ss \in Nat \X Nat : ss[1] < ss[2]}
<1>1. IsWellFoundedOn(less, Nat)
  BY NatLessThanWellFounded DEF OpToRel
<1>2. \A y, x \in Nat : y < x => <<y, x>> \in less
  OBVIOUS
<1> HIDE DEF less
<1>3. PICK x \in T : \A y \in T : ~ (<<y, x>> \in less)
  BY <1>1, WFMin, Zenon
<1>4. \A y \in T : ~ (y < x)
  BY <1>2, <1>3
<1>5. QED
  BY <1>4

LEMMA HasGreatest ==
  ASSUME NEW n \in Nat, NEW S \in SUBSET (0 .. n), S # {}
  PROVE  \E x \in S : \A y \in S : y <= x
<1> DEFINE T == {d \in Nat : \E r \in S : d = n - r}
<1>1. T \in SUBSET Nat
  OBVIOUS
<1>2. \A r \in S : n - r \in T
  OBVIOUS
<1> HIDE DEF T
<1>3. PICK t \in T : \A d \in T : t <= d
  BY <1>1, <1>2, HasLeast
<1>4. PICK r \in S : t = n - r
  BY <1>3 DEF T
<1>5. \A q \in S : n - r <= n - q
  BY <1>2, <1>3, <1>4
<1>6. QED
  BY <1>5

-----------------------------------------------------------------------------
(* Induction and recursion.                                                *)

(* Induction: a set that has 0 and, with a number, the next one has all.   *)
LEMMA InductionOverNat ==
  ASSUME NEW S, 0 \in S, \A n \in Nat : n \in S => n + 1 \in S
  PROVE  \A n \in Nat : n \in S
<1> SUFFICES ASSUME Nat \ S # {} PROVE FALSE
  OBVIOUS
<1>1. PICK n \in Nat \ S : \A m \in Nat \ S : n <= m
  BY HasLeast
<1>2. n # 0 /\ n - 1 \in Nat
  BY <1>1
<1>3. n - 1 \in S
  BY <1>1, <1>2
<1>4. QED
  BY <1>1, <1>2, <1>3

(* f is base at 0, and step takes its value at a number to the next one.   *)
Recursive(f, base, step) ==
  f[0] = base /\ \A n \in Nat : f[n + 1] = step[<<n, f[n]>>]

LEMMA RecursionOverNat ==
  ASSUME NEW T, NEW base \in T, NEW step \in [Nat \X T -> T]
  PROVE  \E f \in [Nat -> T] : Recursive(f, base, step)
<1> DEFINE Begins(g, n) ==
             /\ g[0] = base
             /\ \A i \in Nat : i < n => g[i + 1] = step[<<i, g[i]>>]
           Reached == {n \in Nat : \E g \in [Nat -> T] : Begins(g, n)}
           Same(n) == \A g, h \in [Nat -> T] :
                        Begins(g, n) /\ Begins(h, n) => g[n] = h[n]
           Agreed == {n \in Nat : Same(n)}
<1>1. \A n \in Nat : n \in Reached
  <2>1. 0 \in Reached
    <3>1. [i \in Nat |-> base] \in [Nat -> T]
      OBVIOUS
    <3>2. Begins([i \in Nat |-> base], 0)
      OBVIOUS
    <3>3. QED
      BY <3>1, <3>2, Zenon
  <2>2. ASSUME NEW n \in Nat, n \in Reached
        PROVE  n + 1 \in Reached
    <3>1. PICK g \in [Nat -> T] : Begins(g, n)
      BY <2>2
    <3> DEFINE h == [g EXCEPT ![n + 1] = step[<<n, g[n]>>]]
    <3>2. h \in [Nat -> T]
      OBVIOUS
    <3>3. Begins(h, n + 1)
      BY <3>1
    <3>4. n + 1 \in Nat
      OBVIOUS
    <3> HIDE DEF h
    <3>5. QED
      BY <3>2, <3>3, <3>4
  <2> HIDE DEF Reached
  <2>3. QED
    BY <2>1, <2>2, InductionOverNat
<1>2. \A n \in Nat : n \in Agreed
  <2>1. 0 \in Agreed
    OBVIOUS
  <2>2. ASSUME NEW n \in Nat, n \in Agreed
        PROVE  n + 1 \in Agreed
    <3>1. ASSUME NEW g \in [Nat -> T], NEW h \in [Nat -> T],
                 Begins(g, n + 1), Begins(h, n + 1)
          PROVE  g[n + 1] = h[n + 1]
      <4>1. Begins(g, n) /\ Begins(h, n)
        BY <3>1
      <4>2. g[n] = h[n]
        BY <2>2, <4>1
      <4>3. /\ n < n + 1
            /\ g[n + 1] = step[<<n, g[n]>>] /\ h[n + 1] = step[<<n, h[n]>>]
        BY <3>1
      <4>4. QED
        BY <4>2, <4>3
    <3>2. QED
      BY <3>1
  <2> HIDE DEF Agreed
  <2>3. QED
    BY <2>1, <2>2, InductionOverNat
<1> DEFINE pick == [n \in Nat |-> CHOOSE g \in [Nat -> T] : Begins(g, n)]
           f == [n \in Nat |-> pick[n][n]]
<1>3. \A n \in Nat : pick[n] \in [Nat -> T] /\ Begins(pick[n], n)
  BY <1>1
<1> HIDE DEF pick
<1>4. f \in [Nat -> T]
  BY <1>3
<1>5. f[0] = base
  BY <1>3
<1>6. ASSUME NEW n \in Nat
      PROVE  f[n + 1] = step[<<n, f[n]>>]
  <2>1. Begins(pick[n + 1], n + 1) /\ pick[n + 1] \in [Nat -> T]
    BY <1>3
  <2>2. Begins(pick[n + 1], n)
    BY <2>1
  <2>3. pick[n + 1][n] = pick[n][n]
    BY <1>2, <1>3, <2>1, <2>2
  <2>4. QED
    BY <2>1, <2>3
<1>7. \E g \in [Nat -> T] :
        g[0] = base /\ \A n \in Nat : g[n + 1] = step[<<n, g[n]>>]
  BY <1>4, <1>5, <1>6
<1>8. QED
  BY <1>7 DEF Recursive

=============================================================================
