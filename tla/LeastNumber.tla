---------------------------- MODULE LeastNumber ----------------------------
(***************************************************************************)
(* Induction as a fact about sets: a set of numbers that is not empty has  *)
(* a least element.  A proof by induction takes the least counterexample.  *)
(***************************************************************************)
EXTENDS Integers, WellFoundedInduction, TLAPS

(* Every loop counter and every walk along a list that the proofs follow   *)
(* is counted by natural numbers; the first one that is wrong exists.      *)
THEOREM Least ==
    ASSUME NEW T \in SUBSET Nat, T # {}
    PROVE  \E m \in T : \A n \in T : m <= n
  <1>1. PICK m \in T : \A n \in T : ~ (<<n, m>> \in OpToRel(<, Nat))
    BY NatLessThanWellFounded, WFMin
  <1>2. \A n \in T : ~ (n < m)
    BY <1>1 DEF OpToRel
  <1> QED
    BY <1>2

(* What is true of 0 and stays true from each number to the next is true   *)
(* of the numbers up to K.                                                 *)
THEOREM UpTo ==
    ASSUME NEW K \in Nat, NEW T, 0 \in T, \A n \in 1 .. K : n - 1 \in T => n \in T
    PROVE  \A n \in 0 .. K : n \in T
<1> DEFINE F == {n \in 0 .. K : n \notin T}
<1>1. ASSUME NEW m \in F, \A n \in F : m <= n PROVE FALSE
  <2>1. m \in 1 .. K /\ m \notin T
    OBVIOUS
  <2>2. m - 1 \in 0 .. K /\ m - 1 \notin F
    BY <1>1, <2>1
  <2> QED BY <2>1, <2>2
<1>2. F \in SUBSET Nat
  OBVIOUS
<1> HIDE DEF F
<1>3. F = {}
  BY <1>1, <1>2, Least
<1> QED BY <1>3 DEF F

(* g holds the first K states of a loop that begins in d and whose n-th    *)
(* iteration takes a state s of it to f[n][s].                             *)
Loop(S, d, f, K, g) ==
    g \in [0 .. K -> S] /\ g[0] = d /\ \A n \in 1 .. K : g[n] = f[n][g[n - 1]]

(* However many iterations are asked for, the loop has states for them.    *)
THEOREM Iterates ==
    ASSUME NEW S, NEW d \in S, NEW f \in [Nat -> [S -> S]], NEW K \in Nat
    PROVE  \E g : Loop(S, d, f, K, g)
<1> DEFINE Missing == {m \in Nat : ~ \E g : Loop(S, d, f, m, g)}
<1>1. ASSUME Missing # {} PROVE FALSE
  <2>1. Missing \in SUBSET Nat
    OBVIOUS
  <2> HIDE DEF Missing
  <2>2. PICK m \in Missing : \A n \in Missing : m <= n
    BY <1>1, <2>1, Least
  <2>3. m \in Nat /\ ~ \E g : Loop(S, d, f, m, g)
    BY DEF Missing
  <2>4. CASE m = 0
    <3>1. Loop(S, d, f, 0, [n \in 0 .. 0 |-> d])
      BY DEF Loop
    <3> QED BY <2>3, <2>4, <3>1
  <2>5. CASE m # 0
    <3>1. m - 1 \in Nat /\ m - 1 \notin Missing
      BY <2>2, <2>3, <2>5
    <3>2. PICK g : Loop(S, d, f, m - 1, g)
      BY <3>1 DEF Missing
    <3> DEFINE h == [n \in 0 .. m |-> IF n = m THEN f[m][g[m - 1]] ELSE g[n]]
    <3>3. g[m - 1] \in S /\ f[m][g[m - 1]] \in S
      BY <2>3, <3>1, <3>2 DEF Loop
    <3>4. h \in [0 .. m -> S] /\ h[0] = d
      BY <2>3, <2>5, <3>2, <3>3 DEF Loop
    <3>5. ASSUME NEW n \in 1 .. m PROVE h[n] = f[n][h[n - 1]]
      <4>1. CASE n = m
        BY <2>3, <2>5, <4>1
      <4>2. CASE n # m
        <5>1. n \in 1 .. m - 1 /\ h[n] = g[n] /\ h[n - 1] = g[n - 1]
          BY <2>3, <4>2
        <5> QED BY <3>2, <5>1 DEF Loop
      <4> QED BY <4>1, <4>2
    <3> HIDE DEF h
    <3>6. Loop(S, d, f, m, h)
      BY <3>4, <3>5 DEF Loop
    <3> QED BY <2>3, <3>6
  <2> QED BY <2>4, <2>5
<1> QED BY <1>1

(* Two loops that begin alike and step alike have the same states.         *)
InStep(K, g, h) == g[0] = h[0] /\ \A n \in 1 .. K : g[n - 1] = h[n - 1] => g[n] = h[n]

LEMMA SameLoop ==
    ASSUME NEW K \in Nat, NEW g, NEW h, InStep(K, g, h)
    PROVE  \A n \in 0 .. K : g[n] = h[n]
<1> DEFINE T == {n \in 0 .. K : g[n] = h[n]}
<1>1. 0 \in T /\ \A n \in 1 .. K : n - 1 \in T => n \in T
  BY DEF InStep
<1> HIDE DEF T
<1>2. \A n \in 0 .. K : n \in T
  BY <1>1, UpTo
<1> QED BY <1>2 DEF T

(* So the states do not depend on how many were asked for.                 *)
LEMMA SameStates ==
    ASSUME NEW S, NEW d \in S, NEW f \in [Nat -> [S -> S]],
           NEW K \in Nat, NEW L \in Nat, K <= L,
           NEW g, Loop(S, d, f, K, g), NEW h, Loop(S, d, f, L, h)
    PROVE  \A n \in 0 .. K : g[n] = h[n]
<1>1. InStep(K, g, h)
  BY DEF Loop, InStep
<1> QED BY <1>1, SameLoop

(* One function holds all of them.                                         *)
Forever(S, d, f, g) ==
    g \in [Nat -> S] /\ g[0] = d /\ \A n \in Nat \ {0} : g[n] = f[n][g[n - 1]]

(* A recursion over all numbers, as the powers of two, has a solution.     *)
THEOREM IteratesForever ==
    ASSUME NEW S, NEW d \in S, NEW f \in [Nat -> [S -> S]]
    PROVE  \E g : Forever(S, d, f, g)
<1> DEFINE G(K) == CHOOSE g : Loop(S, d, f, K, g)
           h == [n \in Nat |-> G(n)[n]]
<1>1. \A K \in Nat : Loop(S, d, f, K, G(K))
  BY Iterates
<1> HIDE DEF G
<1>2. h \in [Nat -> S] /\ h[0] = d
  <2>1. \A n \in Nat : G(n)[n] \in S
    BY <1>1 DEF Loop
  <2> QED BY <1>1, <2>1 DEF Loop
<1>3. ASSUME NEW n \in Nat \ {0} PROVE h[n] = f[n][h[n - 1]]
  <2>1. n - 1 \in Nat /\ n - 1 \in 0 .. n - 1 /\ n \in 1 .. n
    OBVIOUS
  <2>2. G(n - 1)[n - 1] = G(n)[n - 1]
    BY <1>1, <2>1, SameStates
  <2>3. G(n)[n] = f[n][G(n)[n - 1]]
    BY <1>1, <2>1 DEF Loop
  <2> QED BY <2>1, <2>2, <2>3
<1> HIDE DEF h
<1> QED BY <1>2, <1>3 DEF Forever
=============================================================================
