------------------------------ MODULE Recursion ------------------------------
(***************************************************************************)
(* Induction and recursion on the natural numbers, in a form the provers   *)
(* can use: over sets and functions instead of operators.  A loop of the   *)
(* code is a recursive function pass[i \in 0 .. n] in the models, whose     *)
(* value is known only once such a function is known to exist.             *)
(***************************************************************************)
EXTENDS Integers, WellFoundedInduction, TLAPS

\* A non-empty set of naturals has a smallest element.
LEMMA SmallestExists ==
    ASSUME NEW T \in SUBSET Nat, T # {}
    PROVE  \E x \in T : \A y \in T : x <= y
  <1>1. \E x \in T : \A y \in T : ~(<<y, x>> \in OpToRel(<, Nat))
    BY NatLessThanWellFounded, WFMin, Zenon
  <1>2. PICK x \in T : \A y \in T : ~(<<y, x>> \in OpToRel(<, Nat))
    BY <1>1
  <1>3. ASSUME NEW y \in T PROVE x <= y
    <2>1. <<y, x>> \in Nat \X Nat
      OBVIOUS
    <2>2. ~(y < x)
      BY <1>2, <2>1 DEF OpToRel
    <2> QED BY <2>2
  <1> QED BY <1>3

\* Induction: a set that has 0, and n + 1 with n below a bound, has all numbers up to it.
LEMMA InductionTo ==
    ASSUME NEW bound \in Nat, NEW T, 0 \in T, \A n \in 0 .. bound - 1 : n \in T => n + 1 \in T
    PROVE  \A n \in 0 .. bound : n \in T
  <1> SUFFICES ASSUME NEW m \in 0 .. bound, m \notin T PROVE FALSE
    OBVIOUS
  <1> DEFINE U == {n \in 0 .. bound : n \notin T}
  <1>1. U \in SUBSET Nat /\ U # {}
    OBVIOUS
  <1>2. PICK x \in U : \A y \in U : x <= y
    BY <1>1, SmallestExists, Zenon
  <1>3. x \in 0 .. bound /\ x \notin T /\ x # 0
    OBVIOUS
  <1>4. x - 1 \in 0 .. bound - 1 /\ (x - 1) + 1 = x
    BY <1>3
  <1>5. x - 1 \in T
    <2>1. CASE x - 1 \in U
      BY <1>2, <1>4, <2>1
    <2> QED BY <1>4, <2>1
  <1> QED BY <1>3, <1>4, <1>5

\* The states a loop goes through: start, then what its body makes of the last one.
Passes(S, start, step, bound) ==
    {g \in [0 .. bound -> S] :
        g[0] = start /\ \A i \in 1 .. bound : g[i] = step[<<g[i - 1], i>>]}

\* Recursion: for every loop body there is the sequence of the states its passes leave.
LEMMA RecursionExists ==
    ASSUME NEW S, NEW start \in S, NEW step \in [S \X Nat -> S], NEW bound \in Nat
    PROVE  Passes(S, start, step, bound) # {}
  <1> DEFINE T == {n \in Nat : Passes(S, start, step, n) # {}}
  <1>1. 0 \in T
    <2> DEFINE g == [i \in 0 .. 0 |-> start]
    <2>1. g \in [0 .. 0 -> S] /\ g[0] = start /\ \A i \in 1 .. 0 : g[i] = step[<<g[i - 1], i>>]
      OBVIOUS
    <2> QED BY <2>1 DEF Passes
  <1>2. ASSUME NEW n \in 0 .. bound - 1, n \in T PROVE n + 1 \in T
    <2>1. PICK g : g \in Passes(S, start, step, n)
      BY <1>2
    <2>2. g \in [0 .. n -> S] /\ g[0] = start /\ \A i \in 1 .. n : g[i] = step[<<g[i - 1], i>>]
      BY <2>1 DEF Passes
    <2> DEFINE h == [i \in 0 .. n + 1 |-> IF i \in 0 .. n THEN g[i] ELSE step[<<g[n], n + 1>>]]
    <2>3. n \in Nat /\ n + 1 \in Nat /\ g[n] \in S /\ <<g[n], n + 1>> \in S \X Nat
      BY <2>2
    <2>4. step[<<g[n], n + 1>>] \in S
      BY <2>3
    <2>5. h \in [0 .. n + 1 -> S]
      BY <2>2, <2>4
    <2>6. h[0] = start
      BY <2>2, <2>3
    <2>7. ASSUME NEW i \in 1 .. n + 1 PROVE h[i] = step[<<h[i - 1], i>>]
      <3>1. CASE i \in 1 .. n
        <4>1. i \in 0 .. n /\ i - 1 \in 0 .. n /\ i \in 0 .. n + 1 /\ i - 1 \in 0 .. n + 1
          BY <2>3, <3>1
        <4>2. h[i] = g[i] /\ h[i - 1] = g[i - 1]
          BY <4>1
        <4> QED BY <2>2, <3>1, <4>2
      <3>2. CASE i = n + 1
        <4>1. i - 1 = n /\ i \notin 0 .. n /\ n \in 0 .. n /\ i \in 0 .. n + 1 /\ n \in 0 .. n + 1
          BY <2>3, <3>2
        <4>2. h[i] = step[<<g[n], n + 1>>] /\ h[n] = g[n]
          BY <4>1
        <4> QED BY <3>2, <4>1, <4>2
      <3> QED BY <2>3, <3>1, <3>2
    <2> HIDE DEF h
    <2>8. h \in Passes(S, start, step, n + 1)
      BY <2>5, <2>6, <2>7 DEF Passes
    <2> QED BY <2>3, <2>8
  <1> HIDE DEF T
  <1>3. bound \in T
    BY <1>1, <1>2, InductionTo
  <1> QED BY <1>3 DEF T
=============================================================================
