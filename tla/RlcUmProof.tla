----------------------------- MODULE RlcUmProof ------------------------------
(***************************************************************************)
(* Proofs about the unacknowledged-mode bearer, for every modulus, every   *)
(* grant and every size of the SDUs: the two passes of the segmentation    *)
(* agree, the receiving window, and the types.                             *)
(***************************************************************************)
EXTENDS RlcUmLink, Recursion, SequenceTheorems

-----------------------------------------------------------------------------
(* Sums. *)

\* SumTo adds up.
LEMMA SumToIs ==
    ASSUME NEW n \in Nat, NEW f \in [1 .. n -> Int]
    PROVE  /\ \A k \in 0 .. n : SumTo(f, k) \in Int
           /\ SumTo(f, 0) = 0
           /\ \A k \in 1 .. n : SumTo(f, k) = SumTo(f, k - 1) + f[k]
  <1> DEFINE add == [p \in Int \X Nat |-> p[1] + IF p[2] \in 1 .. n THEN f[p[2]] ELSE 0]
             IsSum(h, m) == h = [k \in 0 .. m |-> IF k = 0 THEN 0 ELSE h[k - 1] + f[k]]
  <1>1. add \in [Int \X Nat -> Int]
    <2>1. ASSUME NEW p \in Int \X Nat
          PROVE  p[1] + (IF p[2] \in 1 .. n THEN f[p[2]] ELSE 0) \in Int
      OBVIOUS
    <2> QED BY <2>1
  <1>2. ASSUME NEW x \in Int, NEW k \in 1 .. n PROVE add[<<x, k>>] = x + f[k]
    OBVIOUS
  <1> HIDE DEF add
  <1>3. PICK g \in [0 .. n -> Int] : g[0] = 0 /\ \A k \in 1 .. n : g[k] = add[<<g[k - 1], k>>]
    <2>1. Passes(Int, 0, add, n) # {}
      <3>1. 0 \in Int /\ n \in Nat
        OBVIOUS
      <3> QED BY <1>1, <3>1, RecursionExists
    <2> QED BY <2>1 DEF Passes
  <1>4. ASSUME NEW k \in 1 .. n PROVE g[k] = g[k - 1] + f[k]
    <2>1. k - 1 \in 0 .. n
      OBVIOUS
    <2>2. g[k - 1] \in Int
      BY <2>1
    <2> QED BY <1>2, <1>3, <2>2
  <1>5. ASSUME NEW m \in 0 .. n PROVE SumTo(f, m) = g[m]
    <2> DEFINE h == [k \in 0 .. m |-> g[k]]
    <2>1. IsSum(h, m)
      <3>1. ASSUME NEW k \in 0 .. m PROVE h[k] = IF k = 0 THEN 0 ELSE h[k - 1] + f[k]
        <4>1. CASE k = 0
          BY <1>3, <4>1
        <4>2. CASE k # 0
          <5>1. k \in 1 .. n /\ k - 1 \in 0 .. m
            BY <4>2
          <5> QED BY <1>4, <4>2, <5>1
        <4> QED BY <4>1, <4>2
      <3> QED BY <3>1
    <2> DEFINE s == CHOOSE x : IsSum(x, m)
    <2>2. IsSum(s, m)
      BY <2>1, Zenon
    <2>3. SumTo(f, m) = s[m]
      BY DEF SumTo
    <2> HIDE DEF s, h
    <2> DEFINE T == {k \in 0 .. m : s[k] = g[k]}
    <2>4. 0 \in T
      BY <1>3, <2>2
    <2>5. ASSUME NEW k \in 0 .. m - 1, k \in T PROVE k + 1 \in T
      <3>1. k + 1 \in 0 .. m /\ k + 1 # 0 /\ (k + 1) - 1 = k /\ k + 1 \in 1 .. n
        OBVIOUS
      <3>2. s[k + 1] = s[k] + f[k + 1]
        BY <2>2, <3>1
      <3>3. g[k + 1] = g[k] + f[k + 1]
        BY <1>4, <3>1
      <3> QED BY <2>5, <3>1, <3>2, <3>3
    <2> HIDE DEF T
    <2>6. m \in Nat /\ m \in 0 .. m
      OBVIOUS
    <2>7. m \in T
      BY <2>4, <2>5, <2>6, InductionTo
    <2> QED BY <2>3, <2>7 DEF T
  <1>6. \A k \in 1 .. n : k - 1 \in 0 .. n /\ k \in 0 .. n
    OBVIOUS
  <1> QED BY <1>3, <1>4, <1>5, <1>6

\* A sum is that of the first d numbers and that of the others.
LEMMA SumsAgree ==
    ASSUME NEW n \in Nat, NEW f \in [1 .. n -> Int], NEW m \in Nat, NEW g \in [1 .. m -> Int],
           NEW d \in 0 .. n, m + d = n, \A k \in 1 .. m : g[k] = f[d + k]
    PROVE  SumTo(f, n) = SumTo(f, d) + SumTo(g, m)
  <1> DEFINE T == {k \in 0 .. m : SumTo(f, d + k) = SumTo(f, d) + SumTo(g, k)}
  <1>1. 0 \in T
    <2>1. d + 0 = d /\ d \in 0 .. n /\ 0 \in 0 .. m
      OBVIOUS
    <2>2. SumTo(g, 0) = 0 /\ SumTo(f, d) \in Int
      BY <2>1, SumToIs
    <2> QED BY <2>1, <2>2
  <1>2. ASSUME NEW k \in 0 .. m - 1, k \in T PROVE k + 1 \in T
    <2>1. /\ k + 1 \in 1 .. m /\ d + (k + 1) \in 1 .. n /\ (k + 1) - 1 = k /\ k \in 0 .. m
          /\ (d + (k + 1)) - 1 = d + k /\ d + k \in 0 .. n /\ d \in 0 .. n
      OBVIOUS
    <2>2. SumTo(g, k + 1) = SumTo(g, k) + g[k + 1] /\ SumTo(g, k) \in Int
      BY <2>1, SumToIs
    <2>3. SumTo(f, d + (k + 1)) = SumTo(f, d + k) + f[d + (k + 1)] /\ SumTo(f, d) \in Int
      BY <2>1, SumToIs
    <2>4. g[k + 1] = f[d + (k + 1)] /\ g[k + 1] \in Int
      BY <2>1
    <2> QED BY <1>2, <2>1, <2>2, <2>3, <2>4
  <1> HIDE DEF T
  <1>3. m \in Nat /\ m \in 0 .. m
    OBVIOUS
  <1>4. m \in T
    BY <1>1, <1>2, <1>3, InductionTo
  <1>5. d + m = n
    OBVIOUS
  <1> QED BY <1>4, <1>5 DEF T

\* Sums of numbers that are not negative grow.
LEMMA SumsGrow ==
    ASSUME NEW n \in Nat, NEW f \in [1 .. n -> Int], \A k \in 1 .. n : f[k] >= 0
    PROVE  \A j \in 0 .. n : \A k \in j .. n : SumTo(f, j) <= SumTo(f, k)
  <1> SUFFICES ASSUME NEW j \in 0 .. n PROVE \A k \in j .. n : SumTo(f, j) <= SumTo(f, k)
    OBVIOUS
  <1> DEFINE T == {k \in 0 .. n - j : SumTo(f, j) <= SumTo(f, j + k)}
  <1>1. 0 \in T
    <2>1. j + 0 = j /\ j \in 0 .. n /\ 0 \in 0 .. n - j
      OBVIOUS
    <2>2. SumTo(f, j) \in Int
      BY <2>1, SumToIs
    <2> QED BY <2>1, <2>2
  <1>2. ASSUME NEW k \in 0 .. (n - j) - 1, k \in T PROVE k + 1 \in T
    <2>1. /\ j + (k + 1) \in 1 .. n /\ (j + (k + 1)) - 1 = j + k /\ j + k \in 0 .. n
          /\ k + 1 \in 0 .. n - j
      OBVIOUS
    <2>2. SumTo(f, j + (k + 1)) = SumTo(f, j + k) + f[j + (k + 1)]
      BY <2>1, SumToIs
    <2>3. SumTo(f, j) \in Int /\ SumTo(f, j + k) \in Int
      BY <2>1, SumToIs
    <2>4. f[j + (k + 1)] \in Int /\ f[j + (k + 1)] >= 0
      BY <2>1
    <2> QED BY <1>2, <2>1, <2>2, <2>3, <2>4
  <1> HIDE DEF T
  <1>3. n - j \in Nat /\ n - j \in 0 .. n - j
    OBVIOUS
  <1>4. \A k \in 0 .. n - j : k \in T
    BY <1>1, <1>2, <1>3, InductionTo
  <1>5. \A k \in j .. n : k - j \in 0 .. n - j /\ j + (k - j) = k
    OBVIOUS
  <1>6. \A k \in j .. n : k - j \in T
    BY <1>4, <1>5
  <1> QED BY <1>5, <1>6 DEF T

\* Sums up to k depend on the first k numbers only.
LEMMA SumsSame ==
    ASSUME NEW n \in Nat, NEW f \in [1 .. n -> Int], NEW m \in Nat, NEW g \in [1 .. m -> Int],
           NEW k \in 0 .. n, k <= m, \A j \in 1 .. k : f[j] = g[j]
    PROVE  SumTo(f, k) = SumTo(g, k)
  <1> DEFINE T == {j \in 0 .. k : SumTo(f, j) = SumTo(g, j)}
  <1>1. 0 \in T
    BY SumToIs
  <1>2. ASSUME NEW j \in 0 .. k - 1, j \in T PROVE j + 1 \in T
    <2>1. j + 1 \in 1 .. n /\ j + 1 \in 1 .. m /\ j + 1 \in 1 .. k /\ (j + 1) - 1 = j /\ j + 1 \in 0 .. k
      OBVIOUS
    <2>2. SumTo(f, j + 1) = SumTo(f, j) + f[j + 1]
      BY <2>1, SumToIs
    <2>3. SumTo(g, j + 1) = SumTo(g, j) + g[j + 1]
      BY <2>1, SumToIs
    <2> QED BY <1>2, <2>1, <2>2, <2>3
  <1> HIDE DEF T
  <1>3. k \in Nat /\ k \in 0 .. k
    OBVIOUS
  <1>4. k \in T
    BY <1>1, <1>2, <1>3, InductionTo
  <1> QED BY <1>4 DEF T

-----------------------------------------------------------------------------
(* PDUs. *)

Byte == Nat \X Nat
GoodPdus == {p \in Pdus : p.pieces # <<>>}

-----------------------------------------------------------------------------
(* Sequence numbers. *)

\* The modulus is twice the window.
LEMMA Modulus ==
    /\ SnModulo \in Nat \ {0} /\ Window \in Nat \ {0} /\ SnModulo = Window + Window
    /\ Sns = 0 .. SnModulo - 1
  <1>1. SnModulo \in Nat \ {0} /\ SnModulo % 2 = 0
    BY UmTxAssumption
  <1>2. PICK w : w = SnModulo \div 2
    OBVIOUS
  <1>3. w \in Nat \ {0} /\ SnModulo = w + w
    BY <1>1, <1>2
  <1> QED BY <1>1, <1>2, <1>3 DEF Window, Sns

\* Remainders of small numbers.
LEMMA SmallMod ==
    /\ \A x \in 0 .. SnModulo - 1 : x % SnModulo = x
    /\ \A x \in SnModulo .. 2 * SnModulo - 1 : x % SnModulo = x - SnModulo
    /\ \A x \in -SnModulo .. -1 : x % SnModulo = x + SnModulo
    /\ \A x \in Int : x % SnModulo \in Sns
  <1>1. SnModulo \in Nat \ {0} /\ Sns = 0 .. SnModulo - 1
    BY Modulus
  <1>2. ASSUME NEW x \in 0 .. SnModulo - 1 PROVE x % SnModulo = x
    BY <1>1
  <1>3. ASSUME NEW x \in SnModulo .. 2 * SnModulo - 1 PROVE x % SnModulo = x - SnModulo
    BY <1>1
  <1>4. ASSUME NEW x \in -SnModulo .. -1 PROVE x % SnModulo = x + SnModulo
    BY <1>1
  <1>5. ASSUME NEW x \in Int PROVE x % SnModulo \in Sns
    BY <1>1
  <1> QED BY <1>2, <1>3, <1>4, <1>5

\* How far a number is ahead of another one.
LEMMA AheadIs ==
    ASSUME NEW a \in Sns, NEW b \in Sns
    PROVE  /\ Ahead(a, b) = IF a >= b THEN a - b ELSE a - b + SnModulo
           /\ Ahead(a, b) \in Sns
  <1>1. a \in 0 .. SnModulo - 1 /\ b \in 0 .. SnModulo - 1 /\ SnModulo \in Nat \ {0}
        /\ Sns = 0 .. SnModulo - 1
    BY Modulus
  <1>2. CASE a >= b
    <2>1. a - b \in 0 .. SnModulo - 1
      BY <1>1, <1>2
    <2> QED BY <1>1, <1>2, <2>1, SmallMod DEF Ahead
  <1>3. CASE a < b
    <2>1. a - b \in -SnModulo .. -1
      BY <1>1, <1>3
    <2>2. (a - b) % SnModulo = (a - b) + SnModulo
      BY <2>1, SmallMod
    <2>3. a - b + SnModulo \in 0 .. SnModulo - 1 /\ ~(a >= b)
      BY <1>1, <1>3
    <2> QED BY <1>1, <2>2, <2>3 DEF Ahead
  <1> QED BY <1>1, <1>2, <1>3

\* The number k after b.
LEMMA StepIs ==
    ASSUME NEW b \in Sns, NEW k \in 0 .. SnModulo
    PROVE  /\ (b + k) % SnModulo = IF b + k < SnModulo THEN b + k ELSE b + k - SnModulo
           /\ (b + k) % SnModulo \in Sns
           /\ Ahead((b + k) % SnModulo, b) = IF k = SnModulo THEN 0 ELSE k
  <1>1. b \in 0 .. SnModulo - 1 /\ SnModulo \in Nat \ {0} /\ Sns = 0 .. SnModulo - 1
    BY Modulus
  <1>2. PICK s : s = (b + k) % SnModulo
    OBVIOUS
  <1>3. s = IF b + k < SnModulo THEN b + k ELSE b + k - SnModulo
    <2>1. CASE b + k < SnModulo
      <3>1. b + k \in 0 .. SnModulo - 1
        BY <1>1, <2>1
      <3> QED BY <1>2, <2>1, <3>1, SmallMod
    <2>2. CASE b + k >= SnModulo
      <3>1. b + k \in SnModulo .. 2 * SnModulo - 1 /\ ~(b + k < SnModulo)
        BY <1>1, <2>2
      <3>2. (b + k) % SnModulo = (b + k) - SnModulo
        BY <1>1, <2>2, <3>1
      <3> QED BY <1>1, <1>2, <3>1, <3>2
    <2> QED BY <1>1, <2>1, <2>2
  <1>4. s \in Sns
    BY <1>1, <1>3
  <1>5. Ahead(s, b) = IF s >= b THEN s - b ELSE s - b + SnModulo
    BY <1>4, AheadIs
  <1>6. Ahead(s, b) = IF k = SnModulo THEN 0 ELSE k
    BY <1>1, <1>3, <1>5
  <1> QED BY <1>2, <1>3, <1>4, <1>6

\* Every number is ahead of b by its distance.
LEMMA ReachIs ==
    ASSUME NEW a \in Sns, NEW b \in Sns
    PROVE  /\ (b + Ahead(a, b)) % SnModulo = a
           /\ a = b <=> Ahead(a, b) = 0
           /\ \A k \in 0 .. SnModulo : (b + k) % SnModulo = a <=>
                  k = Ahead(a, b) \/ (k = SnModulo /\ Ahead(a, b) = 0)
  <1>1. a \in 0 .. SnModulo - 1 /\ b \in 0 .. SnModulo - 1 /\ SnModulo \in Nat \ {0}
        /\ Sns = 0 .. SnModulo - 1
    BY Modulus
  <1>2. PICK d : d = Ahead(a, b)
    OBVIOUS
  <1>3. d = (IF a >= b THEN a - b ELSE a - b + SnModulo) /\ d \in 0 .. SnModulo - 1
    BY <1>1, <1>2, AheadIs
  <1>4. ASSUME NEW k \in 0 .. SnModulo
        PROVE  (b + k) % SnModulo = a <=> k = d \/ (k = SnModulo /\ d = 0)
    <2>1. (b + k) % SnModulo = IF b + k < SnModulo THEN b + k ELSE b + k - SnModulo
      BY StepIs
    <2> QED BY <1>1, <1>3, <2>1
  <1>5. (b + d) % SnModulo = a
    <2>1. d \in 0 .. SnModulo
      BY <1>1, <1>3
    <2> QED BY <1>4, <2>1
  <1>6. a = b <=> d = 0
    BY <1>1, <1>3
  <1> QED BY <1>2, <1>4, <1>5, <1>6

\* Distances add up, modulo the numbers.
LEMMA AheadOf ==
    ASSUME NEW a \in Sns, NEW b \in Sns, NEW c \in Sns
    PROVE  Ahead(a, c) = IF Ahead(a, b) + Ahead(b, c) < SnModulo THEN Ahead(a, b) + Ahead(b, c)
                         ELSE Ahead(a, b) + Ahead(b, c) - SnModulo
  <1>1. a \in 0 .. SnModulo - 1 /\ b \in 0 .. SnModulo - 1 /\ c \in 0 .. SnModulo - 1
        /\ SnModulo \in Nat \ {0}
    BY Modulus
  <1> QED BY <1>1, AheadIs

\* The distance the other way round.
LEMMA AheadBack ==
    ASSUME NEW a \in Sns, NEW b \in Sns
    PROVE  Ahead(b, a) = IF Ahead(a, b) = 0 THEN 0 ELSE SnModulo - Ahead(a, b)
  <1>1. a \in 0 .. SnModulo - 1 /\ b \in 0 .. SnModulo - 1 /\ SnModulo \in Nat \ {0}
    BY Modulus
  <1>2. Ahead(a, b) = IF a >= b THEN a - b ELSE a - b + SnModulo
    BY AheadIs
  <1>3. Ahead(b, a) = IF b >= a THEN b - a ELSE b - a + SnModulo
    BY AheadIs
  <1> QED BY <1>1, <1>2, <1>3

\* The number after sn.
LEMMA SuccIs ==
    ASSUME NEW sn \in Sns
    PROVE  /\ Succ(sn) \in Sns
           /\ Succ(sn) = IF sn + 1 < SnModulo THEN sn + 1 ELSE 0
           /\ Ahead(Succ(sn), sn) = 1
  <1>1. SnModulo \in Nat /\ SnModulo >= 2 /\ sn \in 0 .. SnModulo - 1
    BY Modulus
  <1>2. 1 \in 0 .. SnModulo /\ 1 # SnModulo
    BY <1>1
  <1>3. /\ (sn + 1) % SnModulo = IF sn + 1 < SnModulo THEN sn + 1 ELSE sn + 1 - SnModulo
        /\ (sn + 1) % SnModulo \in Sns
        /\ Ahead((sn + 1) % SnModulo, sn) = IF 1 = SnModulo THEN 0 ELSE 1
    BY <1>2, StepIs
  <1> QED BY <1>1, <1>2, <1>3 DEF Succ

-----------------------------------------------------------------------------
(* The window tests, on an entity that has a window. *)

\* The signed remainder: negative for some of the numbers ahead of VR(UH), never for the others.
LEMMA CModIs ==
    ASSUME NEW x \in Sns, NEW uh \in Sns
    PROVE  /\ CMod(x - (uh - Window)) \in Int
           /\ Ahead(x, uh) >= Window => CMod(x - (uh - Window)) = Ahead(x, uh) - Window
           /\ Ahead(x, uh) < Window => \/ CMod(x - (uh - Window)) < 0
                                       \/ CMod(x - (uh - Window)) = Ahead(x, uh) + Window
           /\ x = uh => CMod(x - (uh - Window)) = Window
  <1>1. /\ x \in 0 .. SnModulo - 1 /\ uh \in 0 .. SnModulo - 1 /\ SnModulo \in Nat \ {0}
        /\ Window \in Nat \ {0} /\ SnModulo = Window + Window
    BY Modulus
  <1>2. PICK d, a, c : d = Ahead(x, uh) /\ a = x - (uh - Window) /\ c = CMod(a)
    OBVIOUS
  <1>3. d = (IF x >= uh THEN x - uh ELSE x - uh + SnModulo) /\ d \in 0 .. SnModulo - 1
    BY <1>1, <1>2, AheadIs, Modulus
  <1>4. CASE a < 0
    <2>1. -a \in 0 .. SnModulo - 1 /\ ~(a >= 0)
      BY <1>1, <1>2, <1>4
    <2>2. (-a) % SnModulo = -a
      BY <2>1, SmallMod
    <2>3. c = -((-a) % SnModulo)
      BY <1>2, <2>1 DEF CMod
    <2>4. c = a
      BY <2>1, <2>2, <2>3, <1>1, <1>2
    <2>5. d < Window /\ x # uh
      BY <1>1, <1>2, <1>3, <1>4
    <2> QED BY <1>1, <1>2, <1>3, <1>4, <2>4, <2>5
  <1>5. CASE a >= 0 /\ a < SnModulo
    <2>1. a \in 0 .. SnModulo - 1
      BY <1>1, <1>2, <1>5
    <2>2. c = a
      BY <1>2, <1>5, <2>1, SmallMod DEF CMod
    <2> QED BY <1>1, <1>2, <1>3, <1>5, <2>2
  <1>6. CASE a >= SnModulo
    <2>1. a \in SnModulo .. 2 * SnModulo - 1 /\ a >= 0
      BY <1>1, <1>2, <1>6
    <2>2. c = a - SnModulo
      BY <1>2, <2>1, SmallMod DEF CMod
    <2> QED BY <1>1, <1>2, <1>3, <1>6, <2>2
  <1>7. a \in Int
    BY <1>1, <1>2
  <1> QED BY <1>1, <1>4, <1>5, <1>6, <1>7

\* rlc_um_in_reordering_window: the numbers of the window before VR(UH), and no other.
LEMMA ReorderingWindowIs ==
    ASSUME NEW r, r.win = Window, r.uh \in Sns, NEW sn \in Sns
    PROVE  InReorderingWindow(r, sn) <=> Ahead(sn, r.uh) >= Window
  <1>1. Window \in Nat \ {0} /\ SnModulo = Window + Window /\ Ahead(sn, r.uh) \in 0 .. SnModulo - 1
    BY Modulus, AheadIs
  <1>2. PICK c : c = CMod(sn - (r.uh - Window))
    OBVIOUS
  <1>3. /\ c \in Int
        /\ Ahead(sn, r.uh) >= Window => c = Ahead(sn, r.uh) - Window
        /\ Ahead(sn, r.uh) < Window => c < 0 \/ c = Ahead(sn, r.uh) + Window
    BY <1>2, CModIs
  <1>4. InReorderingWindow(r, sn) <=> c \in 0 .. Window - 1
    BY <1>2 DEF InReorderingWindow
  <1> QED BY <1>1, <1>3, <1>4

\* A PDU that is not discarded is ahead of the window, or between VR(UR) and VR(UH).
LEMMA KeptIs ==
    ASSUME NEW r, r.win = Window, r.uh \in Sns, r.ur \in Sns, Ahead(r.uh, r.ur) <= Window,
           NEW sn \in Sns, ~Discarded(r, sn)
    PROVE  Ahead(sn, r.uh) < Window \/ Ahead(sn, r.ur) < Ahead(r.uh, r.ur)
  <1>1. PICK uh, ur : uh = r.uh /\ ur = r.ur
    OBVIOUS
  <1>2. /\ Window \in Nat \ {0} /\ SnModulo = Window + Window /\ uh \in Sns /\ ur \in Sns
        /\ Ahead(sn, uh) \in 0 .. SnModulo - 1 /\ Ahead(ur, uh) \in 0 .. SnModulo - 1
        /\ Ahead(uh, ur) \in 0 .. SnModulo - 1 /\ Ahead(sn, ur) \in 0 .. SnModulo - 1
    BY <1>1, Modulus, AheadIs
  <1>3. PICK l, h, s : /\ l = CMod((uh - Window) - (uh - Window))
                       /\ h = CMod(ur - (uh - Window)) /\ s = CMod(sn - (uh - Window))
    OBVIOUS
  <1>4. l = 0
    <2>1. (uh - Window) - (uh - Window) = 0 /\ 0 \in 0 .. SnModulo - 1 /\ 0 >= 0
      BY <1>2, Modulus
    <2> QED BY <1>3, <2>1, SmallMod DEF CMod
  <1>5. /\ h \in Int /\ (Ahead(ur, uh) >= Window => h = Ahead(ur, uh) - Window)
        /\ ur = uh => h = Window
    BY <1>2, <1>3, CModIs
  <1>6. s \in Int /\ (Ahead(sn, uh) >= Window => s = Ahead(sn, uh) - Window)
    BY <1>2, <1>3, CModIs
  <1>7. ~(l <= s /\ s < h)
    <2> SUFFICES ASSUME l <= s, s < h PROVE FALSE
      OBVIOUS
    <2>1. InWindow(r, uh - Window, sn, ur) \in {0, 1}
      <3>1. InWindow(r, uh - Window, sn, ur)
              = CASE l > s -> -2
                  [] l <= s /\ h < s -> -1
                  [] l < s /\ s < h -> 0
                  [] l = s /\ s < h -> 1
                  [] l < s /\ s = h -> 2
                  [] l = s /\ s = h -> 3
        BY <1>1, <1>3 DEF InWindow
      <3> QED BY <1>4, <1>5, <1>6, <3>1
    <2> QED BY <1>1, <2>1 DEF Discarded
  <1>8. (Ahead(ur, uh) = 0 /\ ur = uh /\ Ahead(uh, ur) = 0) \/ Ahead(ur, uh) = SnModulo - Ahead(uh, ur)
    <2>1. uh \in 0 .. SnModulo - 1 /\ ur \in 0 .. SnModulo - 1 /\ SnModulo \in Nat
      BY <1>2, Modulus
    <2>2. Ahead(ur, uh) = IF ur >= uh THEN ur - uh ELSE ur - uh + SnModulo
      BY <1>2, AheadIs
    <2>3. Ahead(uh, ur) = IF uh >= ur THEN uh - ur ELSE uh - ur + SnModulo
      BY <1>2, AheadIs
    <2> QED BY <2>1, <2>2, <2>3
  <1>9. CASE Ahead(sn, uh) >= Window
    <2>1. s = Ahead(sn, uh) - Window /\ h <= s
      BY <1>2, <1>4, <1>5, <1>6, <1>7, <1>9
    <2>2. ur # uh
      BY <1>2, <1>5, <2>1
    <2>3. Ahead(ur, uh) = SnModulo - Ahead(uh, ur) /\ Ahead(ur, uh) >= Window
      BY <1>1, <1>2, <1>8, <2>2
    <2>4. h = Window - Ahead(uh, ur) /\ Ahead(sn, uh) >= SnModulo - Ahead(uh, ur)
      BY <1>2, <1>5, <2>1, <2>3
    <2>5. Ahead(sn, ur) = Ahead(sn, uh) + Ahead(uh, ur) - SnModulo
      BY <1>2, <2>4, AheadOf
    <2> QED BY <1>1, <1>2, <2>5
  <1> QED BY <1>1, <1>2, <1>9

-----------------------------------------------------------------------------
(* The list of SDUs. *)

SduRecords == [id : Nat, size : UmSduSizes, remaining : Nat \ {0}]
Left == [i \in 1 .. Len(input_sdus) |-> input_sdus[i].remaining]

\* No SDU of the list is finished, and buffer_occupancy is what is left of all of them.
SdusOK ==
    /\ input_sdus \in Seq(SduRecords)
    /\ \A i \in 1 .. Len(input_sdus) : input_sdus[i].remaining <= input_sdus[i].size
Occupied == buffer_occupancy = SumTo(Left, Len(input_sdus))
SduInv == SdusOK /\ Occupied

\* An SDU of the list.
LEMMA SduIs ==
    ASSUME SdusOK, NEW i \in 1 .. Len(input_sdus)
    PROVE  /\ input_sdus[i] \in SduRecords
           /\ input_sdus[i].id \in Nat /\ input_sdus[i].size \in Nat
           /\ input_sdus[i].remaining \in Nat \ {0}
           /\ input_sdus[i].remaining <= input_sdus[i].size
           /\ Left[i] = input_sdus[i].remaining
  <1>1. input_sdus[i] \in SduRecords
    BY DEF SdusOK
  <1> QED BY <1>1, UmTxAssumption DEF SduRecords, SdusOK, Left

\* What is left of the SDUs, as numbers.
LEMMA LeftIs ==
    ASSUME SdusOK
    PROVE  /\ Len(input_sdus) \in Nat
           /\ Left \in [1 .. Len(input_sdus) -> Int]
           /\ \A i \in 1 .. Len(input_sdus) : Left[i] >= 1 /\ Left[i] >= 0
           /\ \A k \in 0 .. Len(input_sdus) : SumTo(Left, k) \in Int
           /\ SumTo(Left, 0) = 0
           /\ \A k \in 1 .. Len(input_sdus) : SumTo(Left, k) = SumTo(Left, k - 1) + Left[k]
  <1>1. Len(input_sdus) \in Nat
    BY DEF SdusOK
  <1>2. \A i \in 1 .. Len(input_sdus) : input_sdus[i].remaining \in Int /\ input_sdus[i].remaining >= 1
    BY SduIs
  <1>3. Left \in [1 .. Len(input_sdus) -> Int]
    BY <1>2 DEF Left
  <1>4. \A i \in 1 .. Len(input_sdus) : Left[i] >= 1 /\ Left[i] >= 0
    BY <1>2 DEF Left
  <1> QED BY <1>1, <1>3, <1>4, SumToIs

\* The bytes of length indicators: 2 and 1 in turn.
LiAfter(k) == IF k % 2 = 0 THEN 1 ELSE 2

\* What LiBytes adds for one more indicator.
LEMMA LiBytesIs ==
    /\ LiBytes(0) = 0
    /\ \A k \in Nat : /\ LiBytes(k) \in Nat /\ LiAfter(k) \in {1, 2}
                      /\ NextLi(LiAfter(k)) = LiAfter(k + 1) /\ NextLi(LiAfter(k)) \in {1, 2}
                      /\ LiBytes(k + 1) = LiBytes(k) + NextLi(LiAfter(k))
  <1>1. LiBytes(0) = 0
    BY DEF LiBytes
  <1>2. ASSUME NEW k \in Nat
        PROVE  /\ LiBytes(k) \in Nat /\ LiAfter(k) \in {1, 2}
               /\ NextLi(LiAfter(k)) = LiAfter(k + 1) /\ NextLi(LiAfter(k)) \in {1, 2}
               /\ LiBytes(k + 1) = LiBytes(k) + NextLi(LiAfter(k))
    BY DEF LiBytes, LiAfter, NextLi
  <1> QED BY <1>1, <1>2

\* Further indicators take no fewer bytes.
LEMMA LiBytesGrow == \A j, k \in Nat : j <= k => LiBytes(j) <= LiBytes(k)
  BY DEF LiBytes

\* The room after k whole SDUs, each with its length indicator.
RoomAfter(room, k) == room - SumTo(Left, k) - LiBytes(k)

\* That room shrinks by an SDU and its indicator at a time.
LEMMA RoomIs ==
    ASSUME SdusOK, NEW room \in Int
    PROVE  /\ RoomAfter(room, 0) = room
           /\ \A k \in 0 .. Len(input_sdus) : RoomAfter(room, k) \in Int
           /\ \A k \in 1 .. Len(input_sdus) :
                 RoomAfter(room, k) = RoomAfter(room, k - 1) - Left[k] - NextLi(LiAfter(k - 1))
           /\ \A j \in 0 .. Len(input_sdus) : \A k \in j .. Len(input_sdus) :
                 RoomAfter(room, k) <= RoomAfter(room, j)
  <1>1. RoomAfter(room, 0) = room
    BY LeftIs, LiBytesIs DEF RoomAfter
  <1>2. ASSUME NEW k \in 0 .. Len(input_sdus) PROVE RoomAfter(room, k) \in Int
    <2>1. LiBytes(k) \in Nat /\ SumTo(Left, k) \in Int
      BY LeftIs, LiBytesIs
    <2> QED BY <2>1 DEF RoomAfter
  <1>3. ASSUME NEW k \in 1 .. Len(input_sdus)
        PROVE  RoomAfter(room, k) = RoomAfter(room, k - 1) - Left[k] - NextLi(LiAfter(k - 1))
    <2>1. k - 1 \in Nat /\ (k - 1) + 1 = k /\ k - 1 \in 0 .. Len(input_sdus) /\ Left[k] \in Int
      BY LeftIs
    <2>2. LiBytes(k) = LiBytes(k - 1) + NextLi(LiAfter(k - 1)) /\ LiBytes(k - 1) \in Nat
          /\ NextLi(LiAfter(k - 1)) \in {1, 2}
      BY <2>1, LiBytesIs
    <2>3. SumTo(Left, k) = SumTo(Left, k - 1) + Left[k] /\ SumTo(Left, k - 1) \in Int
      BY <2>1, LeftIs
    <2> QED BY <2>1, <2>2, <2>3 DEF RoomAfter
  <1>4. ASSUME NEW j \in 0 .. Len(input_sdus), NEW k \in j .. Len(input_sdus)
        PROVE  RoomAfter(room, k) <= RoomAfter(room, j)
    <2>1. j \in Nat /\ k \in Nat /\ j <= k /\ k \in 0 .. Len(input_sdus)
      BY LeftIs
    <2>2. SumTo(Left, j) <= SumTo(Left, k)
      BY LeftIs, SumsGrow
    <2>3. SumTo(Left, j) \in Int /\ SumTo(Left, k) \in Int /\ LiBytes(j) \in Nat /\ LiBytes(k) \in Nat
      BY <2>1, LeftIs, LiBytesIs
    <2>4. LiBytes(j) <= LiBytes(k)
      BY <2>1, LiBytesGrow
    <2> QED BY <2>2, <2>3, <2>4 DEF RoomAfter
  <1> QED BY <1>1, <1>2, <1>3, <1>4

-----------------------------------------------------------------------------
(* The first pass: where it stops. *)

TestStates == [room : Int, li : {1, 2}, num_li : Nat, cut : Int, shrink : Int, more : BOOLEAN]

\* One turn of the first pass.
LEMMA TestSduIs ==
    ASSUME NEW t \in TestStates, NEW r \in Nat
    PROVE  /\ TestSdu(t, r) \in TestStates
           /\ r + NextLi(t.li) < t.room =>
                /\ TestSdu(t, r).room = t.room - r - NextLi(t.li)
                /\ TestSdu(t, r).li = NextLi(t.li)
                /\ TestSdu(t, r).num_li = t.num_li + 1
                /\ TestSdu(t, r).cut = t.cut /\ TestSdu(t, r).shrink = t.shrink
                /\ TestSdu(t, r).more = t.more
           /\ r + NextLi(t.li) >= t.room =>
                /\ ~TestSdu(t, r).more
                /\ TestSdu(t, r).num_li = t.num_li
                /\ TestSdu(t, r).cut = IF r >= t.room THEN t.cut ELSE t.room - r
                /\ TestSdu(t, r).shrink = IF r >= t.room THEN t.shrink ELSE t.room - r
  <1> DEFINE li == NextLi(t.li)
  <1>1. t.room \in Int /\ t.li \in {1, 2} /\ t.num_li \in Nat /\ t.cut \in Int
    BY DEF TestStates
  <1>2. li \in {1, 2}
    BY <1>1 DEF NextLi
  <1> HIDE DEF li
  <1>3. CASE r >= t.room
    <2>1. PICK x : x = [t EXCEPT !.more = FALSE]
      OBVIOUS
    <2>2. x \in TestStates /\ ~x.more /\ x.num_li = t.num_li /\ x.cut = t.cut /\ x.shrink = t.shrink
      BY <2>1 DEF TestStates
    <2>3. TestSdu(t, r) = x
      BY <1>1, <1>2, <1>3, <2>1 DEF TestSdu, li
    <2> QED BY <1>1, <1>2, <1>3, <2>2, <2>3 DEF li
  <1>4. CASE r < t.room /\ r + li = t.room
    <2>1. PICK x : x = [t EXCEPT !.more = FALSE, !.cut = li, !.shrink = li]
      OBVIOUS
    <2>2. x \in TestStates /\ ~x.more /\ x.num_li = t.num_li /\ x.cut = li /\ x.shrink = li
      <3>1. PICK y : y = [t EXCEPT !.more = FALSE]
        OBVIOUS
      <3>2. y \in TestStates /\ ~y.more /\ y.num_li = t.num_li
        BY <3>1 DEF TestStates
      <3>3. x = [y EXCEPT !.cut = li, !.shrink = li] /\ li \in Int
        BY <1>2, <2>1, <3>1 DEF TestStates
      <3> QED BY <3>2, <3>3 DEF TestStates
    <2>3. TestSdu(t, r) = x
      BY <1>1, <1>2, <1>4, <2>1 DEF TestSdu, li
    <2> QED BY <1>1, <1>2, <1>4, <2>2, <2>3 DEF li
  <1>5. CASE r + li < t.room
    <2>1. PICK x : x = [t EXCEPT !.room = t.room - r - li, !.li = li, !.num_li = t.num_li + 1]
      OBVIOUS
    <2>2. x \in TestStates /\ x.room = t.room - r - li /\ x.li = li /\ x.num_li = t.num_li + 1
          /\ x.cut = t.cut /\ x.shrink = t.shrink /\ x.more = t.more
      <3>1. PICK y : y = [t EXCEPT !.room = t.room - r - li]
        OBVIOUS
      <3>2. y \in TestStates /\ y.room = t.room - r - li /\ y.cut = t.cut /\ y.shrink = t.shrink
            /\ y.more = t.more
        BY <1>1, <1>2, <3>1 DEF TestStates
      <3>3. x = [y EXCEPT !.li = li, !.num_li = t.num_li + 1] /\ t.num_li + 1 \in Nat
        BY <1>1, <2>1, <3>1 DEF TestStates
      <3> QED BY <1>2, <3>2, <3>3 DEF TestStates
    <2>3. TestSdu(t, r) = x
      BY <1>1, <1>2, <1>5, <2>1 DEF TestSdu, li
    <2> QED BY <1>1, <1>2, <1>5, <2>2, <2>3 DEF li
  <1>6. CASE r < t.room /\ r + li > t.room
    <2>1. PICK x : x = [t EXCEPT !.more = FALSE, !.cut = 1, !.shrink = 1]
      OBVIOUS
    <2>2. x \in TestStates /\ ~x.more /\ x.num_li = t.num_li /\ x.cut = 1 /\ x.shrink = 1
      <3>1. PICK y : y = [t EXCEPT !.more = FALSE]
        OBVIOUS
      <3>2. y \in TestStates /\ ~y.more /\ y.num_li = t.num_li
        BY <3>1 DEF TestStates
      <3>3. PICK one \in Int : one = 1
        OBVIOUS
      <3>4. x = [y EXCEPT !.cut = one, !.shrink = one]
        BY <2>1, <3>1, <3>3 DEF TestStates
      <3>5. x \in TestStates /\ ~x.more /\ x.num_li = t.num_li /\ x.cut = one /\ x.shrink = one
        BY <3>2, <3>4 DEF TestStates
      <3> QED BY <3>3, <3>5
    <2>3. TestSdu(t, r) = x
      BY <1>1, <1>2, <1>6, <2>1 DEF TestSdu, li
    <2>4. t.room - r = 1
      BY <1>1, <1>2, <1>6
    <2> QED BY <1>1, <1>2, <1>6, <2>2, <2>3, <2>4 DEF li
  <1> QED BY <1>1, <1>2, <1>3, <1>4, <1>5, <1>6

TestStart(room) == [room |-> room, li |-> 1, num_li |-> 0, cut |-> 0, shrink |-> 0, more |-> TRUE]
TestTurn(t, i) == IF t.more THEN TestSdu(t, input_sdus[i].remaining) ELSE t

\* The first pass is the sequence of its turns.
LEMMA TestSteps ==
    ASSUME SdusOK, NEW room \in Int
    PROVE  \E f \in [0 .. Len(input_sdus) -> TestStates] :
              /\ f[0] = TestStart(room)
              /\ \A i \in 1 .. Len(input_sdus) : f[i] = TestTurn(f[i - 1], i)
              /\ TestPass(room) =
                    IF f[Len(input_sdus)].more
                    THEN [f[Len(input_sdus)] EXCEPT !.num_li = @ - 1, !.cut = f[Len(input_sdus)].li]
                    ELSE f[Len(input_sdus)]
  <1> DEFINE n == Len(input_sdus)
             body == [p \in TestStates \X Nat |-> IF p[2] \in 1 .. n THEN TestTurn(p[1], p[2]) ELSE p[1]]
             IsPass(f) == f = [i \in 0 .. n |->
                                 IF i = 0 THEN [room |-> room, li |-> 1, num_li |-> 0, cut |-> 0,
                                                shrink |-> 0, more |-> TRUE]
                                 ELSE IF f[i - 1].more THEN TestSdu(f[i - 1], input_sdus[i].remaining)
                                 ELSE f[i - 1]]
  <1>1. n \in Nat
    BY LeftIs
  <1>2. ASSUME NEW t \in TestStates, NEW i \in 1 .. n PROVE TestTurn(t, i) \in TestStates
    <2>1. input_sdus[i].remaining \in Nat
      BY SduIs
    <2>2. TestSdu(t, input_sdus[i].remaining) \in TestStates
      BY <2>1, TestSduIs
    <2> QED BY <2>2 DEF TestTurn
  <1>3. TestStart(room) \in TestStates
    BY DEF TestStart, TestStates
  <1> HIDE DEF n
  <1>4. body \in [TestStates \X Nat -> TestStates]
    <2>1. ASSUME NEW p \in TestStates \X Nat
          PROVE  (IF p[2] \in 1 .. n THEN TestTurn(p[1], p[2]) ELSE p[1]) \in TestStates
      <3>1. p[1] \in TestStates /\ p[2] \in Nat
        OBVIOUS
      <3> QED BY <1>2, <3>1
    <2> QED BY <2>1
  <1>5. ASSUME NEW t \in TestStates, NEW i \in 1 .. n PROVE body[<<t, i>>] = TestTurn(t, i)
    <2>1. <<t, i>> \in TestStates \X Nat
      BY <1>1
    <2> QED BY <2>1
  <1> HIDE DEF body
  <1>6. PICK g \in [0 .. n -> TestStates] :
           g[0] = TestStart(room) /\ \A i \in 1 .. n : g[i] = body[<<g[i - 1], i>>]
    <2>1. Passes(TestStates, TestStart(room), body, n) # {}
      BY <1>1, <1>3, <1>4, RecursionExists
    <2> QED BY <2>1 DEF Passes
  <1>7. IsPass(g)
    <2>1. ASSUME NEW i \in 0 .. n, i # 0
          PROVE  g[i] = IF g[i - 1].more THEN TestSdu(g[i - 1], input_sdus[i].remaining) ELSE g[i - 1]
      <3>1. i \in 1 .. n /\ i - 1 \in 0 .. n
        BY <1>1, <2>1
      <3>2. g[i - 1] \in TestStates
        BY <1>6, <3>1
      <3>3. g[i] = TestTurn(g[i - 1], i)
        BY <1>5, <1>6, <3>1, <3>2
      <3> QED BY <3>3 DEF TestTurn
    <2>2. g[0] = [room |-> room, li |-> 1, num_li |-> 0, cut |-> 0, shrink |-> 0, more |-> TRUE]
      BY <1>6 DEF TestStart
    <2> QED BY <1>6, <2>1, <2>2
  <1> DEFINE f == CHOOSE h : IsPass(h)
  <1>8. IsPass(f)
    BY <1>7, Zenon
  <1>9. TestPass(room) = IF f[n].more THEN [f[n] EXCEPT !.num_li = @ - 1, !.cut = f[n].li] ELSE f[n]
    BY DEF TestPass, n
  <1> HIDE DEF f
  <1>10. f[0] = TestStart(room)
    BY <1>1, <1>8 DEF TestStart
  <1>11. \A i \in 1 .. n : f[i] = TestTurn(f[i - 1], i)
    <2>1. \A i \in 1 .. n : i \in 0 .. n /\ i # 0
      BY <1>1
    <2> QED BY <1>8, <2>1 DEF TestTurn
  <1> DEFINE T == {k \in 0 .. n : f[k] \in TestStates}
  <1>12. 0 \in T
    BY <1>1, <1>3, <1>10
  <1>13. ASSUME NEW k \in 0 .. n - 1, k \in T PROVE k + 1 \in T
    <2>1. k + 1 \in 1 .. n /\ (k + 1) - 1 = k /\ k + 1 \in 0 .. n
      BY <1>1
    <2>2. f[k + 1] = TestTurn(f[k], k + 1)
      BY <1>11, <2>1
    <2> QED BY <1>2, <1>13, <2>1, <2>2
  <1> HIDE DEF T
  <1>14. \A k \in 0 .. n : k \in T
    BY <1>1, <1>12, <1>13, InductionTo
  <1>15. \A k \in 0 .. n : f[k] \in TestStates
    BY <1>14 DEF T
  <1>16. f \in [0 .. n -> TestStates]
    BY <1>8, <1>15
  <1>17. n = Len(input_sdus)
    BY DEF n
  <1> HIDE DEF IsPass
  <1> QED BY <1>9, <1>10, <1>11, <1>16, <1>17

\* The first pass stops at SDU i: its last byte, or nothing but an indicator, is beyond the room.
Stops(room, i, t) ==
    /\ RoomAfter(room, i - 1) > 0
    /\ t.num_li = i - 1 /\ t.shrink = t.cut
    /\ t.cut = IF Left[i] >= RoomAfter(room, i - 1) THEN 0 ELSE RoomAfter(room, i - 1) - Left[i]

\* The first pass after k SDUs.
TestAfter(room, k, t) ==
    /\ t.more => /\ t.room = RoomAfter(room, k) /\ t.room > 0
                 /\ t.li = LiAfter(k) /\ t.num_li = k /\ t.cut = 0 /\ t.shrink = 0
    /\ ~t.more => \E i \in 1 .. k : Stops(room, i, t)

\* One turn of it.
LEMMA TestTurnIs ==
    ASSUME SdusOK, NEW room \in Int, NEW k \in 0 .. Len(input_sdus) - 1,
           NEW t \in TestStates, TestAfter(room, k, t)
    PROVE  TestAfter(room, k + 1, TestTurn(t, k + 1))
  <1>1. /\ k + 1 \in 1 .. Len(input_sdus) /\ (k + 1) - 1 = k /\ k \in Nat
        /\ k \in 0 .. Len(input_sdus) /\ Len(input_sdus) \in Nat
    BY LeftIs
  <1>2. PICK r : r = input_sdus[k + 1].remaining
    OBVIOUS
  <1>3. r \in Nat /\ Left[k + 1] = r
    BY <1>1, <1>2, SduIs
  <1>4. CASE ~t.more
    <2>1. TestTurn(t, k + 1) = t
      BY <1>4 DEF TestTurn
    <2>2. PICK i \in 1 .. k : Stops(room, i, t)
      BY <1>4 DEF TestAfter
    <2>3. i \in 1 .. k + 1
      BY <1>1
    <2> QED BY <1>4, <2>1, <2>2, <2>3 DEF TestAfter
  <1>5. CASE t.more
    <2>1. t.room = RoomAfter(room, k) /\ t.room > 0 /\ t.li = LiAfter(k) /\ t.num_li = k /\ t.cut = 0
          /\ t.shrink = 0
      BY <1>5 DEF TestAfter
    <2>2. PICK x : x = TestSdu(t, r)
      OBVIOUS
    <2>3. TestTurn(t, k + 1) = x
      BY <1>2, <1>5, <2>2 DEF TestTurn
    <2>4. /\ RoomAfter(room, k) \in Int
          /\ RoomAfter(room, k + 1) = RoomAfter(room, k) - r - NextLi(t.li)
      <3>1. RoomAfter(room, k) \in Int
        BY <1>1, RoomIs
      <3>2. RoomAfter(room, k + 1)
              = RoomAfter(room, (k + 1) - 1) - Left[k + 1] - NextLi(LiAfter((k + 1) - 1))
        BY <1>1, RoomIs
      <3> QED BY <1>1, <1>3, <2>1, <3>1, <3>2
    <2>5. NextLi(t.li) = LiAfter(k + 1) /\ NextLi(t.li) \in {1, 2}
      BY <1>1, <2>1, LiBytesIs
    <2>6. CASE r + NextLi(t.li) < t.room
      <3>1. x.room = t.room - r - NextLi(t.li) /\ x.li = NextLi(t.li) /\ x.num_li = t.num_li + 1
            /\ x.cut = t.cut /\ x.shrink = t.shrink /\ x.more = t.more
        BY <1>3, <2>2, <2>6, TestSduIs
      <3>2. x.room = RoomAfter(room, k + 1) /\ x.room > 0 /\ x.li = LiAfter(k + 1) /\ x.num_li = k + 1
            /\ x.cut = 0 /\ x.shrink = 0
        BY <1>3, <2>1, <2>4, <2>5, <2>6, <3>1
      <3> QED BY <1>5, <2>3, <3>1, <3>2 DEF TestAfter
    <2>7. CASE r + NextLi(t.li) >= t.room
      <3>1. /\ ~x.more /\ x.num_li = t.num_li
            /\ x.cut = IF r >= t.room THEN t.cut ELSE t.room - r
            /\ x.shrink = IF r >= t.room THEN t.shrink ELSE t.room - r
        BY <1>3, <2>2, <2>7, TestSduIs
      <3>2. Stops(room, k + 1, x)
        BY <1>1, <1>3, <2>1, <3>1 DEF Stops
      <3>3. k + 1 \in 1 .. k + 1
        BY <1>1
      <3> QED BY <2>3, <3>1, <3>2, <3>3 DEF TestAfter
    <2> QED BY <1>3, <2>1, <2>4, <2>5, <2>6, <2>7
  <1>6. t.more \in BOOLEAN
    BY DEF TestStates
  <1> QED BY <1>4, <1>5, <1>6

\* The whole first pass: never through the whole list, because data_pdu_size needs no indicator
\* after the last SDU.
LEMMA TestPassStops ==
    ASSUME SdusOK, input_sdus # <<>>, NEW room \in Int, room > 0,
           room <= SumTo(Left, Len(input_sdus)) + LiBytes(Len(input_sdus) - 1)
    PROVE  /\ TestPass(room) \in TestStates
           /\ \E i \in 1 .. Len(input_sdus) : Stops(room, i, TestPass(room))
  <1>1. PICK n : n = Len(input_sdus)
    OBVIOUS
  <1>2. n \in Nat /\ n \in 1 .. n /\ n - 1 \in Nat /\ n \in 0 .. n /\ (n - 1) + 1 = n
    BY <1>1 DEF SdusOK
  <1>3. PICK f \in [0 .. n -> TestStates] :
              /\ f[0] = TestStart(room)
              /\ \A i \in 1 .. n : f[i] = TestTurn(f[i - 1], i)
              /\ TestPass(room) = IF f[n].more THEN [f[n] EXCEPT !.num_li = @ - 1, !.cut = f[n].li]
                                  ELSE f[n]
    BY <1>1, TestSteps
  <1> DEFINE T == {k \in 0 .. n : TestAfter(room, k, f[k])}
  <1>4. 0 \in T
    <2>1. PICK t : t = f[0]
      OBVIOUS
    <2>2. t.room = room /\ t.li = 1 /\ t.num_li = 0 /\ t.cut = 0 /\ t.shrink = 0 /\ t.more
      BY <1>3, <2>1 DEF TestStart
    <2>3. RoomAfter(room, 0) = room /\ LiAfter(0) = 1
      BY RoomIs DEF LiAfter
    <2>4. TestAfter(room, 0, t)
      BY <2>2, <2>3 DEF TestAfter
    <2> QED BY <1>2, <2>1, <2>4
  <1>5. ASSUME NEW k \in 0 .. n - 1, k \in T PROVE k + 1 \in T
    <2>1. k + 1 \in 1 .. n /\ (k + 1) - 1 = k /\ k + 1 \in 0 .. n /\ k \in 0 .. n
      BY <1>2
    <2>2. f[k] \in TestStates /\ TestAfter(room, k, f[k])
      BY <1>3, <1>5, <2>1
    <2>3. TestAfter(room, k + 1, TestTurn(f[k], k + 1))
      BY <1>1, <2>2, TestTurnIs
    <2>4. f[k + 1] = TestTurn(f[k], k + 1)
      BY <1>3, <2>1
    <2> QED BY <2>1, <2>3, <2>4
  <1> HIDE DEF T
  <1>6. n \in T
    BY <1>2, <1>4, <1>5, InductionTo
  <1>7. TestAfter(room, n, f[n]) /\ f[n] \in TestStates
    BY <1>2, <1>3, <1>6 DEF T
  <1>8. ~f[n].more
    <2> SUFFICES ASSUME f[n].more PROVE FALSE
      OBVIOUS
    <2>1. RoomAfter(room, n) > 0
      BY <1>7 DEF TestAfter
    <2>2. SumTo(Left, n) \in Int
      BY <1>1, <1>2, LeftIs
    <2>3. LiBytes(n - 1) \in Nat /\ LiBytes(n) \in Nat /\ LiBytes(n - 1) <= LiBytes(n)
      <3>1. LiBytes(n - 1) \in Nat /\ LiBytes(n) \in Nat
        BY <1>2, LiBytesIs
      <3>2. n - 1 <= n
        BY <1>2
      <3> QED BY <1>2, <3>1, <3>2, LiBytesGrow
    <2> QED BY <1>1, <2>1, <2>2, <2>3 DEF RoomAfter
  <1>9. TestPass(room) = f[n]
    BY <1>3, <1>8
  <1> QED BY <1>1, <1>7, <1>8, <1>9 DEF TestAfter

-----------------------------------------------------------------------------
(* The second pass: it copies what the first one counted. *)

FillStates == [room : Nat, li : {1, 2}, pieces : Seq(Seq(Byte)), ends : BOOLEAN,
               more : BOOLEAN, assert : BOOLEAN]
Copied(sdu, room) == SduBytes(sdu.id, sdu.size - sdu.remaining + 1, Min({sdu.remaining, room}))

\* The smaller of two numbers.
LEMMA MinOfTwo ==
    ASSUME NEW a \in Int, NEW b \in Int
    PROVE  /\ Min({a, b}) = IF a <= b THEN a ELSE b
           /\ Min({a, b}) \in Int
  <1>1. \E x \in {a, b} : \A y \in {a, b} : x <= y
    OBVIOUS
  <1>2. PICK m : m = Min({a, b})
    OBVIOUS
  <1>3. m \in {a, b} /\ \A y \in {a, b} : m <= y
    BY <1>1, <1>2, Zenon DEF Min
  <1> QED BY <1>2, <1>3

\* The bytes that are copied from an SDU.
LEMMA CopiedIs ==
    ASSUME NEW sdu \in SduRecords, sdu.remaining <= sdu.size, NEW room \in Nat
    PROVE  /\ Copied(sdu, room) \in Seq(Byte)
           /\ Len(Copied(sdu, room)) = IF sdu.remaining <= room THEN sdu.remaining ELSE room
           /\ Copied(sdu, room) = SduBytes(sdu.id, sdu.size - sdu.remaining + 1,
                                           IF sdu.remaining <= room THEN sdu.remaining ELSE room)
  <1>1. sdu.id \in Nat /\ sdu.size \in Nat /\ sdu.remaining \in Nat
    BY UmTxAssumption DEF SduRecords
  <1>2. PICK m : m = Min({sdu.remaining, room})
    OBVIOUS
  <1>3. m \in Nat /\ m = IF sdu.remaining <= room THEN sdu.remaining ELSE room
    BY <1>1, <1>2, MinOfTwo
  <1>4. PICK from : from = sdu.size - sdu.remaining + 1
    OBVIOUS
  <1>5. from \in Nat /\ from >= 1
    BY <1>1, <1>4
  <1>6. Copied(sdu, room) = [j \in 1 .. m |-> <<sdu.id, from + j - 1>>]
    BY <1>2, <1>4 DEF Copied, SduBytes
  <1>7. \A j \in 1 .. m : <<sdu.id, from + j - 1>> \in Byte
    BY <1>1, <1>3, <1>5 DEF Byte
  <1>8. Copied(sdu, room) = SduBytes(sdu.id, sdu.size - sdu.remaining + 1,
                                     IF sdu.remaining <= room THEN sdu.remaining ELSE room)
    BY <1>2, <1>3 DEF Copied
  <1>9. Copied(sdu, room) \in Seq(Byte) /\ Len(Copied(sdu, room)) = m
    BY <1>3, <1>6, <1>7
  <1> QED BY <1>3, <1>8, <1>9

\* One turn of the second pass.
LEMMA FillSduIs ==
    ASSUME NEW f \in FillStates, NEW sdu \in SduRecords, sdu.remaining <= sdu.size
    PROVE  /\ FillSdu(f, sdu) \in FillStates
           /\ sdu.remaining + NextLi(f.li) < f.room =>
                /\ FillSdu(f, sdu).room = f.room - sdu.remaining - NextLi(f.li)
                /\ FillSdu(f, sdu).li = NextLi(f.li)
                /\ FillSdu(f, sdu).pieces = Append(f.pieces, Copied(sdu, f.room))
                /\ FillSdu(f, sdu).more = f.more
                /\ FillSdu(f, sdu).assert = f.assert
           /\ sdu.remaining >= f.room =>
                /\ ~FillSdu(f, sdu).more /\ FillSdu(f, sdu).room = 0
                /\ FillSdu(f, sdu).pieces = Append(f.pieces, Copied(sdu, f.room))
                /\ FillSdu(f, sdu).ends <=> sdu.remaining = f.room
                /\ FillSdu(f, sdu).assert = f.assert
  <1>1. PICK r, li, copied : /\ r = sdu.remaining /\ li = NextLi(f.li)
                             /\ copied = Append(f.pieces, Copied(sdu, f.room))
    OBVIOUS
  <1>2. f.room \in Nat /\ f.li \in {1, 2} /\ f.pieces \in Seq(Seq(Byte)) /\ r \in Nat \ {0}
    BY <1>1 DEF FillStates, SduRecords
  <1>3. li \in {1, 2}
    BY <1>1, <1>2 DEF NextLi
  <1>4. Copied(sdu, f.room) \in Seq(Byte)
    BY <1>2, CopiedIs
  <1>5. copied \in Seq(Seq(Byte))
    BY <1>1, <1>2, <1>4
  <1>6. FillSdu(f, sdu) =
          CASE r > f.room -> [f EXCEPT !.pieces = copied, !.room = 0, !.more = FALSE, !.ends = FALSE]
            [] r = f.room -> [f EXCEPT !.pieces = copied, !.room = 0, !.more = FALSE, !.ends = TRUE]
            [] r + li < f.room -> [f EXCEPT !.pieces = copied, !.room = f.room - r - li, !.li = li]
            [] OTHER -> [f EXCEPT !.more = FALSE, !.assert = TRUE]
    BY <1>1 DEF FillSdu, Copied
  <1>7. PICK zero \in Nat : zero = 0
    OBVIOUS
  <1>8. CASE r > f.room
    <2>1. PICK y : y = [f EXCEPT !.pieces = copied, !.room = zero]
      OBVIOUS
    <2>2. PICK x : x = [y EXCEPT !.more = FALSE, !.ends = FALSE]
      OBVIOUS
    <2>3. y \in FillStates /\ y.pieces = copied /\ y.assert = f.assert /\ y.room = zero
      BY <1>5, <1>7, <2>1 DEF FillStates
    <2>4. x \in FillStates /\ x.pieces = copied /\ x.assert = f.assert /\ ~x.more /\ ~x.ends
          /\ x.room = zero
      BY <2>2, <2>3 DEF FillStates
    <2>5. FillSdu(f, sdu) = [f EXCEPT !.pieces = copied, !.room = 0, !.more = FALSE, !.ends = FALSE]
      BY <1>2, <1>3, <1>6, <1>8
    <2>6. FillSdu(f, sdu) = x
      BY <1>7, <2>1, <2>2, <2>5 DEF FillStates
    <2> QED BY <1>1, <1>2, <1>3, <1>7, <1>8, <2>4, <2>6
  <1>9. CASE r = f.room
    <2>1. PICK y : y = [f EXCEPT !.pieces = copied, !.room = zero]
      OBVIOUS
    <2>2. PICK x : x = [y EXCEPT !.more = FALSE, !.ends = TRUE]
      OBVIOUS
    <2>3. y \in FillStates /\ y.pieces = copied /\ y.assert = f.assert /\ y.room = zero
      BY <1>5, <1>7, <2>1 DEF FillStates
    <2>4. x \in FillStates /\ x.pieces = copied /\ x.assert = f.assert /\ ~x.more /\ x.ends
          /\ x.room = zero
      BY <2>2, <2>3 DEF FillStates
    <2>5. FillSdu(f, sdu) = [f EXCEPT !.pieces = copied, !.room = 0, !.more = FALSE, !.ends = TRUE]
      BY <1>2, <1>3, <1>6, <1>9
    <2>6. FillSdu(f, sdu) = x
      BY <1>7, <2>1, <2>2, <2>5 DEF FillStates
    <2> QED BY <1>1, <1>2, <1>3, <1>7, <1>9, <2>4, <2>6
  <1>10. CASE r + li < f.room
    <2>1. PICK z : z = f.room - r - li
      OBVIOUS
    <2>2. z \in Nat
      BY <1>2, <1>3, <1>10, <2>1
    <2>3. PICK y : y = [f EXCEPT !.pieces = copied, !.room = z]
      OBVIOUS
    <2>4. PICK x : x = [y EXCEPT !.li = li]
      OBVIOUS
    <2>5. y \in FillStates /\ y.pieces = copied /\ y.assert = f.assert /\ y.room = z /\ y.more = f.more
      BY <1>5, <2>2, <2>3 DEF FillStates
    <2>6. x \in FillStates /\ x.pieces = copied /\ x.assert = f.assert /\ x.room = z /\ x.more = f.more
          /\ x.li = li
      BY <1>3, <2>4, <2>5 DEF FillStates
    <2>7. FillSdu(f, sdu) = [f EXCEPT !.pieces = copied, !.room = f.room - r - li, !.li = li]
      BY <1>2, <1>3, <1>6, <1>10
    <2>8. FillSdu(f, sdu) = x
      BY <2>1, <2>3, <2>4, <2>7 DEF FillStates
    <2> QED BY <1>1, <1>2, <1>3, <1>10, <2>1, <2>6, <2>8
  <1>11. CASE r < f.room /\ r + li >= f.room
    <2>1. FillSdu(f, sdu) = [f EXCEPT !.more = FALSE, !.assert = TRUE]
      BY <1>2, <1>3, <1>6, <1>11
    <2>2. FillSdu(f, sdu) \in FillStates
      BY <2>1 DEF FillStates
    <2> QED BY <1>1, <1>2, <1>3, <1>11, <2>2
  <1> QED BY <1>2, <1>3, <1>8, <1>9, <1>10, <1>11

FillStart(room) == [room |-> room, li |-> 1, pieces |-> <<>>, ends |-> FALSE, more |-> TRUE,
                    assert |-> FALSE]
FillTurn(f, i) == IF f.more THEN FillSdu(f, input_sdus[i]) ELSE f

\* The second pass is the sequence of its turns.
LEMMA FillSteps ==
    ASSUME SdusOK, NEW room \in Nat
    PROVE  \E f \in [0 .. Len(input_sdus) -> FillStates] :
              /\ f[0] = FillStart(room)
              /\ \A i \in 1 .. Len(input_sdus) : f[i] = FillTurn(f[i - 1], i)
              /\ FillPass(room) = f[Len(input_sdus)]
  <1> DEFINE n == Len(input_sdus)
             body == [p \in FillStates \X Nat |-> IF p[2] \in 1 .. n THEN FillTurn(p[1], p[2]) ELSE p[1]]
             IsPass(f) == f = [i \in 0 .. n |->
                                 IF i = 0 THEN [room |-> room, li |-> 1, pieces |-> <<>>, ends |-> FALSE,
                                                more |-> TRUE, assert |-> FALSE]
                                 ELSE IF f[i - 1].more THEN FillSdu(f[i - 1], input_sdus[i])
                                 ELSE f[i - 1]]
  <1>1. n \in Nat
    BY LeftIs
  <1>2. ASSUME NEW t \in FillStates, NEW i \in 1 .. n PROVE FillTurn(t, i) \in FillStates
    <2>1. input_sdus[i] \in SduRecords /\ input_sdus[i].remaining <= input_sdus[i].size
      BY SduIs
    <2>2. FillSdu(t, input_sdus[i]) \in FillStates
      BY <2>1, FillSduIs
    <2> QED BY <2>2 DEF FillTurn
  <1>3. FillStart(room) \in FillStates
    BY DEF FillStart, FillStates
  <1> HIDE DEF n
  <1>4. body \in [FillStates \X Nat -> FillStates]
    <2>1. ASSUME NEW p \in FillStates \X Nat
          PROVE  (IF p[2] \in 1 .. n THEN FillTurn(p[1], p[2]) ELSE p[1]) \in FillStates
      <3>1. p[1] \in FillStates /\ p[2] \in Nat
        OBVIOUS
      <3> QED BY <1>2, <3>1
    <2> QED BY <2>1
  <1>5. ASSUME NEW t \in FillStates, NEW i \in 1 .. n PROVE body[<<t, i>>] = FillTurn(t, i)
    <2>1. <<t, i>> \in FillStates \X Nat
      BY <1>1
    <2> QED BY <2>1
  <1> HIDE DEF body
  <1>6. PICK g \in [0 .. n -> FillStates] :
           g[0] = FillStart(room) /\ \A i \in 1 .. n : g[i] = body[<<g[i - 1], i>>]
    <2>1. Passes(FillStates, FillStart(room), body, n) # {}
      BY <1>1, <1>3, <1>4, RecursionExists
    <2> QED BY <2>1 DEF Passes
  <1>7. IsPass(g)
    <2>1. ASSUME NEW i \in 0 .. n, i # 0
          PROVE  g[i] = IF g[i - 1].more THEN FillSdu(g[i - 1], input_sdus[i]) ELSE g[i - 1]
      <3>1. i \in 1 .. n /\ i - 1 \in 0 .. n
        BY <1>1, <2>1
      <3>2. g[i - 1] \in FillStates
        BY <1>6, <3>1
      <3>3. g[i] = FillTurn(g[i - 1], i)
        BY <1>5, <1>6, <3>1, <3>2
      <3> QED BY <3>3 DEF FillTurn
    <2>2. g[0] = [room |-> room, li |-> 1, pieces |-> <<>>, ends |-> FALSE, more |-> TRUE,
                  assert |-> FALSE]
      BY <1>6 DEF FillStart
    <2> QED BY <1>6, <2>1, <2>2
  <1> DEFINE f == CHOOSE h : IsPass(h)
  <1>8. IsPass(f)
    BY <1>7, Zenon
  <1>9. FillPass(room) = f[n]
    BY DEF FillPass, n
  <1> HIDE DEF f
  <1>10. f[0] = FillStart(room)
    BY <1>1, <1>8 DEF FillStart
  <1>11. \A i \in 1 .. n : f[i] = FillTurn(f[i - 1], i)
    <2>1. \A i \in 1 .. n : i \in 0 .. n /\ i # 0
      BY <1>1
    <2> QED BY <1>8, <2>1 DEF FillTurn
  <1> DEFINE T == {k \in 0 .. n : f[k] \in FillStates}
  <1>12. 0 \in T
    BY <1>1, <1>3, <1>10
  <1>13. ASSUME NEW k \in 0 .. n - 1, k \in T PROVE k + 1 \in T
    <2>1. k + 1 \in 1 .. n /\ (k + 1) - 1 = k /\ k + 1 \in 0 .. n
      BY <1>1
    <2>2. f[k + 1] = FillTurn(f[k], k + 1)
      BY <1>11, <2>1
    <2> QED BY <1>2, <1>13, <2>1, <2>2
  <1> HIDE DEF T
  <1>14. \A k \in 0 .. n : k \in T
    BY <1>1, <1>12, <1>13, InductionTo
  <1>15. \A k \in 0 .. n : f[k] \in FillStates
    BY <1>14 DEF T
  <1>16. f \in [0 .. n -> FillStates]
    BY <1>8, <1>15
  <1>17. n = Len(input_sdus)
    BY DEF n
  <1> HIDE DEF IsPass
  <1> QED BY <1>9, <1>10, <1>11, <1>16, <1>17

\* The next w bytes of SDU j of the list.
NextBytes(j, w) ==
    SduBytes(input_sdus[j].id, input_sdus[j].size - input_sdus[j].remaining + 1, w)

\* The second pass ends with SDU i: i pieces, the last one as long as there is room.
Filled(room, i, f) ==
    /\ f.assert = FALSE /\ f.more = FALSE /\ f.room = 0
    /\ f.ends <=> Left[i] = RoomAfter(room, i - 1)
    /\ Len(f.pieces) = i
    /\ Len(f.pieces[i]) = RoomAfter(room, i - 1)
    /\ f.pieces[i] = NextBytes(i, RoomAfter(room, i - 1))
    /\ \A j \in 1 .. i - 1 : Len(f.pieces[j]) = Left[j] /\ f.pieces[j] = NextBytes(j, Left[j])

\* It is in the middle of the list, k whole SDUs copied.
Filling(room, k, f) ==
    /\ f.assert = FALSE /\ f.more = TRUE
    /\ f.room = RoomAfter(room, k) /\ f.li = LiAfter(k)
    /\ Len(f.pieces) = k
    /\ \A j \in 1 .. k : Len(f.pieces[j]) = Left[j] /\ f.pieces[j] = NextBytes(j, Left[j])

\* A piece is appended.
LEMMA AppendIs ==
    ASSUME NEW S, NEW s \in Seq(S), NEW e \in S
    PROVE  /\ Append(s, e) \in Seq(S) /\ Len(Append(s, e)) = Len(s) + 1
           /\ Append(s, e)[Len(s) + 1] = e
           /\ \A j \in 1 .. Len(s) : Append(s, e)[j] = s[j]
  OBVIOUS

\* The turns before SDU i.
LEMMA FillGoesOn ==
    ASSUME SdusOK, NEW room \in Nat, NEW i \in 1 .. Len(input_sdus), RoomAfter(room, i - 1) >= 1,
           NEW k \in 0 .. i - 2, NEW f \in FillStates, Filling(room, k, f)
    PROVE  Filling(room, k + 1, FillTurn(f, k + 1))
  <1>1. PICK sdu : sdu = input_sdus[k + 1]
    OBVIOUS
  <1>2. /\ k \in Nat /\ k + 1 \in 1 .. Len(input_sdus) /\ (k + 1) - 1 = k
        /\ k + 1 \in 0 .. Len(input_sdus) /\ i - 1 \in (k + 1) .. Len(input_sdus)
        /\ Len(input_sdus) \in Nat /\ room \in Int /\ k \in 0 .. Len(input_sdus)
    BY LeftIs
  <1>3. /\ sdu \in SduRecords /\ sdu.remaining <= sdu.size /\ sdu.remaining \in Nat
        /\ Left[k + 1] = sdu.remaining
    BY <1>1, <1>2, SduIs
  <1>4. f.room = RoomAfter(room, k) /\ f.li = LiAfter(k) /\ Len(f.pieces) = k
        /\ f.pieces \in Seq(Seq(Byte)) /\ f.room \in Nat
    BY DEF Filling, FillStates
  <1>5. NextLi(f.li) = LiAfter(k + 1) /\ NextLi(f.li) \in {1, 2}
    BY <1>2, <1>4, LiBytesIs
  <1>6. RoomAfter(room, k + 1) = f.room - sdu.remaining - NextLi(f.li) /\ RoomAfter(room, k + 1) >= 1
    <2>1. RoomAfter(room, k + 1)
            = RoomAfter(room, (k + 1) - 1) - Left[k + 1] - NextLi(LiAfter((k + 1) - 1))
      BY <1>2, RoomIs
    <2>2. RoomAfter(room, i - 1) <= RoomAfter(room, k + 1) /\ RoomAfter(room, k + 1) \in Int
      BY <1>2, RoomIs
    <2>3. RoomAfter(room, i - 1) \in Int
      <3>1. i - 1 \in 0 .. Len(input_sdus)
        BY <1>2
      <3> QED BY <1>2, <3>1, RoomIs
    <2> QED BY <1>2, <1>3, <1>4, <2>1, <2>2, <2>3
  <1>7. sdu.remaining + NextLi(f.li) < f.room /\ sdu.remaining <= f.room
    BY <1>3, <1>4, <1>5, <1>6
  <1>8. PICK x : x = FillSdu(f, sdu)
    OBVIOUS
  <1>9. FillTurn(f, k + 1) = x
    BY <1>1, <1>8 DEF FillTurn, Filling
  <1>10. /\ x.room = f.room - sdu.remaining - NextLi(f.li) /\ x.li = NextLi(f.li)
         /\ x.pieces = Append(f.pieces, Copied(sdu, f.room))
         /\ x.more = f.more /\ x.assert = f.assert
    BY <1>3, <1>7, <1>8, FillSduIs
  <1>11. /\ Copied(sdu, f.room) \in Seq(Byte) /\ Len(Copied(sdu, f.room)) = sdu.remaining
         /\ Copied(sdu, f.room) = NextBytes(k + 1, sdu.remaining)
    BY <1>1, <1>3, <1>4, <1>7, CopiedIs DEF NextBytes
  <1>12. Len(x.pieces) = k + 1 /\ x.pieces[k + 1] = Copied(sdu, f.room)
         /\ \A j \in 1 .. k : x.pieces[j] = f.pieces[j]
    <2>1. PICK s, e : s = f.pieces /\ e = Copied(sdu, f.room)
      OBVIOUS
    <2>2. s \in Seq(Seq(Byte)) /\ e \in Seq(Byte) /\ Len(s) = k
      BY <1>4, <1>11, <2>1
    <2> QED BY <1>10, <2>1, <2>2, AppendIs
  <1>13. ASSUME NEW j \in 1 .. k + 1
         PROVE  Len(x.pieces[j]) = Left[j] /\ x.pieces[j] = NextBytes(j, Left[j])
    <2>1. CASE j = k + 1
      BY <1>3, <1>11, <1>12, <2>1
    <2>2. CASE j \in 1 .. k
      BY <1>12, <2>2 DEF Filling
    <2> QED BY <1>2, <2>1, <2>2
  <1>14. x.assert = FALSE /\ x.more = TRUE
    BY <1>10 DEF Filling
  <1>15. x.room = RoomAfter(room, k + 1) /\ x.li = LiAfter(k + 1)
    BY <1>5, <1>6, <1>10
  <1> QED BY <1>9, <1>12, <1>13, <1>14, <1>15 DEF Filling

\* The turn of SDU i.
LEMMA FillStops ==
    ASSUME SdusOK, NEW room \in Nat, NEW i \in 1 .. Len(input_sdus), RoomAfter(room, i - 1) >= 1,
           RoomAfter(room, i - 1) <= Left[i], NEW f \in FillStates, Filling(room, i - 1, f)
    PROVE  Filled(room, i, FillTurn(f, i))
  <1>1. PICK sdu : sdu = input_sdus[i]
    OBVIOUS
  <1>2. i \in Nat /\ i - 1 \in Nat /\ (i - 1) + 1 = i
    BY LeftIs
  <1>3. /\ sdu \in SduRecords /\ sdu.remaining <= sdu.size /\ sdu.remaining \in Nat
        /\ Left[i] = sdu.remaining
    BY <1>1, SduIs
  <1>4. f.room = RoomAfter(room, i - 1) /\ Len(f.pieces) = i - 1
        /\ f.pieces \in Seq(Seq(Byte)) /\ f.room \in Nat
    BY DEF Filling, FillStates
  <1>5. PICK x : x = FillSdu(f, sdu)
    OBVIOUS
  <1>6. FillTurn(f, i) = x
    BY <1>1, <1>5 DEF FillTurn, Filling
  <1>7. sdu.remaining >= f.room
    BY <1>3, <1>4
  <1>8. /\ ~x.more /\ x.room = 0 /\ x.pieces = Append(f.pieces, Copied(sdu, f.room))
        /\ x.ends <=> sdu.remaining = f.room
        /\ x.assert = f.assert
        /\ x \in FillStates
    BY <1>3, <1>5, <1>7, FillSduIs
  <1>9. /\ Copied(sdu, f.room) \in Seq(Byte) /\ Len(Copied(sdu, f.room)) = f.room
        /\ Copied(sdu, f.room) = NextBytes(i, f.room)
    <2>1. (IF sdu.remaining <= f.room THEN sdu.remaining ELSE f.room) = f.room
      BY <1>3, <1>4, <1>7
    <2> QED BY <1>1, <1>3, <1>4, <2>1, CopiedIs DEF NextBytes
  <1>10. Len(x.pieces) = i /\ x.pieces[i] = Copied(sdu, f.room)
         /\ \A j \in 1 .. i - 1 : x.pieces[j] = f.pieces[j]
    BY <1>2, <1>4, <1>8, <1>9, AppendIs
  <1>11. \A j \in 1 .. i - 1 : Len(x.pieces[j]) = Left[j] /\ x.pieces[j] = NextBytes(j, Left[j])
    BY <1>10 DEF Filling
  <1>12. x.assert = FALSE
    BY <1>8 DEF Filling
  <1>13. x.more = FALSE
    BY <1>8 DEF FillStates
  <1> QED BY <1>3, <1>4, <1>6, <1>8, <1>9, <1>10, <1>11, <1>12, <1>13 DEF Filled

\* The whole second pass.
LEMMA FillPassEnds ==
    ASSUME SdusOK, NEW room \in Nat, NEW i \in 1 .. Len(input_sdus), RoomAfter(room, i - 1) >= 1,
           RoomAfter(room, i - 1) <= Left[i]
    PROVE  FillPass(room) \in FillStates /\ Filled(room, i, FillPass(room))
  <1>1. PICK n : n = Len(input_sdus)
    OBVIOUS
  <1>2. n \in Nat /\ i \in Nat /\ i - 1 \in Nat /\ i \in 1 .. n /\ n \in 0 .. n /\ (i - 1) + 1 = i
    BY <1>1, LeftIs
  <1>3. PICK f \in [0 .. n -> FillStates] :
              /\ f[0] = FillStart(room)
              /\ \A k \in 1 .. n : f[k] = FillTurn(f[k - 1], k)
              /\ FillPass(room) = f[n]
    BY <1>1, FillSteps
  <1> DEFINE T == {k \in 0 .. n : /\ k < i => Filling(room, k, f[k])
                                  /\ k >= i => Filled(room, i, f[k])}
  <1>4. 0 \in T
    <2>1. PICK t : t = f[0]
      OBVIOUS
    <2>2. t.room = room /\ t.li = 1 /\ t.pieces = <<>> /\ t.assert = FALSE /\ t.more = TRUE
      BY <1>3, <2>1 DEF FillStart
    <2>3. RoomAfter(room, 0) = room /\ LiAfter(0) = 1
      <3>1. room \in Int
        OBVIOUS
      <3> QED BY <3>1, RoomIs DEF LiAfter
    <2>4. Filling(room, 0, t)
      BY <2>2, <2>3 DEF Filling
    <2> QED BY <1>2, <2>1, <2>4
  <1>5. ASSUME NEW k \in 0 .. n - 1, k \in T PROVE k + 1 \in T
    <2>1. k + 1 \in 1 .. n /\ (k + 1) - 1 = k /\ k + 1 \in 0 .. n /\ k \in 0 .. n
      BY <1>2
    <2>2. f[k] \in FillStates
      BY <1>3, <2>1
    <2>3. f[k + 1] = FillTurn(f[k], k + 1)
      BY <1>3, <2>1
    <2>4. CASE k < i - 1
      <3>1. k \in 0 .. i - 2 /\ k < i /\ ~(k + 1 >= i)
        BY <1>2, <2>1, <2>4
      <3>2. Filling(room, k, f[k])
        BY <1>5, <3>1
      <3>3. Filling(room, k + 1, f[k + 1])
        BY <1>1, <2>2, <2>3, <3>1, <3>2, FillGoesOn
      <3> QED BY <2>1, <3>1, <3>3
    <2>5. CASE k = i - 1
      <3>1. k < i /\ k + 1 = i /\ ~(i < i)
        BY <1>2, <2>1, <2>5
      <3>2. Filling(room, i - 1, f[k])
        BY <1>5, <2>5, <3>1
      <3>3. Filled(room, i, FillTurn(f[k], i))
        BY <1>1, <2>2, <3>2, FillStops
      <3> QED BY <2>1, <2>3, <3>1, <3>3
    <2>6. CASE k >= i
      <3>1. ~(k + 1 < i)
        BY <1>2, <2>1, <2>6
      <3>2. Filled(room, i, f[k])
        BY <1>5, <2>6
      <3>3. f[k + 1] = f[k]
        BY <2>3, <3>2 DEF FillTurn, Filled
      <3> QED BY <2>1, <3>1, <3>2, <3>3
    <2> QED BY <1>2, <2>1, <2>4, <2>5, <2>6
  <1> HIDE DEF T
  <1>6. n \in T
    BY <1>2, <1>4, <1>5, InductionTo
  <1>7. n >= i
    BY <1>2
  <1>8. Filled(room, i, f[n])
    BY <1>6, <1>7 DEF T
  <1> QED BY <1>2, <1>3, <1>8

-----------------------------------------------------------------------------
(* The two passes agree. *)

\* What the two passes leave: i pieces, w bytes in the last one.
Agree(test, fill, i, w) ==
    /\ test.num_li = i - 1 /\ test.shrink \in Int /\ test.shrink = test.cut
    /\ fill \in FillStates /\ fill.room = 0
    /\ fill.assert = FALSE /\ fill.more = FALSE
    /\ Len(fill.pieces) = i /\ Len(fill.pieces[i]) = w
    /\ fill.pieces[i] = NextBytes(i, w)
    /\ \A j \in 1 .. i - 1 : Len(fill.pieces[j]) = Left[j] /\ fill.pieces[j] = NextBytes(j, Left[j])
    /\ fill.ends <=> Left[i] = w

\* For every grant above the header the second pass copies what the first one has counted.
LEMMA PassesAgree ==
    ASSUME SduInv, input_sdus # <<>>, NEW grant \in Nat, grant > MinHeader
    PROVE  \E i \in 1 .. Len(input_sdus) : \E w \in 1 .. Left[i] :
              /\ Agree(TestPass(DataPduSize(grant) - MinHeader),
                       FillPass(DataPduSize(grant) - MinHeader
                                - TestPass(DataPduSize(grant) - MinHeader).cut), i, w)
              /\ w = RoomAfter(DataPduSize(grant) - MinHeader
                                - TestPass(DataPduSize(grant) - MinHeader).cut, i - 1)
  <1>1. PICK n, occ, size : /\ n = Len(input_sdus) /\ occ = SumTo(Left, n)
                            /\ size = DataPduSize(grant)
    OBVIOUS
  <1>2. SdusOK /\ buffer_occupancy = occ
    BY <1>1 DEF SduInv, Occupied
  <1>3. n \in Nat \ {0} /\ n - 1 \in Nat /\ n \in 0 .. n /\ 0 \in 0 .. n /\ n \in 1 .. n
    BY <1>1, <1>2 DEF SdusOK
  <1>4. occ \in Int /\ occ >= 1
    <2>1. occ \in Int /\ SumTo(Left, 0) = 0 /\ SumTo(Left, 1) = SumTo(Left, 1 - 1) + Left[1] /\ Left[1] >= 1
          /\ Left[1] \in Int
      <3>1. 1 \in 1 .. n
        BY <1>3
      <3> QED BY <1>1, <1>2, <1>3, <3>1, LeftIs
    <2>2. SumTo(Left, 1) <= SumTo(Left, n)
      <3>1. 1 \in 0 .. n /\ n \in 1 .. n
        BY <1>3
      <3>2. Left \in [1 .. n -> Int] /\ \A k \in 1 .. n : Left[k] >= 0
        BY <1>1, <1>2, LeftIs
      <3> QED BY <1>3, <3>1, <3>2, SumsGrow
    <2> QED BY <1>1, <2>1, <2>2
  <1>5. LiBytes(n - 1) \in Nat /\ MinHeader \in Nat
    BY <1>3, LiBytesIs DEF MinHeader
  <1>6. PICK R : R = size - MinHeader
    OBVIOUS
  <1>7. R \in Int /\ R > 0 /\ R <= SumTo(Left, n) + LiBytes(n - 1)
    <2>1. PICK all : all = occ + MinHeader + LiBytes(n - 1)
      OBVIOUS
    <2>2. size = Min({grant, all})
      BY <1>1, <1>2, <2>1 DEF DataPduSize
    <2>3. all \in Int /\ all > MinHeader
      BY <1>4, <1>5, <2>1
    <2>4. size = IF grant <= all THEN grant ELSE all
      BY <2>2, <2>3, MinOfTwo
    <2> QED BY <1>1, <1>4, <1>5, <1>6, <2>1, <2>3, <2>4, SMTT(30)
  <1>8. PICK test : test = TestPass(R)
    OBVIOUS
  <1>9. PICK i \in 1 .. n : Stops(R, i, test)
    BY <1>1, <1>2, <1>7, <1>8, TestPassStops
  <1>10. test.shrink \in Int
    <2>1. test \in TestStates
      BY <1>1, <1>2, <1>7, <1>8, TestPassStops
    <2> QED BY <2>1 DEF TestStates
  <1>11. PICK w : w = RoomAfter(R, i - 1) - test.cut
    OBVIOUS
  <1>12. i \in 1 .. Len(input_sdus) /\ i - 1 \in 0 .. Len(input_sdus) /\ i - 1 \in Nat
    BY <1>1, <1>3
  <1>13. RoomAfter(R, i - 1) \in Int /\ RoomAfter(R, i - 1) > 0 /\ Left[i] \in Int /\ Left[i] >= 1
    BY <1>2, <1>7, <1>9, <1>12, RoomIs, LeftIs DEF Stops
  <1>14. test.cut = IF Left[i] >= RoomAfter(R, i - 1) THEN 0 ELSE RoomAfter(R, i - 1) - Left[i]
    BY <1>9 DEF Stops
  <1>15. test.cut \in Nat /\ w \in 1 .. Left[i]
    BY <1>11, <1>13, <1>14
  <1>16. RoomAfter(R - test.cut, i - 1) = w
    <2>1. SumTo(Left, i - 1) \in Int /\ LiBytes(i - 1) \in Nat
      BY <1>2, <1>12, LeftIs, LiBytesIs
    <2> QED BY <1>7, <1>11, <1>15, <2>1 DEF RoomAfter
  <1>17. R - test.cut \in Nat
    <2>1. RoomAfter(R - test.cut, i - 1) <= RoomAfter(R - test.cut, 0)
          /\ RoomAfter(R - test.cut, 0) = R - test.cut
      <3>1. 0 \in 0 .. Len(input_sdus) /\ i - 1 \in 0 .. Len(input_sdus) /\ R - test.cut \in Int
        BY <1>7, <1>12, <1>15
      <3> QED BY <1>2, <3>1, RoomIs
    <2> QED BY <1>7, <1>15, <1>16, <2>1
  <1>18. PICK fill : fill = FillPass(R - test.cut)
    OBVIOUS
  <1>19. fill \in FillStates /\ Filled(R - test.cut, i, fill)
    BY <1>2, <1>12, <1>15, <1>16, <1>17, <1>18, FillPassEnds
  <1>20. Agree(test, fill, i, w)
    BY <1>9, <1>16, <1>19, <1>10 DEF Agree, Filled, Stops
  <1> QED BY <1>1, <1>6, <1>8, <1>12, <1>15, <1>16, <1>18, <1>20

\* The bytes the second pass has copied.
LEMMA PayloadIs ==
    ASSUME SdusOK, NEW test, NEW fill, NEW i \in 1 .. Len(input_sdus), NEW w \in 1 .. Left[i],
           Agree(test, fill, i, w)
    PROVE  SumLen(fill.pieces) = SumTo(Left, i - 1) + w
  <1>1. PICK p : p = fill.pieces
    OBVIOUS
  <1>2. p \in Seq(Seq(Byte)) /\ Len(p) = i /\ i \in Nat \ {0} /\ DOMAIN p = 1 .. i
    BY <1>1, LeftIs DEF Agree, FillStates
  <1>3. PICK g : g = [j \in DOMAIN p |-> Len(p[j])]
    OBVIOUS
  <1>4. g \in [1 .. i -> Int] /\ \A j \in 1 .. i : g[j] = Len(p[j])
    BY <1>2, <1>3
  <1>5. SumLen(p) = SumTo(g, i)
    BY <1>2, <1>3 DEF SumLen
  <1>6. SumTo(g, i) = SumTo(g, i - 1) + g[i]
    <2>1. i \in Nat /\ i \in 1 .. i
      BY <1>2
    <2> QED BY <1>4, <2>1, SumToIs
  <1>7. SumTo(Left, i - 1) = SumTo(g, i - 1)
    <2>1. Len(input_sdus) \in Nat /\ Left \in [1 .. Len(input_sdus) -> Int]
      BY LeftIs
    <2>2. i - 1 \in 0 .. Len(input_sdus) /\ i - 1 <= i
      BY <1>2, <2>1
    <2>3. \A j \in 1 .. i - 1 : Left[j] = g[j]
      <3>1. \A j \in 1 .. i - 1 : j \in 1 .. i
        BY <1>2
      <3>2. \A j \in 1 .. i - 1 : Len(p[j]) = Left[j]
        BY <1>1 DEF Agree
      <3> QED BY <1>4, <3>1, <3>2
    <2>4. PICK q : q = i - 1
      OBVIOUS
    <2>5. i \in Nat /\ q \in 0 .. Len(input_sdus) /\ q <= i /\ \A j \in 1 .. q : Left[j] = g[j]
      BY <1>2, <2>2, <2>3, <2>4
    <2>6. SumTo(Left, q) = SumTo(g, q)
      BY <1>4, <2>1, <2>5, SumsSame
    <2> QED BY <2>4, <2>6
  <1>8. g[i] = w
    BY <1>1, <1>2, <1>4 DEF Agree
  <1> QED BY <1>1, <1>5, <1>6, <1>7, <1>8

\* What is left of the SDUs of a list.
LeftOf(sdus) == [i \in 1 .. Len(sdus) |-> sdus[i].remaining]
ListOK(sdus) ==
    /\ sdus \in Seq(SduRecords)
    /\ \A i \in 1 .. Len(sdus) : sdus[i].remaining <= sdus[i].size

\* The list after i whole SDUs.
RestIs(s, m, i) == s \in Seq(SduRecords) /\ Len(s) = m /\ \A k \in 1 .. m : s[k] = input_sdus[i + k]

\* What rlc_um_segment leaves when it ends with a whole SDU.
LEMMA WholeRest ==
    ASSUME SdusOK, NEW i \in 1 .. Len(input_sdus), NEW m, m = Len(input_sdus) - i,
           NEW s, s = AfterFill(i, 0)
    PROVE  RestIs(s, m, i)
  <1>1. PICK n : n = Len(input_sdus)
    OBVIOUS
  <1>2. n \in Nat /\ m \in Nat /\ m + i = n /\ input_sdus \in Seq(SduRecords) /\ i \in 1 .. n /\ i \in Nat
    BY <1>1, LeftIs DEF SdusOK
  <1>3. s = SubSeq(input_sdus, i + 1, n)
    BY <1>1 DEF AfterFill
  <1>4. /\ \A k \in (i + 1) .. n : k \in 1 .. Len(input_sdus)
        /\ \A k \in 1 .. m : (i + 1) + k - 1 = i + k
        /\ (IF i + 1 <= n THEN n - (i + 1) + 1 ELSE 0) = m
    BY <1>1, <1>2
  <1>5. \A k \in (i + 1) .. n : input_sdus[k] \in SduRecords
    BY <1>2, <1>4
  <1>6. PICK a \in Int : a = i + 1
    BY <1>2
  <1>7. \A k \in a .. n : input_sdus[k] \in SduRecords
    BY <1>5, <1>6
  <1>8. /\ SubSeq(input_sdus, a, n) \in Seq(SduRecords)
        /\ Len(SubSeq(input_sdus, a, n)) = IF a <= n THEN n - a + 1 ELSE 0
        /\ \A k \in 1 .. n - a + 1 : SubSeq(input_sdus, a, n)[k] = input_sdus[a + k - 1]
    BY <1>2, <1>7, SubSeqProperties
  <1>9. n - a + 1 = m
    BY <1>1, <1>2, <1>6
  <1> QED BY <1>3, <1>4, <1>6, <1>8, <1>9 DEF RestIs

\* It is a list of SDUs, and holds what is left.
LEMMA AfterWhole ==
    ASSUME SdusOK, NEW i \in 1 .. Len(input_sdus)
    PROVE  /\ ListOK(AfterFill(i, 0))
           /\ SumTo(LeftOf(AfterFill(i, 0)), Len(AfterFill(i, 0)))
                 = SumTo(Left, Len(input_sdus)) - SumTo(Left, i)
  <1>1. PICK n, m, s : n = Len(input_sdus) /\ m = n - i /\ s = AfterFill(i, 0)
    OBVIOUS
  <1>2. n \in Nat /\ m \in Nat /\ i \in 0 .. n /\ m + i = n /\ input_sdus \in Seq(SduRecords)
        /\ i \in 1 .. n /\ Left \in [1 .. n -> Int] /\ i \in Nat
    BY <1>1, LeftIs DEF SdusOK
  <1>3. s \in Seq(SduRecords) /\ Len(s) = m /\ \A k \in 1 .. m : s[k] = input_sdus[i + k]
    <2>1. m = Len(input_sdus) - i /\ s = AfterFill(i, 0)
      BY <1>1
    <2>2. RestIs(s, m, i)
      BY <2>1, WholeRest
    <2> QED BY <2>2 DEF RestIs
  <1>4. \A k \in 1 .. m : i + k \in 1 .. n
    BY <1>2
  <1>5. \A k \in 1 .. m : s[k].remaining <= s[k].size /\ s[k].remaining = Left[i + k]
    BY <1>1, <1>3, <1>4, SduIs
  <1>6. PICK g : g = LeftOf(s)
    OBVIOUS
  <1>7. g \in [1 .. m -> Int] /\ \A k \in 1 .. m : g[k] = Left[i + k]
    BY <1>2, <1>3, <1>4, <1>5, <1>6 DEF LeftOf
  <1>8. SumTo(Left, n) = SumTo(Left, i) + SumTo(g, m)
    BY <1>2, <1>7, SumsAgree, ZenonT(40)
  <1>9. SumTo(Left, i) \in Int /\ SumTo(g, m) \in Int
    <2>1. m \in 0 .. m
      BY <1>2
    <2> QED BY <1>2, <1>7, <2>1, SumToIs
  <1> QED BY <1>1, <1>3, <1>5, <1>6, <1>8, <1>9 DEF ListOK

\* The list after i - 1 whole SDUs and w bytes of the next one, which is not its end.
StartedRest(s, m, i, w) ==
    /\ s \in Seq(SduRecords) /\ Len(s) = m /\ m \in Nat \ {0}
    /\ s[1].id = input_sdus[i].id /\ s[1].size = input_sdus[i].size
    /\ s[1].remaining = Left[i] - w
    /\ \A k \in 2 .. m : s[k] = input_sdus[(i - 1) + k]

\* Another record at the head of a list leaves the others alone.
LEMMA HeadReplaced ==
    ASSUME NEW m \in Nat \ {0}, NEW old \in Seq(SduRecords), Len(old) = m, NEW new \in SduRecords,
           NEW s, s = [old EXCEPT ![1] = new]
    PROVE  s \in Seq(SduRecords) /\ Len(s) = m /\ s[1] = new /\ \A k \in 2 .. m : s[k] = old[k]
  <1>1. 1 \in 1 .. m /\ \A k \in 2 .. m : k \in 1 .. m /\ k # 1
    OBVIOUS
  <1>2. old \in [1 .. m -> SduRecords] /\ DOMAIN old = 1 .. m
    OBVIOUS
  <1>3. s \in [1 .. m -> SduRecords] /\ s[1] = new /\ \A k \in 2 .. m : s[k] = old[k]
    BY <1>1, <1>2
  <1>4. s \in Seq(SduRecords) /\ Len(s) = m
    BY <1>3
  <1> QED BY <1>3, <1>4

\* What rlc_um_segment leaves when it ends inside an SDU.
LEMMA PartRest ==
    ASSUME SdusOK, NEW i \in 1 .. Len(input_sdus), NEW w \in 1 .. Left[i], w # Left[i],
           NEW m, m = Len(input_sdus) - i + 1, NEW s, s = AfterFill(i - 1, w)
    PROVE  StartedRest(s, m, i, w)
  <1>1. PICK n, rest : n = Len(input_sdus) /\ rest = SubSeq(input_sdus, (i - 1) + 1, n)
    OBVIOUS
  <1>2. n \in Nat /\ m \in Nat \ {0} /\ i \in 0 .. n /\ (i - 1) + 1 = i /\ input_sdus \in Seq(SduRecords)
        /\ i \in 1 .. n /\ Left \in [1 .. n -> Int] /\ i \in Nat
    <2>1. n \in Nat /\ i \in 1 .. n /\ Left \in [1 .. n -> Int]
      BY <1>1, LeftIs
    <2>2. input_sdus \in Seq(SduRecords)
      BY DEF SdusOK
    <2> QED BY <1>1, <2>1, <2>2
  <1>3. s = [rest EXCEPT ![1].remaining = @ - w]
    <2>1. Left[i] \in Int
      BY <1>2
    <2>2. w # 0
      BY <2>1
    <2> QED BY <1>1, <2>2 DEF AfterFill
  <1>4. rest \in Seq(SduRecords) /\ Len(rest) = m /\ \A k \in 1 .. m : rest[k] = input_sdus[(i - 1) + k]
    BY <1>1, <1>2
  <1>5. PICK first, new : first = rest[1] /\ new = [first EXCEPT !.remaining = first.remaining - w]
    OBVIOUS
  <1>6. first = input_sdus[i]
    <2>1. 1 \in 1 .. m
      BY <1>2
    <2> QED BY <1>2, <1>4, <1>5, <2>1
  <1>7. first \in SduRecords /\ first.remaining = Left[i] /\ first.remaining <= first.size
        /\ first.size \in Nat /\ Left[i] \in Nat
    BY <1>1, <1>2, <1>6, SduIs
  <1>8. first.remaining - w \in Nat \ {0} /\ first.remaining - w = Left[i] - w
    BY <1>7
  <1>9. new \in SduRecords /\ new.remaining = Left[i] - w /\ new.size = first.size /\ new.id = first.id
    BY <1>5, <1>7, <1>8 DEF SduRecords
  <1>10. s = [rest EXCEPT ![1] = new]
    BY <1>2, <1>3, <1>4, <1>5, <1>7
  <1>11. s \in Seq(SduRecords) /\ Len(s) = m /\ s[1] = new /\ \A k \in 2 .. m : s[k] = rest[k]
    <2>1. m \in Nat \ {0} /\ rest \in Seq(SduRecords) /\ Len(rest) = m /\ new \in SduRecords
      BY <1>2, <1>4, <1>9
    <2> QED BY <1>10, <2>1, HeadReplaced
  <1>12. \A k \in 2 .. m : k \in 1 .. m
    BY <1>2
  <1> QED BY <1>2, <1>4, <1>6, <1>9, <1>11, <1>12 DEF StartedRest

\* It is a list of SDUs, and holds what is left.
LEMMA AfterPart ==
    ASSUME SdusOK, NEW i \in 1 .. Len(input_sdus), NEW w \in 1 .. Left[i], w # Left[i]
    PROVE  /\ ListOK(AfterFill(i - 1, w))
           /\ SumTo(LeftOf(AfterFill(i - 1, w)), Len(AfterFill(i - 1, w)))
                 = SumTo(Left, Len(input_sdus)) - SumTo(Left, i - 1) - w
  <1>1. PICK n, m, s : n = Len(input_sdus) /\ m = n - i + 1 /\ s = AfterFill(i - 1, w)
    OBVIOUS
  <1>2. n \in Nat /\ m \in Nat \ {0} /\ i \in 0 .. n /\ (i - 1) + 1 = i
        /\ i \in 1 .. n /\ Left \in [1 .. n -> Int] /\ i \in Nat /\ m - 1 \in Nat /\ (m - 1) + i = n
    <2>1. n \in Nat /\ i \in 1 .. n /\ Left \in [1 .. n -> Int]
      BY <1>1, LeftIs
    <2> QED BY <1>1, <2>1
  <1>3. \A k \in 1 .. m : (i - 1) + k \in 1 .. n
    BY <1>1, <1>2
  <1>4. input_sdus[i].remaining = Left[i] /\ Left[i] <= input_sdus[i].size
        /\ input_sdus[i].size \in Nat /\ Left[i] \in Nat
    BY <1>1, <1>2, SduIs
  <1>5. /\ s \in Seq(SduRecords) /\ Len(s) = m
        /\ s[1].size = input_sdus[i].size /\ s[1].remaining = Left[i] - w
        /\ \A k \in 2 .. m : s[k] = input_sdus[(i - 1) + k]
    <2>1. m = Len(input_sdus) - i + 1 /\ s = AfterFill(i - 1, w)
      BY <1>1
    <2>2. StartedRest(s, m, i, w)
      BY <2>1, PartRest
    <2> QED BY <2>2 DEF StartedRest
  <1>6. ASSUME NEW k \in 1 .. m PROVE s[k].remaining <= s[k].size
    <2>1. CASE k = 1
      BY <1>4, <1>5, <2>1
    <2>2. CASE k \in 2 .. m
      <3>1. s[k] = input_sdus[(i - 1) + k]
        BY <1>5, <2>2
      <3> QED BY <1>1, <1>3, <3>1, SduIs
    <2> QED BY <1>2, <2>1, <2>2
  <1>7. ListOK(s)
    BY <1>5, <1>6 DEF ListOK
  <1>8. PICK g, h : g = LeftOf(s) /\ h = [k \in 1 .. m - 1 |-> Left[i + k]]
    OBVIOUS
  <1>9. \A k \in 1 .. m - 1 : i + k \in 1 .. n
    BY <1>1, <1>2
  <1>10. h \in [1 .. m - 1 -> Int] /\ \A k \in 1 .. m - 1 : h[k] = Left[i + k]
    BY <1>2, <1>8, <1>9
  <1>11. ASSUME NEW k \in 1 .. m
         PROVE  s[k].remaining \in Int /\ s[k].remaining = IF k = 1 THEN Left[i] - w ELSE Left[(i - 1) + k]
    <2>1. CASE k = 1
      BY <1>4, <1>5, <2>1
    <2>2. CASE k \in 2 .. m
      <3>1. s[k] = input_sdus[(i - 1) + k] /\ (i - 1) + k \in 1 .. n /\ k # 1
        BY <1>2, <1>3, <1>5, <2>2
      <3>2. input_sdus[(i - 1) + k].remaining \in Nat
            /\ Left[(i - 1) + k] = input_sdus[(i - 1) + k].remaining
        BY <1>1, <3>1, SduIs
      <3> QED BY <3>1, <3>2
    <2> QED BY <1>2, <2>1, <2>2
  <1>12. g \in [1 .. m -> Int] /\ g[1] = Left[i] - w /\ \A k \in 1 .. m - 1 : h[k] = g[1 + k]
    <2>1. g = [k \in 1 .. m |-> s[k].remaining]
      BY <1>5, <1>8 DEF LeftOf
    <2>2. g \in [1 .. m -> Int]
      BY <1>11, <2>1
    <2>3. g[1] = Left[i] - w
      BY <1>2, <1>11, <2>1
    <2>4. ASSUME NEW k \in 1 .. m - 1 PROVE h[k] = g[1 + k]
      <3>1. 1 + k \in 1 .. m /\ 1 + k # 1 /\ (i - 1) + (1 + k) = i + k
        BY <1>2
      <3>2. g[1 + k] = s[1 + k].remaining
        BY <2>1, <3>1
      <3> QED BY <1>10, <1>11, <3>1, <3>2
    <2> QED BY <2>2, <2>3, <2>4
  <1>13. SumTo(Left, n) = SumTo(Left, i) + SumTo(h, m - 1)
    <2>1. PICK q \in Nat : q = m - 1
      BY <1>2
    <2>2. h \in [1 .. q -> Int] /\ q + i = n /\ \A k \in 1 .. q : h[k] = Left[i + k]
      BY <1>2, <1>10, <2>1
    <2>3. SumTo(Left, n) = SumTo(Left, i) + SumTo(h, q)
      BY <1>2, <2>2, SumsAgree, ZenonT(40)
    <2> QED BY <2>1, <2>3
  <1>14. SumTo(g, m) = SumTo(g, 1) + SumTo(h, m - 1)
    <2>1. 1 \in 0 .. m /\ (m - 1) + 1 = m /\ m \in Nat
      BY <1>2
    <2>2. PICK q \in Nat : q = m - 1
      BY <1>2
    <2>3. h \in [1 .. q -> Int] /\ q + 1 = m /\ \A k \in 1 .. q : h[k] = g[1 + k]
      BY <1>2, <1>10, <1>12, <2>1, <2>2
    <2>4. SumTo(g, m) = SumTo(g, 1) + SumTo(h, q)
      BY <1>12, <2>1, <2>3, SumsAgree, ZenonT(40)
    <2> QED BY <2>2, <2>4
  <1>15. SumTo(g, 1) = Left[i] - w
    <2>1. SumTo(g, 1) = SumTo(g, 1 - 1) + g[1] /\ SumTo(g, 0) = 0
      <3>1. 1 \in 1 .. m /\ m \in Nat
        BY <1>2
      <3> QED BY <1>12, <3>1, SumToIs
    <2> QED BY <1>4, <1>12, <2>1
  <1>16. SumTo(Left, i) = SumTo(Left, i - 1) + Left[i]
    BY <1>2, SumToIs
  <1>17. SumTo(Left, i - 1) \in Int /\ SumTo(h, m - 1) \in Int
    <2>1. i - 1 \in 0 .. n /\ m - 1 \in 0 .. m - 1
      BY <1>2
    <2> QED BY <1>2, <1>10, <2>1, SumToIs
  <1>18. SumTo(g, m) = SumTo(Left, n) - SumTo(Left, i - 1) - w
    BY <1>4, <1>13, <1>14, <1>15, <1>16, <1>17
  <1> QED BY <1>1, <1>5, <1>7, <1>8, <1>18

\* SduInv of the next state, from the next list.
LEMMA SduInvNext ==
    ASSUME ListOK(input_sdus'), buffer_occupancy' = SumTo(LeftOf(input_sdus'), Len(input_sdus'))
    PROVE  SduInv'
  BY DEF SduInv, SdusOK, Occupied, Left, ListOK, LeftOf

\* The occupancy is a natural number.
LEMMA OccupancyIs == ASSUME SduInv PROVE buffer_occupancy \in Nat
  <1>1. SdusOK /\ buffer_occupancy = SumTo(Left, Len(input_sdus))
    BY DEF SduInv, Occupied
  <1>2. PICK n : n = Len(input_sdus)
    OBVIOUS
  <1>3. n \in Nat /\ Left \in [1 .. n -> Int] /\ \A k \in 1 .. n : Left[k] >= 0
    BY <1>1, <1>2, LeftIs
  <1>4. 0 \in 0 .. n /\ n \in 0 .. n
    BY <1>3
  <1>5. SumTo(Left, 0) <= SumTo(Left, n)
    BY <1>3, <1>4, SumsGrow
  <1>6. SumTo(Left, 0) = 0 /\ SumTo(Left, n) \in Int
    BY <1>3, <1>4, SumToIs
  <1> QED BY <1>1, <1>2, <1>5, <1>6

\* A new SDU.
LEMMA DataReqSdus ==
    ASSUME SduInv, sdu_sizes \in Seq(UmSduSizes), NEW size \in UmSduSizes, UmDataReq(size)
    PROVE  SduInv'
  <1>1. PICK new : new = [id |-> Len(sdu_sizes) + 1, size |-> size, remaining |-> size]
    OBVIOUS
  <1>2. size \in Nat \ {0} /\ Len(sdu_sizes) \in Nat
    BY UmTxAssumption
  <1>3. new \in SduRecords /\ new.remaining = size /\ new.size = size
    BY <1>1, <1>2 DEF SduRecords
  <1>4. PICK n, s : n = Len(input_sdus) /\ s = Append(input_sdus, new)
    OBVIOUS
  <1>5. SdusOK /\ input_sdus \in Seq(SduRecords) /\ n \in Nat /\ Left \in [1 .. n -> Int]
    BY <1>4, LeftIs DEF SduInv, SdusOK
  <1>6. s \in Seq(SduRecords) /\ Len(s) = n + 1 /\ s[n + 1] = new
        /\ \A j \in 1 .. n : s[j] = input_sdus[j]
    BY <1>3, <1>4, <1>5, AppendIs
  <1>7. \A j \in 1 .. n : s[j].remaining <= s[j].size /\ s[j].remaining = Left[j] /\ s[j].remaining \in Nat
    BY <1>4, <1>5, <1>6, SduIs
  <1>8. \A j \in 1 .. n + 1 : j \in 1 .. n \/ j = n + 1
    BY <1>5
  <1>9. \A j \in 1 .. n + 1 : s[j].remaining <= s[j].size /\ s[j].remaining \in Nat
    BY <1>2, <1>3, <1>6, <1>7, <1>8
  <1>10. ListOK(s)
    BY <1>6, <1>9 DEF ListOK
  <1>11. PICK g : g = LeftOf(s)
    OBVIOUS
  <1>12. g \in [1 .. n + 1 -> Int] /\ g[n + 1] = size /\ \A j \in 1 .. n : Left[j] = g[j]
    <2>1. n + 1 \in 1 .. n + 1 /\ \A j \in 1 .. n : j \in 1 .. n + 1
      BY <1>5
    <2> QED BY <1>3, <1>6, <1>7, <1>9, <1>11, <2>1 DEF LeftOf
  <1>13. SumTo(g, n + 1) = SumTo(Left, n) + size
    <2>1. n + 1 \in Nat /\ n + 1 \in 1 .. n + 1 /\ (n + 1) - 1 = n /\ n \in 0 .. n /\ n <= n + 1
      BY <1>5
    <2>2. PICK m \in Nat : m = n + 1
      BY <2>1
    <2>3. SumTo(Left, n) = SumTo(g, n)
      <3>1. g \in [1 .. m -> Int] /\ n <= m
        BY <1>12, <2>1, <2>2
      <3> QED BY <1>5, <1>12, <2>1, <3>1, SumsSame, ZenonT(40)
    <2>4. SumTo(g, m) = SumTo(g, m - 1) + g[m]
      <3>1. g \in [1 .. m -> Int] /\ m \in 1 .. m
        BY <1>12, <2>1, <2>2
      <3> QED BY <3>1, SumToIs
    <2> QED BY <1>12, <2>1, <2>2, <2>3, <2>4
  <1>14. input_sdus' = s /\ buffer_occupancy' = SumTo(Left, n) + size
    BY <1>1, <1>4 DEF UmDataReq, SduInv, Occupied
  <1> QED BY <1>6, <1>10, <1>11, <1>13, <1>14, SduInvNext

\* Bytes nothing was copied to, if there are any.
LEMMA GarbageIs == ASSUME NEW e \in Int PROVE [j \in 1 .. e |-> Garbage] \in Seq(Byte)
  <1>1. Garbage \in Byte
    BY DEF Garbage, Byte
  <1>2. CASE e \in Nat
    BY <1>1, <1>2
  <1>3. CASE e < 0
    <2>1. 1 .. e = 1 .. 0
      BY <1>3
    <2>2. [j \in 1 .. 0 |-> Garbage] \in Seq(Byte)
      BY <1>1
    <2> QED BY <2>1, <2>2
  <1> QED BY <1>2, <1>3

\* The PDU carries what is left of i - 1 SDUs and w bytes of the one after them.
Carries(p, i, w) ==
    /\ p.starts <=> input_sdus[1].remaining = input_sdus[1].size
    /\ p.ends <=> Left[i] = w
    /\ Len(p.pieces) = i
    /\ \A j \in 1 .. i : p.pieces[j] = NextBytes(j, IF j = i THEN w ELSE Left[j])

\* One PDU for MAC: no assertion fails, and the list loses what the PDU carries.
LEMMA SegmentSdus ==
    ASSUME SduInv, vt_us \in Nat, NEW grant \in UmGrants, UmSegment(grant)
    PROVE  /\ SduInv' /\ um_fatal' = um_fatal /\ vt_us' = vt_us + 1
           /\ \E p \in GoodPdus :
                 /\ p.n = vt_us /\ p.sn = vt_us % SnModulo /\ air' = air \cup {p}
                 /\ \E i \in 1 .. Len(input_sdus) : \E w \in 1 .. Left[i] :
                       /\ input_sdus' = IF Left[i] = w THEN AfterFill(i, 0) ELSE AfterFill(i - 1, w)
                       /\ ShortSn => Carries(p, i, w)
  <1>1. grant \in Nat /\ grant > MinHeader /\ input_sdus # <<>>
    BY UmTxAssumption DEF UmSegment
  <1>2. PICK room, test, fill : /\ room = DataPduSize(grant) - MinHeader
                                /\ test = TestPass(room)
                                /\ fill = FillPass(room - test.cut)
    OBVIOUS
  <1>3. PICK i \in 1 .. Len(input_sdus) :
           \E w \in 1 .. Left[i] : Agree(test, fill, i, w) /\ w = RoomAfter(room - test.cut, i - 1)
    BY <1>1, <1>2, PassesAgree
  <1>4. PICK w \in 1 .. Left[i] : Agree(test, fill, i, w) /\ w = RoomAfter(room - test.cut, i - 1)
    BY <1>3
  <1>5. SdusOK /\ buffer_occupancy = SumTo(Left, Len(input_sdus))
    BY DEF SduInv, Occupied
  <1>6. /\ Len(fill.pieces) = i /\ test.num_li = i - 1 /\ ~fill.assert /\ ~fill.more
        /\ Len(fill.pieces[i]) = w /\ (fill.ends <=> Left[i] = w)
    BY <1>4 DEF Agree
  <1>7. SumLen(fill.pieces) = SumTo(Left, i - 1) + w
    BY <1>4, <1>5, PayloadIs
  <1>8. PICK extra : extra = TbSize(DataPduSize(grant), test, fill) - MinHeader
                               - LiBytes(i - 1) - SumLen(fill.pieces)
    OBVIOUS
  <1>9. PICK p : p = [n |-> vt_us, sn |-> vt_us % SnModulo,
                       starts |-> input_sdus[1].remaining = input_sdus[1].size,
                       ends |-> fill.ends,
                       pieces |-> [fill.pieces EXCEPT ![i] =
                                      fill.pieces[i] \o [j \in 1 .. extra |-> Garbage]]]
    OBVIOUS
  <1>10. /\ um_fatal' = um_fatal /\ vt_us' = vt_us + 1 /\ air' = air \cup {p}
         /\ input_sdus' = IF fill.ends THEN AfterFill(i, 0) ELSE AfterFill(i - 1, w)
         /\ buffer_occupancy' = buffer_occupancy - SumLen(fill.pieces)
    <2>1. ~(fill.assert \/ fill.more \/ Len(fill.pieces) - 1 # test.num_li)
      BY <1>6
    <2>2. um_fatal' = um_fatal /\ vt_us' = vt_us + 1
      BY <1>2, <2>1 DEF UmSegment
    <2>3. buffer_occupancy' = buffer_occupancy - SumLen(fill.pieces)
      BY <1>2, <2>1 DEF UmSegment
    <2>4. input_sdus' = IF fill.ends THEN AfterFill(i, 0) ELSE AfterFill(i - 1, w)
      <3>1. input_sdus' = IF fill.ends THEN AfterFill(Len(fill.pieces), 0)
                          ELSE AfterFill(Len(fill.pieces) - 1, Len(fill.pieces[Len(fill.pieces)]))
        BY <1>2, <2>1 DEF UmSegment
      <3> QED BY <1>6, <3>1
    <2>5. air' = air \cup {p}
      <3>1. PICK n : n = Len(fill.pieces)
        OBVIOUS
      <3>2. air' = air \cup
               {[n |-> vt_us, sn |-> vt_us % SnModulo,
                 starts |-> input_sdus[1].remaining = input_sdus[1].size,
                 ends |-> fill.ends,
                 pieces |-> [fill.pieces EXCEPT ![n] = fill.pieces[n] \o
                    [j \in 1 .. TbSize(DataPduSize(grant), test, fill) - MinHeader
                                  - LiBytes(n - 1) - SumLen(fill.pieces) |-> Garbage]]]}
        BY <1>2, <2>1, <3>1 DEF UmSegment
      <3> QED BY <1>6, <1>8, <1>9, <3>1, <3>2
    <2> QED BY <2>2, <2>3, <2>4, <2>5
  <1>11. /\ SumTo(Left, i) = SumTo(Left, i - 1) + Left[i] /\ SumTo(Left, i - 1) \in Int /\ Left[i] \in Int
         /\ SumTo(Left, Len(input_sdus)) \in Int
    <2>1. Len(input_sdus) \in Nat
      BY <1>5, LeftIs
    <2>2. i - 1 \in 0 .. Len(input_sdus) /\ Len(input_sdus) \in 0 .. Len(input_sdus)
      BY <2>1
    <2> QED BY <1>5, <2>1, <2>2, LeftIs
  <1>12. ASSUME fill.ends PROVE SduInv'
    <2>1. input_sdus' = AfterFill(i, 0) /\ w = Left[i]
      BY <1>6, <1>10, <1>12
    <2>2. buffer_occupancy' = SumTo(Left, Len(input_sdus)) - SumTo(Left, i)
      BY <1>5, <1>7, <1>10, <1>11, <2>1
    <2>3. ListOK(input_sdus') /\ buffer_occupancy' = SumTo(LeftOf(input_sdus'), Len(input_sdus'))
      BY <1>5, <2>1, <2>2, AfterWhole
    <2> QED BY <2>3, SduInvNext
  <1>13. ASSUME ~fill.ends PROVE SduInv'
    <2>1. input_sdus' = AfterFill(i - 1, w) /\ w # Left[i]
      BY <1>6, <1>10, <1>13
    <2>2. buffer_occupancy' = SumTo(Left, Len(input_sdus)) - SumTo(Left, i - 1) - w
      BY <1>5, <1>7, <1>10, <1>11
    <2>3. ListOK(input_sdus') /\ buffer_occupancy' = SumTo(LeftOf(input_sdus'), Len(input_sdus'))
      BY <1>5, <2>1, <2>2, AfterPart
    <2> QED BY <2>3, SduInvNext
  <1>14. extra \in Int /\ (ShortSn => extra = 0)
    <2>1. fill.room \in Int /\ fill.room = 0 /\ test.shrink \in Int /\ test.shrink = test.cut
      BY <1>4 DEF Agree, FillStates
    <2>2. MinHeader \in Int /\ LiBytes(i - 1) \in Int /\ SumLen(fill.pieces) \in Int
      <3>1. i - 1 \in Nat
        BY <1>5, LeftIs
      <3> QED BY <1>7, <1>11, <3>1, LiBytesIs DEF MinHeader
    <2>3. DataPduSize(grant) \in Int
      <3>1. Len(input_sdus) - 1 \in Nat /\ buffer_occupancy \in Nat
        BY <1>5, OccupancyIs, LeftIs
      <3>2. LiBytes(Len(input_sdus) - 1) \in Nat
        BY <3>1, LiBytesIs
      <3>3. buffer_occupancy + MinHeader + LiBytes(Len(input_sdus) - 1) \in Int
        BY <2>2, <3>1, <3>2
      <3> QED BY <1>1, <3>3, MinOfTwo DEF DataPduSize
    <2>4. ASSUME ShortSn PROVE extra = 0
      <3>1. extra = DataPduSize(grant) - fill.room - test.shrink - MinHeader
                    - LiBytes(i - 1) - SumLen(fill.pieces)
        BY <1>8, <2>4 DEF TbSize
      <3>2. w = room - test.cut - SumTo(Left, i - 1) - LiBytes(i - 1)
        BY <1>4 DEF RoomAfter
      <3>3. w \in Int
        BY <1>11
      <3>4. PICK size, c, sum, li, head :
               /\ size = DataPduSize(grant) /\ c = test.shrink /\ sum = SumTo(Left, i - 1)
               /\ li = LiBytes(i - 1) /\ head = MinHeader
        OBVIOUS
      <3>5. size \in Int /\ c \in Int /\ sum \in Int /\ li \in Int /\ head \in Int
        BY <1>11, <2>1, <2>2, <2>3, <3>4
      <3>6. extra = size - 0 - c - head - li - (sum + w) /\ w = size - head - c - sum - li
        BY <1>2, <1>7, <2>1, <3>1, <3>2, <3>4
      <3> QED BY <3>3, <3>5, <3>6
    <2> QED BY <1>8, <2>1, <2>2, <2>3, <2>4 DEF TbSize
  <1>15. p \in GoodPdus /\ p.n = vt_us /\ p.sn = vt_us % SnModulo /\ (ShortSn => Carries(p, i, w))
    <2>1. PICK s, tail : s = fill.pieces /\ tail = [j \in 1 .. extra |-> Garbage]
      OBVIOUS
    <2>2. s \in Seq(Seq(Byte)) /\ Len(s) = i /\ fill.ends \in BOOLEAN /\ i \in 1 .. Len(s)
      <3>1. i \in Nat /\ i >= 1
        BY <1>5, LeftIs
      <3> QED BY <1>4, <2>1, <3>1 DEF Agree, FillStates
    <2>3. tail \in Seq(Byte)
      BY <1>14, <2>1, GarbageIs
    <2>4. s[i] \o tail \in Seq(Byte)
      BY <2>2, <2>3
    <2>5. PICK q : q = [s EXCEPT ![i] = s[i] \o tail]
      OBVIOUS
    <2>6. q \in Seq(Seq(Byte)) /\ Len(q) = i /\ q # <<>>
      BY <2>2, <2>4, <2>5
    <2>7. vt_us % SnModulo \in Sns
      BY SmallMod
    <2>8. PICK b \in BOOLEAN : b = (input_sdus[1].remaining = input_sdus[1].size)
      OBVIOUS
    <2>9. p = [n |-> vt_us, sn |-> vt_us % SnModulo, starts |-> b, ends |-> fill.ends, pieces |-> q]
      BY <1>9, <2>1, <2>5, <2>8
    <2>10. p \in Pdus /\ p.pieces = q /\ p.n = vt_us /\ p.sn = vt_us % SnModulo
           /\ p.starts = b /\ p.ends = fill.ends
      BY <2>2, <2>6, <2>7, <2>9 DEF Pdus, Byte
    <2>11. ASSUME ShortSn PROVE Carries(p, i, w)
      <3>1. tail = <<>>
        <4>1. extra = 0
          BY <1>14, <2>11
        <4>2. tail = [j \in 1 .. 0 |-> Garbage]
          BY <2>1, <4>1
        <4>3. Len(tail) = 0
          BY <4>2
        <4> QED BY <2>3, <4>3
      <3>2. s[i] \in Seq(Byte)
        BY <2>2
      <3>3. s[i] \o tail = s[i]
        BY <3>1, <3>2
      <3>4. q = s
        BY <2>2, <2>5, <3>3
      <3>5. \A j \in 1 .. i : s[j] = NextBytes(j, IF j = i THEN w ELSE Left[j])
        <4>1. i \in Nat /\ \A j \in 1 .. i : j = i \/ j \in 1 .. i - 1
          BY <2>2
        <4> QED BY <1>4, <2>1, <4>1 DEF Agree
      <3> QED BY <1>6, <2>2, <2>8, <2>10, <3>4, <3>5 DEF Carries
    <2> QED BY <2>6, <2>10, <2>11 DEF GoodPdus
  <1>16. SduInv'
    BY <1>12, <1>13
  <1>17. input_sdus' = IF Left[i] = w THEN AfterFill(i, 0) ELSE AfterFill(i - 1, w)
    <2>1. CASE Left[i] = w
      <3>1. fill.ends
        BY <1>6, <2>1
      <3> QED BY <1>10, <2>1, <3>1
    <2>2. CASE Left[i] # w
      <3>1. ~fill.ends
        BY <1>6, <2>2
      <3> QED BY <1>10, <2>2, <3>1
    <2> QED BY <2>1, <2>2
  <1> QED BY <1>10, <1>15, <1>16, <1>17

\* The invariant of the transmitting side.
SegmentInv == SduInv /\ vt_us \in Nat /\ sdu_sizes \in Seq(UmSduSizes) /\ um_fatal = "none"

\* The steps of the bearer.
LEMMA SegmentInvStep == ASSUME SegmentInv, [UmNext]_umVars PROVE SegmentInv'
  <1>1. ASSUME NEW size \in UmSduSizes, UpperDataReq(size) PROVE SegmentInv'
    <2>1. UmDataReq(size)
      BY <1>1 DEF UpperDataReq
    <2>2. SduInv'
      BY <2>1, DataReqSdus DEF SegmentInv
    <2>3. sdu_sizes' \in Seq(UmSduSizes) /\ um_fatal' = "none" /\ vt_us' \in Nat
      BY <2>1 DEF UmDataReq, SegmentInv
    <2> QED BY <2>2, <2>3 DEF SegmentInv
  <1>2. ASSUME NEW grant \in UmGrants, MacGrant(grant) PROVE SegmentInv'
    <2>1. UmSegment(grant)
      BY <1>2 DEF MacGrant
    <2>2. SduInv' /\ um_fatal' = um_fatal /\ vt_us' = vt_us + 1
      BY <2>1, SegmentSdus DEF SegmentInv
    <2>3. sdu_sizes' = sdu_sizes
      BY <2>1 DEF UmSegment
    <2> QED BY <2>2, <2>3 DEF SegmentInv
  <1>3. ASSUME UNCHANGED <<vt_us, input_sdus, buffer_occupancy, sdu_sizes, um_fatal>> PROVE SegmentInv'
    BY <1>3 DEF SegmentInv, SduInv, SdusOK, Occupied, Left
  <1>4. ASSUME NEW m \in air, Lose(m) PROVE SegmentInv'
    BY <1>3, <1>4 DEF Lose
  <1>5. ASSUME NEW m \in air, NEW stays \in BOOLEAN, Arrive(m, stays) PROVE SegmentInv'
    BY <1>3, <1>5 DEF Arrive
  <1>6. CASE ReorderingExpires
    BY <1>3, <1>6 DEF ReorderingExpires, umTxVars
  <1>7. CASE UNCHANGED umVars
    BY <1>3, <1>7 DEF umVars, umTxVars
  <1> QED BY <1>1, <1>2, <1>4, <1>5, <1>6, <1>7 DEF UmNext

\* The invariant holds of the start.
LEMMA SegmentInvInit == ASSUME UmInit PROVE SegmentInv
  <1>1. input_sdus = <<>> /\ buffer_occupancy = 0 /\ sdu_sizes = <<>> /\ um_fatal = "none" /\ vt_us = 0
    BY DEF UmInit, UmTxInit
  <1>2. input_sdus \in Seq(SduRecords) /\ Len(input_sdus) = 0 /\ sdu_sizes \in Seq(UmSduSizes)
    BY <1>1
  <1>3. SdusOK
    BY <1>2 DEF SdusOK
  <1>4. SumTo(Left, 0) = 0
    BY <1>3, LeftIs
  <1> QED BY <1>1, <1>2, <1>3, <1>4 DEF SegmentInv, SduInv, Occupied

(***************************************************************************)
(* For every modulus, grant and size of SDUs and either header, the second *)
(* pass of rlc_um_segment_5 and rlc_um_segment_10 agrees with the first:   *)
(* none of their assertions stops the process.                             *)
(***************************************************************************)
THEOREM UmSegmentationNeverAsserts == UmSpec => []SegmentationNeverAsserts
  <1>1. UmInit => SegmentInv
    BY SegmentInvInit
  <1>2. SegmentInv /\ [UmNext]_umVars => SegmentInv'
    BY SegmentInvStep
  <1>3. SegmentInv => SegmentationNeverAsserts
    BY DEF SegmentInv, SegmentationNeverAsserts
  <1> QED BY <1>1, <1>2, <1>3, PTL DEF UmSpec

-----------------------------------------------------------------------------
(* The receiving entity. *)

RxRecords == [win : {0, Window}, ur : Sns, ux : Sns, uh : Sns, last : Sns,
              dar : [Sns -> GoodPdus \cup {NoPdu}], running : BOOLEAN,
              missing : BOOLEAN, sdu : Seq(Byte), out : Seq(Seq(Byte))]

\* The fields of the entity.
LEMMA RxFields ==
    ASSUME NEW r \in RxRecords
    PROVE  /\ r.win \in {0, Window} /\ r.ur \in Sns /\ r.ux \in Sns /\ r.uh \in Sns /\ r.last \in Sns
           /\ r.dar \in [Sns -> GoodPdus \cup {NoPdu}]
           /\ r.running \in BOOLEAN /\ r.missing \in BOOLEAN
           /\ r.sdu \in Seq(Byte) /\ r.out \in Seq(Seq(Byte))
  BY DEF RxRecords

\* The window and the timer are the same.
SameWindow(t, r) ==
    t.win = r.win /\ t.ur = r.ur /\ t.ux = r.ux /\ t.uh = r.uh /\ t.running = r.running

\* The pieces of a PDU join the SDU in construction.
LEMMA ReassemblyIs ==
    ASSUME NEW r \in RxRecords, NEW pdu \in GoodPdus
    PROVE  /\ Reassembly(r, pdu) \in RxRecords
           /\ SameWindow(Reassembly(r, pdu), r)
           /\ Reassembly(r, pdu).dar = r.dar
  <1>1. /\ pdu.pieces \in Seq(Seq(Byte)) /\ pdu.pieces # <<>>
        /\ pdu.starts \in BOOLEAN /\ pdu.ends \in BOOLEAN
    BY DEF GoodPdus, Pdus, Byte
  <1>2. PICK pieces, m, begun :
           /\ pieces = IF Skipped(r, pdu) THEN Tail(pdu.pieces) ELSE pdu.pieces
           /\ m = Len(pieces)
           /\ begun = IF pdu.starts THEN <<>> ELSE r.sdu
    OBVIOUS
  <1>3. PICK joined : joined = [i \in 1 .. m |-> IF i = 1 THEN begun \o pieces[1] ELSE pieces[i]]
    OBVIOUS
  <1>4. PICK out, sdu, missing :
           /\ out = r.out \o SubSeq(joined, 1, IF pdu.ends THEN m ELSE m - 1)
           /\ sdu = IF m = 0 THEN begun ELSE IF pdu.ends THEN <<>> ELSE joined[m]
           /\ missing = (m = 0 /\ ~pdu.ends)
    OBVIOUS
  <1>5. Reassembly(r, pdu) = [r EXCEPT !.out = out, !.sdu = sdu, !.missing = missing]
    BY <1>2, <1>3, <1>4 DEF Reassembly
  <1>6. r.sdu \in Seq(Byte) /\ r.out \in Seq(Seq(Byte))
    BY RxFields
  <1>7. pieces \in Seq(Seq(Byte)) /\ m \in Nat /\ begun \in Seq(Byte)
    <2>1. Tail(pdu.pieces) \in Seq(Seq(Byte))
      BY <1>1, HeadTailProperties
    <2>2. pieces \in Seq(Seq(Byte))
      BY <1>1, <1>2, <2>1
    <2>3. begun \in Seq(Byte)
      BY <1>2, <1>6
    <2> QED BY <1>2, <2>2, <2>3
  <1>8. ASSUME NEW i \in 1 .. m PROVE joined[i] \in Seq(Byte)
    <2>1. pieces[i] \in Seq(Byte)
      BY <1>2, <1>7
    <2>2. CASE i = 1
      BY <1>3, <1>7, <2>1, <2>2
    <2>3. CASE i # 1
      BY <1>3, <2>1, <2>3
    <2> QED BY <2>2, <2>3
  <1>9. PICK e \in Int : e = IF pdu.ends THEN m ELSE m - 1
    BY <1>7
  <1>10. \A i \in 1 .. e : joined[i] \in Seq(Byte)
    <2>1. \A i \in 1 .. e : i \in 1 .. m
      BY <1>7, <1>9
    <2> QED BY <1>8, <2>1
  <1>11. SubSeq(joined, 1, e) \in Seq(Seq(Byte))
    BY <1>10, SubSeqProperties
  <1>12. out \in Seq(Seq(Byte))
    BY <1>4, <1>6, <1>9, <1>11
  <1>13. sdu \in Seq(Byte)
    <2>1. CASE m = 0
      BY <1>4, <1>7, <2>1
    <2>2. CASE m # 0
      <3>1. m \in 1 .. m
        BY <1>7, <2>2
      <3>2. joined[m] \in Seq(Byte)
        BY <1>8, <3>1
      <3> QED BY <1>4, <2>2, <3>2
    <2> QED BY <2>1, <2>2
  <1>14. missing \in BOOLEAN
    BY <1>4
  <1>15. PICK y : y = [r EXCEPT !.out = out, !.sdu = sdu]
    OBVIOUS
  <1>16. y \in RxRecords /\ SameWindow(y, r) /\ y.dar = r.dar
    BY <1>12, <1>13, <1>15 DEF RxRecords, SameWindow
  <1>17. Reassembly(r, pdu) = [y EXCEPT !.missing = missing]
    BY <1>5, <1>15 DEF RxRecords
  <1> QED BY <1>14, <1>16, <1>17 DEF RxRecords, SameWindow

\* One turn of rlc_um_try_reassembly frees the slot.
LEMMA ReassemblySnIs ==
    ASSUME NEW r \in RxRecords, NEW sn \in Sns
    PROVE  /\ ReassemblySn(r, sn) \in RxRecords
           /\ SameWindow(ReassemblySn(r, sn), r)
           /\ ReassemblySn(r, sn).dar = [r.dar EXCEPT ![sn] = NoPdu]
  <1>1. r.dar \in [Sns -> GoodPdus \cup {NoPdu}] /\ r.sdu \in Seq(Byte)
    BY RxFields
  <1>2. CASE r.dar[sn] = NoPdu
    <2>1. PICK x : x = [r EXCEPT !.missing = TRUE, !.sdu = <<>>]
      OBVIOUS
    <2>2. x \in RxRecords /\ SameWindow(x, r) /\ x.dar = r.dar
      <3>1. PICK empty : empty \in Seq(Byte) /\ empty = <<>>
        <4>1. <<>> \in Seq(Byte)
          OBVIOUS
        <4> QED BY <4>1, Zenon
      <3>2. PICK y : y = [r EXCEPT !.sdu = empty]
        OBVIOUS
      <3>3. y \in RxRecords /\ SameWindow(y, r) /\ y.dar = r.dar
        BY <3>1, <3>2 DEF RxRecords, SameWindow
      <3>4. x = [y EXCEPT !.missing = TRUE]
        BY <2>1, <3>1, <3>2 DEF RxRecords
      <3> QED BY <3>3, <3>4 DEF RxRecords, SameWindow
    <2>3. [r.dar EXCEPT ![sn] = NoPdu] = r.dar
      BY <1>1, <1>2
    <2>4. ReassemblySn(r, sn) = x
      BY <1>2, <2>1 DEF ReassemblySn
    <2> QED BY <2>2, <2>3, <2>4
  <1>3. CASE r.dar[sn] # NoPdu
    <2>1. PICK sdu, dar : sdu = (IF Succ(r.last) = sn THEN r.sdu ELSE <<>>)
                          /\ dar = [r.dar EXCEPT ![sn] = NoPdu]
      OBVIOUS
    <2>2. sdu \in Seq(Byte) /\ dar \in [Sns -> GoodPdus \cup {NoPdu}]
      BY <1>1, <2>1
    <2>3. PICK y : y = [r EXCEPT !.sdu = sdu, !.last = sn]
      OBVIOUS
    <2>4. PICK x : x = [y EXCEPT !.dar = dar]
      OBVIOUS
    <2>5. y \in RxRecords /\ SameWindow(y, r) /\ y.dar = r.dar
      BY <2>2, <2>3 DEF RxRecords, SameWindow
    <2>6. x \in RxRecords /\ SameWindow(x, r) /\ x.dar = dar
      BY <2>2, <2>4, <2>5 DEF RxRecords, SameWindow
    <2>7. x = [r EXCEPT !.sdu = IF Succ(r.last) = sn THEN @ ELSE <<>>, !.last = sn, !.dar[sn] = NoPdu]
      BY <2>1, <2>3, <2>4 DEF RxRecords
    <2>8. ReassemblySn(r, sn) = Reassembly(x, r.dar[sn])
      BY <1>3, <2>7 DEF ReassemblySn
    <2>9. r.dar[sn] \in GoodPdus
      BY <1>1, <1>3
    <2>10. /\ Reassembly(x, r.dar[sn]) \in RxRecords
           /\ SameWindow(Reassembly(x, r.dar[sn]), x)
           /\ Reassembly(x, r.dar[sn]).dar = x.dar
      BY <2>6, <2>9, ReassemblyIs
    <2> QED BY <2>1, <2>6, <2>8, <2>10 DEF SameWindow
  <1> QED BY <1>2, <1>3

\* The least element, when it is known.
LEMMA MinIs ==
    ASSUME NEW T \in SUBSET Int, NEW d \in T, \A y \in T : d <= y
    PROVE  Min(T) = d
  <1>1. PICK m : m = Min(T)
    OBVIOUS
  <1>2. m \in T /\ \A y \in T : m <= y
    BY <1>1, Zenon DEF Min
  <1> QED BY <1>1, <1>2

\* rlc_um_try_reassembly, when VR(UH) is not met before the end: a turn for every number.
Turns(r, start, end, n) ==
    \E f \in [0 .. n -> RxRecords] :
       /\ f[0] = r /\ TryReassembly(r, start, end) = f[n]
       /\ \A k \in 1 .. n : f[k] = ReassemblySn(f[k - 1], (start + (k - 1)) % SnModulo)

LEMMA TryReassemblyTurns ==
    ASSUME NEW r \in RxRecords, NEW start \in Sns, NEW end \in Sns, start # end,
           \A k \in 1 .. Ahead(end, start) - 1 : (start + k) % SnModulo # r.uh
    PROVE  Turns(r, start, end, Ahead(end, start))
  <1>1. PICK n : n = Ahead(end, start)
    OBVIOUS
  <1>2. SnModulo \in Nat \ {0} /\ Sns = 0 .. SnModulo - 1
    BY Modulus
  <1>3. n \in 1 .. SnModulo - 1 /\ n \in Nat /\ n \in 0 .. n
    <2>1. n \in 0 .. SnModulo - 1 /\ n # 0
      BY <1>1, <1>2, AheadIs, ReachIs
    <2> QED BY <1>2, <2>1
  <1>4. Min({k \in 1 .. SnModulo : (start + k) % SnModulo \in {r.uh, end}}) = n
    <2> DEFINE T == {k \in 1 .. SnModulo : (start + k) % SnModulo \in {r.uh, end}}
    <2>1. T \in SUBSET Int
      BY <1>2
    <2>2. n \in T
      <3>1. (start + n) % SnModulo = end /\ n \in 1 .. SnModulo
        BY <1>1, <1>2, <1>3, ReachIs
      <3> QED BY <3>1
    <2>3. ASSUME NEW y \in T PROVE n <= y
      <3>1. y \in 1 .. SnModulo /\ y \in 0 .. SnModulo
        BY <1>2
      <3>2. CASE (start + y) % SnModulo = end
        <4>1. y = n \/ (y = SnModulo /\ n = 0)
          BY <1>1, <3>1, <3>2, ReachIs
        <4> QED BY <1>2, <1>3, <4>1
      <3>3. CASE (start + y) % SnModulo = r.uh
        <4>1. y \notin 1 .. n - 1
          BY <1>1, <3>3
        <4> QED BY <1>2, <1>3, <3>1, <4>1
      <3> QED BY <3>2, <3>3
    <2> HIDE DEF T
    <2>4. Min(T) = n
      BY <2>1, <2>2, <2>3, MinIs
    <2> QED BY <2>4 DEF T
  <1> DEFINE Slot(k) == (start + k - 1) % SnModulo
             body == [p \in RxRecords \X Nat |->
                        IF p[2] \in 1 .. n THEN ReassemblySn(p[1], Slot(p[2])) ELSE p[1]]
             IsLoop(f) == f = [k \in 0 .. n |->
                                 IF k = 0 THEN r ELSE ReassemblySn(f[k - 1], (start + k - 1) % SnModulo)]
  <1>5. ASSUME NEW k \in 1 .. n PROVE Slot(k) \in Sns /\ Slot(k) = (start + (k - 1)) % SnModulo
    <2>1. k - 1 \in 0 .. SnModulo /\ start + k - 1 = start + (k - 1)
      BY <1>2, <1>3
    <2> QED BY <2>1, StepIs
  <1> HIDE DEF Slot
  <1>6. body \in [RxRecords \X Nat -> RxRecords]
    <2>1. ASSUME NEW p \in RxRecords \X Nat
          PROVE  (IF p[2] \in 1 .. n THEN ReassemblySn(p[1], Slot(p[2])) ELSE p[1]) \in RxRecords
      <3>1. p[1] \in RxRecords /\ p[2] \in Nat
        OBVIOUS
      <3>2. p[2] \in 1 .. n => ReassemblySn(p[1], Slot(p[2])) \in RxRecords
        BY <1>5, <3>1, ReassemblySnIs
      <3> QED BY <3>1, <3>2
    <2> QED BY <2>1
  <1>7. ASSUME NEW t \in RxRecords, NEW k \in 1 .. n PROVE body[<<t, k>>] = ReassemblySn(t, Slot(k))
    <2>1. <<t, k>> \in RxRecords \X Nat
      BY <1>3
    <2> QED BY <2>1
  <1> HIDE DEF body
  <1>8. PICK g \in [0 .. n -> RxRecords] : g[0] = r /\ \A k \in 1 .. n : g[k] = body[<<g[k - 1], k>>]
    <2>1. Passes(RxRecords, r, body, n) # {}
      BY <1>3, <1>6, RecursionExists
    <2> QED BY <2>1 DEF Passes
  <1>9. IsLoop(g)
    <2>1. ASSUME NEW k \in 0 .. n, k # 0
          PROVE  g[k] = ReassemblySn(g[k - 1], (start + k - 1) % SnModulo)
      <3>1. k \in 1 .. n /\ k - 1 \in 0 .. n
        BY <1>3, <2>1
      <3>2. g[k - 1] \in RxRecords
        BY <1>8, <3>1
      <3> QED BY <1>7, <1>8, <3>1, <3>2 DEF Slot
    <2> QED BY <1>8, <2>1
  <1> DEFINE f == CHOOSE h : IsLoop(h)
  <1>10. IsLoop(f)
    BY <1>9, Zenon
  <1>11. TryReassembly(r, start, end) = f[n]
    BY <1>4 DEF TryReassembly
  <1> HIDE DEF f
  <1>12. f[0] = r
    BY <1>3, <1>10
  <1>13. \A k \in 1 .. n : f[k] = ReassemblySn(f[k - 1], Slot(k))
    <2>1. \A k \in 1 .. n : k \in 0 .. n /\ k # 0
      BY <1>3
    <2> QED BY <1>10, <2>1 DEF Slot
  <1> HIDE DEF IsLoop
  <1> DEFINE T == {k \in 0 .. n : f[k] \in RxRecords}
  <1>14. 0 \in T
    BY <1>3, <1>12
  <1>15. ASSUME NEW k \in 0 .. n - 1, k \in T PROVE k + 1 \in T
    <2>1. k + 1 \in 1 .. n /\ (k + 1) - 1 = k /\ k + 1 \in 0 .. n
      BY <1>3
    <2>2. f[k + 1] = ReassemblySn(f[k], Slot(k + 1)) /\ Slot(k + 1) \in Sns
      BY <1>5, <1>13, <2>1
    <2>3. f[k] \in RxRecords
      BY <1>15
    <2>4. f[k + 1] \in RxRecords
      BY <2>2, <2>3, ReassemblySnIs
    <2> QED BY <2>1, <2>4
  <1> HIDE DEF T
  <1>16. \A k \in 0 .. n : k \in T
    BY <1>3, <1>14, <1>15, InductionTo
  <1>17. \A k \in 0 .. n : f[k] \in RxRecords
    BY <1>16 DEF T
  <1>18. f \in [0 .. n -> RxRecords]
    BY <1>10, <1>17 DEF IsLoop
  <1>19. \A k \in 1 .. n : f[k] = ReassemblySn(f[k - 1], (start + (k - 1)) % SnModulo)
    BY <1>5, <1>13
  <1>20. Turns(r, start, end, n)
    BY <1>11, <1>12, <1>18, <1>19 DEF Turns
  <1> QED BY <1>1, <1>20

\* What is freed by rlc_um_try_reassembly, and what it leaves.
FreesTo(t, r, start, n) ==
    /\ t \in RxRecords /\ SameWindow(t, r)
    /\ \A k \in 0 .. n - 1 : t.dar[(start + k) % SnModulo] = NoPdu
    /\ \A x \in Sns : t.dar[x] \in {r.dar[x], NoPdu}

\* Those turns free their slots.
LEMMA TryReassemblyIs ==
    ASSUME NEW r \in RxRecords, NEW start \in Sns, NEW end \in Sns, start # end,
           \A k \in 1 .. Ahead(end, start) - 1 : (start + k) % SnModulo # r.uh
    PROVE  FreesTo(TryReassembly(r, start, end), r, start, Ahead(end, start))
  <1>1. PICK n : n = Ahead(end, start)
    OBVIOUS
  <1>2. SnModulo \in Nat \ {0} /\ Sns = 0 .. SnModulo - 1
    BY Modulus
  <1>3. n \in 1 .. SnModulo - 1 /\ n \in Nat /\ n \in 0 .. n
    <2>1. n \in 0 .. SnModulo - 1 /\ n # 0
      BY <1>1, <1>2, AheadIs, ReachIs
    <2> QED BY <1>2, <2>1
  <1>4. PICK f \in [0 .. n -> RxRecords] :
           /\ f[0] = r /\ TryReassembly(r, start, end) = f[n]
           /\ \A k \in 1 .. n : f[k] = ReassemblySn(f[k - 1], (start + (k - 1)) % SnModulo)
    BY <1>1, TryReassemblyTurns DEF Turns
  <1> DEFINE T == {k \in 0 .. n : FreesTo(f[k], r, start, k)}
  <1>5. 0 \in T
    <2>1. FreesTo(r, r, start, 0)
      BY DEF FreesTo, SameWindow
    <2> QED BY <1>3, <1>4, <2>1
  <1>6. ASSUME NEW k \in 0 .. n - 1, k \in T PROVE k + 1 \in T
    <2>1. k + 1 \in 1 .. n /\ (k + 1) - 1 = k /\ k + 1 \in 0 .. n /\ k \in 0 .. SnModulo /\ k \in Nat
      BY <1>2, <1>3
    <2>2. PICK t, s, x : t = f[k] /\ s = (start + k) % SnModulo /\ x = f[k + 1]
      OBVIOUS
    <2>3. s \in Sns /\ s = (start + k) % SnModulo
      BY <2>1, <2>2, StepIs
    <2>4. FreesTo(t, r, start, k)
      BY <1>6, <2>2
    <2>5. x = ReassemblySn(t, s)
      BY <1>4, <2>1, <2>2
    <2>6. x \in RxRecords /\ SameWindow(x, t) /\ x.dar = [t.dar EXCEPT ![s] = NoPdu]
      BY <2>3, <2>4, <2>5, ReassemblySnIs DEF FreesTo
    <2>7. t.dar \in [Sns -> GoodPdus \cup {NoPdu}]
      BY <2>4, RxFields DEF FreesTo
    <2>8. ASSUME NEW j \in 0 .. (k + 1) - 1 PROVE x.dar[(start + j) % SnModulo] = NoPdu
      <3>1. j \in 0 .. SnModulo
        BY <1>2, <1>3, <2>1
      <3>2. (start + j) % SnModulo \in Sns
        BY <3>1, StepIs
      <3>3. CASE j = k
        BY <2>3, <2>6, <2>7, <3>3
      <3>4. CASE j \in 0 .. k - 1
        <4>1. t.dar[(start + j) % SnModulo] = NoPdu
          BY <2>4, <3>4 DEF FreesTo
        <4> QED BY <2>3, <2>6, <2>7, <3>2, <4>1
      <3> QED BY <2>1, <3>3, <3>4
    <2>9. ASSUME NEW y \in Sns PROVE x.dar[y] \in {r.dar[y], NoPdu}
      <3>1. t.dar[y] \in {r.dar[y], NoPdu}
        BY <2>4 DEF FreesTo
      <3> QED BY <2>3, <2>6, <2>7, <3>1
    <2>10. SameWindow(x, r)
      BY <2>4, <2>6 DEF FreesTo, SameWindow
    <2>11. FreesTo(x, r, start, k + 1)
      BY <2>6, <2>8, <2>9, <2>10 DEF FreesTo
    <2> QED BY <2>1, <2>2, <2>11
  <1> HIDE DEF T
  <1>7. n \in T
    BY <1>3, <1>5, <1>6, InductionTo
  <1>8. FreesTo(f[n], r, start, n)
    BY <1>7 DEF T
  <1> QED BY <1>1, <1>4, <1>8

-----------------------------------------------------------------------------
(* The window of the receiver. *)

\* The stored PDUs are between VR(UR) and VR(UH), at most a window apart.
WindowOK(r) ==
    /\ Ahead(r.uh, r.ur) <= r.win
    /\ \A sn \in Sns : r.dar[sn] # NoPdu => Ahead(sn, r.ur) < Ahead(r.uh, r.ur)
\* The timer runs for a number of the window; a multicast channel has none.
TimerOK(r) == r.running => r.win = Window /\ Ahead(r.ux, r.ur) <= Ahead(r.uh, r.ur)

\* VR(UR) moves up, not beyond VR(UH): what stays is ahead of it by as much less.
LEMMA Advance ==
    ASSUME NEW r \in RxRecords, NEW old \in Sns, NEW new \in Sns, old # new,
           Ahead(r.uh, old) = 0 \/ Ahead(new, old) <= Ahead(r.uh, old)
    PROVE  LET t == TryReassembly(r, old, new)
           IN  /\ t \in RxRecords /\ SameWindow(t, r)
               /\ \A x \in Sns : t.dar[x] # NoPdu =>
                     /\ t.dar[x] = r.dar[x]
                     /\ Ahead(x, old) >= Ahead(new, old)
                     /\ Ahead(x, new) = Ahead(x, old) - Ahead(new, old)
  <1>1. PICK d, h, t : /\ d = Ahead(new, old) /\ h = Ahead(r.uh, old)
                       /\ t = TryReassembly(r, old, new)
    OBVIOUS
  <1>2. SnModulo \in Nat \ {0} /\ Sns = 0 .. SnModulo - 1 /\ r.uh \in Sns
    BY Modulus, RxFields
  <1>3. d \in 0 .. SnModulo - 1 /\ h \in 0 .. SnModulo - 1
    BY <1>1, <1>2, AheadIs
  <1>4. ASSUME NEW k \in 1 .. d - 1 PROVE (old + k) % SnModulo # r.uh
    <2>1. k \in 0 .. SnModulo /\ k # h /\ k # SnModulo
      BY <1>1, <1>2, <1>3
    <2> QED BY <1>1, <1>2, <2>1, ReachIs
  <1>5. FreesTo(t, r, old, d)
    BY <1>1, <1>4, TryReassemblyIs
  <1>6. ASSUME NEW x \in Sns, t.dar[x] # NoPdu
        PROVE  t.dar[x] = r.dar[x] /\ Ahead(x, old) >= d /\ Ahead(x, new) = Ahead(x, old) - d
    <2>1. t.dar[x] = r.dar[x]
      BY <1>5, <1>6 DEF FreesTo
    <2>2. Ahead(x, old) \in 0 .. SnModulo - 1 /\ Ahead(x, new) \in 0 .. SnModulo - 1
      BY <1>2, AheadIs
    <2>3. Ahead(x, old) \notin 0 .. d - 1
      <3>1. (old + Ahead(x, old)) % SnModulo = x
        BY ReachIs
      <3> QED BY <1>5, <1>6, <3>1 DEF FreesTo
    <2>4. Ahead(x, old) = IF Ahead(x, new) + d < SnModulo THEN Ahead(x, new) + d
                          ELSE Ahead(x, new) + d - SnModulo
      BY <1>1, AheadOf
    <2> QED BY <1>2, <1>3, <2>1, <2>2, <2>3, <2>4
  <1> QED BY <1>1, <1>5, <1>6 DEF FreesTo

\* The PDU that was stored, and the window before that.
Stored(r, sn) ==
    /\ Ahead(r.uh, r.ur) <= r.win
    /\ \A x \in Sns \ {sn} : r.dar[x] # NoPdu => Ahead(x, r.ur) < Ahead(r.uh, r.ur)
    /\ Ahead(sn, r.uh) < Window \/ Ahead(sn, r.ur) < Ahead(r.uh, r.ur)

\* A field of the window changes.
LEMMA SetUh ==
    ASSUME NEW r \in RxRecords, NEW v \in Sns
    PROVE  LET t == [r EXCEPT !.uh = v]
           IN  /\ t \in RxRecords /\ t.win = r.win /\ t.ur = r.ur /\ t.ux = r.ux /\ t.uh = v
               /\ t.running = r.running /\ t.dar = r.dar
  BY DEF RxRecords

\* The same of VR(UR).
LEMMA SetUr ==
    ASSUME NEW r \in RxRecords, NEW v \in Sns
    PROVE  LET t == [r EXCEPT !.ur = v]
           IN  /\ t \in RxRecords /\ t.win = r.win /\ t.ur = v /\ t.ux = r.ux /\ t.uh = r.uh
               /\ t.running = r.running /\ t.dar = r.dar
  BY DEF RxRecords

\* The window moves up to a PDU beyond it.
LEMMA MoveWindowIs ==
    ASSUME NEW r \in RxRecords, r.win = Window, NEW sn \in Sns, Stored(r, sn)
    PROVE  LET t == MoveWindow(r, sn)
           IN  t \in RxRecords /\ t.win = Window /\ WindowOK(t)
  <1>1. PICK W, M, uh, ur, uh1 :
           W = Window /\ M = SnModulo /\ uh = r.uh /\ ur = r.ur /\ uh1 = Succ(sn)
    OBVIOUS
  <1>2. W \in Nat \ {0} /\ M = W + W /\ uh \in Sns /\ ur \in Sns /\ uh1 \in Sns /\ Sns = 0 .. M - 1
    BY <1>1, Modulus, RxFields, SuccIs
  <1>3. /\ Ahead(sn, uh) \in 0 .. M - 1 /\ Ahead(uh, ur) \in 0 .. W /\ Ahead(sn, ur) \in 0 .. M - 1
        /\ Ahead(uh1, ur) \in 0 .. M - 1 /\ Ahead(ur, uh1) \in 0 .. M - 1
        /\ Ahead(uh1, uh) \in 0 .. M - 1
    <2>1. /\ Ahead(sn, uh) \in Sns /\ Ahead(uh, ur) \in Sns /\ Ahead(sn, ur) \in Sns
          /\ Ahead(uh1, ur) \in Sns /\ Ahead(ur, uh1) \in Sns /\ Ahead(uh1, uh) \in Sns
      BY <1>2, AheadIs
    <2>2. Ahead(uh, ur) <= W
      BY <1>1 DEF Stored
    <2> QED BY <1>2, <2>1, <2>2
  <1>4. CASE Ahead(sn, uh) >= W
    <2>1. InReorderingWindow(r, sn)
      BY <1>1, <1>2, <1>4, ReorderingWindowIs
    <2>2. MoveWindow(r, sn) = r
      BY <2>1 DEF MoveWindow
    <2>3. Ahead(sn, ur) < Ahead(uh, ur)
      BY <1>1, <1>2, <1>3, <1>4 DEF Stored
    <2>4. WindowOK(r)
      BY <1>1, <2>3 DEF WindowOK, Stored
    <2> QED BY <2>2, <2>4
  <1>5. CASE Ahead(sn, uh) < W
    <2>1. ~InReorderingWindow(r, sn)
      BY <1>1, <1>2, <1>3, <1>5, ReorderingWindowIs
    <2>2. PICK r1, bottom : r1 = [r EXCEPT !.uh = uh1] /\ bottom = WindowBottom(r1)
      OBVIOUS
    <2>3. /\ r1 \in RxRecords /\ r1.win = W /\ r1.ur = ur /\ r1.uh = uh1 /\ r1.dar = r.dar
      BY <1>1, <1>2, <2>2, SetUh
    <2>4. MoveWindow(r, sn) = IF InReorderingWindow(r1, ur) THEN r1
                              ELSE [TryReassembly(r1, ur, bottom) EXCEPT !.ur = bottom]
      BY <1>1, <2>1, <2>2, <2>3 DEF MoveWindow
    <2>5. Ahead(uh1, sn) = 1
      BY <1>1, SuccIs
    <2>6. Ahead(uh1, uh) = Ahead(sn, uh) + 1
      <3>1. Ahead(uh1, uh) = IF 1 + Ahead(sn, uh) < M THEN 1 + Ahead(sn, uh) ELSE 1 + Ahead(sn, uh) - M
        BY <1>1, <1>2, <2>5, AheadOf
      <3> QED BY <1>2, <1>3, <1>5, <3>1
    <2>7. Ahead(uh1, ur) = IF Ahead(uh1, uh) + Ahead(uh, ur) < M THEN Ahead(uh1, uh) + Ahead(uh, ur)
                           ELSE Ahead(uh1, uh) + Ahead(uh, ur) - M
      BY <1>1, <1>2, AheadOf
    <2>8. Ahead(uh1, ur) = IF 1 + Ahead(sn, ur) < M THEN 1 + Ahead(sn, ur) ELSE 1 + Ahead(sn, ur) - M
      BY <1>1, <1>2, <2>5, AheadOf
    <2>9. Ahead(ur, uh1) = IF Ahead(uh1, ur) = 0 THEN 0 ELSE M - Ahead(uh1, ur)
      BY <1>1, <1>2, AheadBack
    <2>10. InReorderingWindow(r1, ur) <=> Ahead(ur, uh1) >= W
      BY <1>1, <1>2, <2>3, ReorderingWindowIs
    <2>11. CASE InReorderingWindow(r1, ur)
      <3>1. Ahead(uh1, ur) \in 1 .. W
        BY <1>2, <1>3, <2>9, <2>10, <2>11
      <3>2. Ahead(uh1, ur) >= Ahead(uh, ur) /\ Ahead(sn, ur) < Ahead(uh1, ur)
        <4>1. PICK b, c, d, e : b = Ahead(uh1, ur) /\ c = Ahead(uh, ur) /\ d = Ahead(sn, ur) /\ e = Ahead(sn, uh)
          OBVIOUS
        <4>2. /\ b \in 1 .. W /\ c \in 0 .. W /\ d \in 0 .. M - 1 /\ e \in 0 .. M - 1 /\ e < W
              /\ b = (IF e + 1 + c < M THEN e + 1 + c ELSE e + 1 + c - M)
              /\ b = (IF 1 + d < M THEN 1 + d ELSE 1 + d - M)
          BY <1>3, <1>5, <2>6, <2>7, <2>8, <3>1, <4>1
        <4>3. b >= c /\ d < b
          BY <1>2, <4>2
        <4> QED BY <4>1, <4>3
      <3>3. ASSUME NEW x \in Sns, r1.dar[x] # NoPdu PROVE Ahead(x, ur) < Ahead(uh1, ur)
        <4>1. CASE x = sn
          BY <3>2, <4>1
        <4>2. CASE x # sn
          <5>1. Ahead(x, ur) < Ahead(uh, ur) /\ Ahead(x, ur) \in 0 .. M - 1
            BY <1>1, <1>2, <2>3, <3>3, <4>2, AheadIs DEF Stored
          <5> QED BY <1>2, <1>3, <3>2, <5>1
        <4> QED BY <4>1, <4>2
      <3>4. WindowOK(r1)
        BY <1>2, <2>3, <3>1, <3>3 DEF WindowOK
      <3> QED BY <1>1, <2>3, <2>4, <2>11, <3>4
    <2>12. CASE ~InReorderingWindow(r1, ur)
      <3>1. Ahead(uh1, ur) = 0 \/ Ahead(uh1, ur) > W
        BY <1>2, <1>3, <2>9, <2>10, <2>12
      <3>2. bottom \in Sns /\ Ahead(uh1, bottom) = W
        <4>1. bottom = (uh1 - W + M) % M
          BY <1>1, <2>2, <2>3 DEF WindowBottom
        <4>2. W \in 0 .. M /\ uh1 - W + M = uh1 + W /\ W # M
          BY <1>2
        <4>3. /\ (uh1 + W) % M = IF uh1 + W < M THEN uh1 + W ELSE uh1 + W - M
              /\ (uh1 + W) % M \in Sns
          <5>1. W \in 0 .. SnModulo
            BY <1>1, <4>2
          <5>2. /\ (uh1 + W) % SnModulo = IF uh1 + W < SnModulo THEN uh1 + W ELSE uh1 + W - SnModulo
                /\ (uh1 + W) % SnModulo \in Sns
            BY <1>2, <5>1, StepIs
          <5> QED BY <1>1, <5>2
        <4>4. bottom = (IF uh1 + W < M THEN uh1 + W ELSE uh1 + W - M) /\ bottom \in Sns
          BY <4>1, <4>2, <4>3
        <4>5. Ahead(uh1, bottom) = IF uh1 >= bottom THEN uh1 - bottom ELSE uh1 - bottom + M
          BY <1>1, <1>2, <4>4, AheadIs
        <4> QED BY <1>2, <4>4, <4>5
      <3>3. PICK d : d = Ahead(bottom, ur)
        OBVIOUS
      <3>4. d \in 0 .. M - 1
        BY <1>1, <1>2, <3>2, <3>3, AheadIs
      <3>5. Ahead(uh1, ur) = IF W + d < M THEN W + d ELSE W + d - M
        BY <1>1, <1>2, <3>2, <3>3, AheadOf
      <3>6. d >= 1 /\ d <= W /\ (Ahead(uh1, ur) = 0 \/ d <= Ahead(uh1, ur))
        <4>1. PICK e : e = Ahead(uh1, ur)
          OBVIOUS
        <4>2. /\ e \in 0 .. W + W - 1 /\ d \in 0 .. W + W - 1 /\ (e = 0 \/ e > W)
              /\ e = IF W + d < W + W THEN W + d ELSE W + d - (W + W)
          BY <1>2, <1>3, <3>1, <3>4, <3>5, <4>1
        <4>3. d >= 1 /\ d <= W /\ (e = 0 \/ d <= e)
          BY <1>2, <4>2
        <4> QED BY <4>1, <4>3
      <3>7. ur # bottom
        BY <1>2, <3>2, <3>3, <3>6, ReachIs
      <3>8. PICK t : t = TryReassembly(r1, ur, bottom)
        OBVIOUS
      <3>9. /\ t \in RxRecords /\ SameWindow(t, r1)
            /\ \A x \in Sns : t.dar[x] # NoPdu =>
                  /\ t.dar[x] = r1.dar[x]
                  /\ Ahead(x, ur) >= d
                  /\ Ahead(x, bottom) = Ahead(x, ur) - d
        BY <1>2, <2>3, <3>2, <3>3, <3>6, <3>7, <3>8, Advance
      <3>10. PICK t1 : t1 = [t EXCEPT !.ur = bottom]
        OBVIOUS
      <3>11. t1 \in RxRecords /\ t1.win = W /\ t1.ur = bottom /\ t1.uh = uh1 /\ t1.dar = t.dar
        BY <2>3, <3>2, <3>9, <3>10, SetUr DEF SameWindow
      <3>12. ASSUME NEW x \in Sns, t.dar[x] # NoPdu PROVE Ahead(x, bottom) < W
        <4>1. Ahead(x, bottom) = Ahead(x, ur) - d /\ r.dar[x] # NoPdu /\ Ahead(x, ur) \in 0 .. M - 1
          BY <1>1, <1>2, <2>3, <3>9, <3>12, AheadIs
        <4>2. CASE x = sn
          <5>1. PICK e, s : e = Ahead(uh1, ur) /\ s = Ahead(sn, ur)
            OBVIOUS
          <5>2. /\ e \in 0 .. W + W - 1 /\ d \in 1 .. W /\ s \in 0 .. W + W - 1
                /\ e = IF W + d < W + W THEN W + d ELSE W + d - (W + W)
                /\ e = IF 1 + s < W + W THEN 1 + s ELSE 1 + s - (W + W)
            BY <1>2, <1>3, <2>8, <3>4, <3>5, <3>6, <5>1
          <5>3. s - d < W
            BY <1>2, <5>2
          <5> QED BY <4>1, <4>2, <5>1, <5>3
        <4>3. CASE x # sn
          <5>1. Ahead(x, ur) < Ahead(uh, ur)
            BY <1>1, <4>1, <4>3 DEF Stored
          <5> QED BY <1>2, <1>3, <3>4, <3>6, <4>1, <5>1
        <4> QED BY <4>2, <4>3
      <3>13. WindowOK(t1)
        BY <1>2, <3>2, <3>11, <3>12 DEF WindowOK
      <3>14. MoveWindow(r, sn) = t1
        BY <2>4, <2>12, <3>8, <3>10
      <3> QED BY <1>1, <3>11, <3>13, <3>14
    <2> QED BY <2>11, <2>12
  <1> QED BY <1>2, <1>3, <1>4, <1>5

\* The least element is one, and at most any other.
LEMMA LeastIs ==
    ASSUME NEW T \in SUBSET Nat, NEW e \in T
    PROVE  Min(T) \in T /\ Min(T) <= e
  <1>1. \E x \in T : \A y \in T : x <= y
    BY SmallestExists, Zenon
  <1>2. Min(T) \in T /\ \A y \in T : Min(T) <= y
    BY <1>1, Zenon DEF Min
  <1> QED BY <1>2

\* VR(UR) moves up within the window.
LEMMA UrMoves ==
    ASSUME NEW r \in RxRecords, WindowOK(r), NEW new \in Sns,
           Ahead(new, r.ur) <= Ahead(r.uh, r.ur)
    PROVE  LET t == TryReassembly([r EXCEPT !.ur = new], r.ur, new)
           IN  t \in RxRecords /\ t.win = r.win /\ WindowOK(t)
  <1>1. PICK r1, ur, uh, M, t : /\ r1 = [r EXCEPT !.ur = new] /\ ur = r.ur /\ uh = r.uh /\ M = SnModulo
                                /\ t = TryReassembly(r1, ur, new)
    OBVIOUS
  <1>2. /\ r1 \in RxRecords /\ r1.win = r.win /\ r1.ur = new /\ r1.uh = uh /\ r1.dar = r.dar
    BY <1>1, SetUr
  <1>3. M \in Nat \ {0} /\ Sns = 0 .. M - 1 /\ ur \in Sns /\ uh \in Sns /\ r.win \in Nat
    BY <1>1, Modulus, RxFields
  <1>4. CASE ur = new
    <2>1. t = r1
      BY <1>1, <1>4 DEF TryReassembly
    <2>2. WindowOK(r1)
      BY <1>1, <1>2, <1>4 DEF WindowOK
    <2> QED BY <1>1, <1>2, <2>1, <2>2
  <1>5. CASE ur # new
    <2>1. PICK d, h : d = Ahead(new, ur) /\ h = Ahead(uh, ur)
      OBVIOUS
    <2>2. d \in 0 .. M - 1 /\ h \in 0 .. M - 1 /\ Ahead(uh, new) \in 0 .. M - 1 /\ d <= h
      BY <1>1, <1>3, <2>1, AheadIs
    <2>3. /\ t \in RxRecords /\ SameWindow(t, r1)
          /\ \A x \in Sns : t.dar[x] # NoPdu =>
                /\ t.dar[x] = r1.dar[x]
                /\ Ahead(x, ur) >= d
                /\ Ahead(x, new) = Ahead(x, ur) - d
      <3>1. ur # new /\ (Ahead(r1.uh, ur) = 0 \/ Ahead(new, ur) <= Ahead(r1.uh, ur))
        BY <1>2, <1>5, <2>1, <2>2
      <3>2. LET z == TryReassembly(r1, ur, new)
            IN  /\ z \in RxRecords /\ SameWindow(z, r1)
                /\ \A x \in Sns : z.dar[x] # NoPdu =>
                      /\ z.dar[x] = r1.dar[x]
                      /\ Ahead(x, ur) >= Ahead(new, ur)
                      /\ Ahead(x, new) = Ahead(x, ur) - Ahead(new, ur)
        BY <1>2, <1>3, <3>1, Advance
      <3>3. t = TryReassembly(r1, ur, new)
        BY <1>1
      <3> QED BY <2>1, <3>2, <3>3
    <2>4. t.win = r.win /\ t.ur = new /\ t.uh = uh
      BY <1>2, <2>3 DEF SameWindow
    <2>5. Ahead(uh, new) = h - d
      <3>1. h = IF Ahead(uh, new) + d < M THEN Ahead(uh, new) + d ELSE Ahead(uh, new) + d - M
        BY <1>1, <1>3, <2>1, AheadOf
      <3> QED BY <1>3, <2>2, <3>1
    <2>6. ASSUME NEW x \in Sns, t.dar[x] # NoPdu PROVE Ahead(x, new) < h - d
      <3>1. Ahead(x, new) = Ahead(x, ur) - d /\ r.dar[x] # NoPdu
        BY <1>2, <2>3, <2>6
      <3>2. Ahead(x, ur) < h
        BY <1>1, <2>1, <3>1 DEF WindowOK
      <3>3. Ahead(x, ur) \in 0 .. M - 1
        BY <1>3, AheadIs
      <3> QED BY <1>3, <2>2, <3>1, <3>2, <3>3
    <2>7. h - d <= r.win
      <3>1. h <= r.win
        BY <1>1, <2>1 DEF WindowOK
      <3> QED BY <1>3, <2>2, <3>1
    <2>8. WindowOK(t)
      BY <2>4, <2>5, <2>6, <2>7 DEF WindowOK
    <2> QED BY <1>1, <2>3, <2>4, <2>8
  <1> QED BY <1>4, <1>5

\* VR(UR) moves to the first PDU that was not received.
LEMMA MoveUrIs ==
    ASSUME NEW r \in RxRecords, WindowOK(r), NEW sn \in Sns
    PROVE  LET t == MoveUr(r, sn)
           IN  t \in RxRecords /\ t.win = r.win /\ WindowOK(t)
  <1>1. CASE ~(sn = r.ur /\ r.dar[sn] # NoPdu)
    BY <1>1 DEF MoveUr
  <1>2. CASE sn = r.ur /\ r.dar[sn] # NoPdu
    <2>1. PICK h, M : h = Ahead(r.uh, r.ur) /\ M = SnModulo
      OBVIOUS
    <2>2. M \in Nat \ {0} /\ Sns = 0 .. M - 1 /\ r.ur \in Sns /\ r.uh \in Sns
      BY <2>1, Modulus, RxFields
    <2>3. h \in 1 .. M - 1
      <3>1. h \in 0 .. M - 1 /\ Ahead(sn, r.ur) = 0
        BY <1>2, <2>1, <2>2, AheadIs, ReachIs, ZenonT(40)
      <3>2. Ahead(sn, r.ur) < h
        BY <1>2, <2>1 DEF WindowOK
      <3> QED BY <2>2, <3>1, <3>2
    <2> DEFINE T == {k \in 1 .. SnModulo :
                        LET s == (r.ur + k) % SnModulo IN r.dar[s] = NoPdu \/ s = r.uh}
    <2>4. T \in SUBSET Nat
      BY <2>1, <2>2
    <2>5. h \in T
      <3>1. (r.ur + h) % SnModulo = r.uh
        BY <2>1, <2>2, ReachIs
      <3>2. h \in 1 .. SnModulo
        BY <2>1, <2>2, <2>3
      <3> QED BY <3>1, <3>2
    <2>6. PICK run : run = Min(T)
      OBVIOUS
    <2>7. run \in 1 .. SnModulo
      <3>1. run \in T
        <4> HIDE DEF T
        <4> QED BY <2>4, <2>5, <2>6, LeastIs
      <3> QED BY <3>1
    <2>8. run <= h
      <3> HIDE DEF T
      <3> QED BY <2>4, <2>5, <2>6, LeastIs
    <2>9. AfterRun(r) = (r.ur + run) % SnModulo
      BY <2>6 DEF AfterRun
    <2>10. AfterRun(r) \in Sns /\ Ahead(AfterRun(r), r.ur) = run
      <3>1. run \in 0 .. SnModulo /\ run # SnModulo
        BY <2>1, <2>2, <2>3, <2>7, <2>8
      <3> QED BY <2>2, <2>9, <3>1, StepIs
    <2>11. MoveUr(r, sn) = TryReassembly([r EXCEPT !.ur = AfterRun(r)], r.ur, AfterRun(r))
      BY <1>2 DEF MoveUr
    <2> HIDE DEF T
    <2> QED BY <2>1, <2>8, <2>10, <2>11, UrMoves
  <1> QED BY <1>1, <1>2

\* The timer is stopped, or started for v.
LEMMA SetTimer ==
    ASSUME NEW r \in RxRecords
    PROVE  /\ LET t == [r EXCEPT !.running = FALSE]
              IN  /\ t \in RxRecords /\ t.win = r.win /\ t.ur = r.ur /\ t.ux = r.ux /\ t.uh = r.uh
                  /\ t.running = FALSE /\ t.dar = r.dar
           /\ \A v \in Sns :
                LET t == [r EXCEPT !.running = TRUE, !.ux = v]
                IN  /\ t \in RxRecords /\ t.win = r.win /\ t.ur = r.ur /\ t.ux = v /\ t.uh = r.uh
                    /\ t.running = TRUE /\ t.dar = r.dar
  <1>1. PICK t : t = [r EXCEPT !.running = FALSE]
    OBVIOUS
  <1>2. /\ t \in RxRecords /\ t.win = r.win /\ t.ur = r.ur /\ t.ux = r.ux /\ t.uh = r.uh
        /\ t.running = FALSE /\ t.dar = r.dar
    BY <1>1 DEF RxRecords
  <1>3. ASSUME NEW v \in Sns
        PROVE  LET s == [r EXCEPT !.running = TRUE, !.ux = v]
               IN  /\ s \in RxRecords /\ s.win = r.win /\ s.ur = r.ur /\ s.ux = v /\ s.uh = r.uh
                   /\ s.running = TRUE /\ s.dar = r.dar
    <2>1. PICK x : x = [r EXCEPT !.ux = v]
      OBVIOUS
    <2>2. /\ x \in RxRecords /\ x.win = r.win /\ x.ur = r.ur /\ x.ux = v /\ x.uh = r.uh
          /\ x.dar = r.dar
      BY <2>1 DEF RxRecords
    <2>3. PICK s : s = [x EXCEPT !.running = TRUE]
      OBVIOUS
    <2>4. /\ s \in RxRecords /\ s.win = r.win /\ s.ur = r.ur /\ s.ux = v /\ s.uh = r.uh
          /\ s.running = TRUE /\ s.dar = r.dar
      BY <2>2, <2>3 DEF RxRecords
    <2>5. s = [r EXCEPT !.running = TRUE, !.ux = v]
      BY <2>1, <2>3 DEF RxRecords
    <2> QED BY <2>4, <2>5
  <1> QED BY <1>1, <1>2, <1>3

\* The timer stops when VR(UX) has left the window, or VR(UR) has come up to it.
LEMMA StopTimerIs ==
    ASSUME NEW r \in RxRecords, r.win = Window, WindowOK(r)
    PROVE  LET t == StopTimer(r)
           IN  t \in RxRecords /\ t.win = r.win /\ WindowOK(t) /\ TimerOK(t)
  <1>1. CASE StopTimer(r) = [r EXCEPT !.running = FALSE]
    <2>1. PICK t : t = StopTimer(r)
      OBVIOUS
    <2>2. /\ t \in RxRecords /\ t.win = r.win /\ t.ur = r.ur /\ t.ux = r.ux /\ t.uh = r.uh
          /\ t.running = FALSE /\ t.dar = r.dar
      <3>1. t = [r EXCEPT !.running = FALSE]
        BY <1>1, <2>1
      <3>2. LET z == [r EXCEPT !.running = FALSE]
            IN  /\ z \in RxRecords /\ z.win = r.win /\ z.ur = r.ur /\ z.ux = r.ux /\ z.uh = r.uh
                /\ z.running = FALSE /\ z.dar = r.dar
        BY SetTimer, Zenon
      <3> QED BY <3>1, <3>2, Zenon
    <2> QED BY <2>1, <2>2 DEF WindowOK, TimerOK
  <1>2. CASE ~(/\ r.running
               /\ \/ r.uh # r.ux /\ ~InReorderingWindow(r, r.ux)
                  \/ InWindow(r, r.ur, r.ux, r.uh) \in {-2, 1})
    <2>1. StopTimer(r) = r
      BY <1>2 DEF StopTimer
    <2>2. ASSUME r.running PROVE Ahead(r.ux, r.ur) <= Ahead(r.uh, r.ur)
      <3>1. PICK W, M, ur, ux, uh : W = Window /\ M = SnModulo /\ ur = r.ur /\ ux = r.ux /\ uh = r.uh
        OBVIOUS
      <3>2. /\ W \in Nat \ {0} /\ M = W + W /\ Sns = 0 .. M - 1 /\ ur \in Sns /\ ux \in Sns /\ uh \in Sns
        BY <3>1, Modulus, RxFields
      <3>3. /\ Ahead(uh, ur) \in 0 .. M - 1 /\ Ahead(ux, ur) \in 0 .. M - 1 /\ Ahead(ux, uh) \in 0 .. M - 1
            /\ Ahead(ur, uh) \in 0 .. M - 1 /\ Ahead(uh, ur) <= W
        BY <3>1, <3>2, AheadIs DEF WindowOK
      <3>4. uh = ux \/ Ahead(ux, uh) >= W
        BY <1>2, <2>2, <3>1, <3>2, ReorderingWindowIs
      <3>5. CASE uh = ux
        BY <3>1, <3>3, <3>5
      <3>6. CASE uh # ux
        <4>1. PICK l, h, s : /\ l = CMod(ur - (uh - W)) /\ h = CMod(uh - (uh - W))
                             /\ s = CMod(ux - (uh - W))
          OBVIOUS
        <4>2. s = Ahead(ux, uh) - W /\ h = W
          BY <3>1, <3>2, <3>4, <3>6, <4>1, CModIs
        <4>3. l \in Int /\ (Ahead(ur, uh) >= W => l = Ahead(ur, uh) - W) /\ (ur = uh => l = W)
          BY <3>1, <3>2, <4>1, CModIs
        <4>4. InWindow(r, ur, ux, uh)
                = CASE l > s -> -2
                    [] l <= s /\ h < s -> -1
                    [] l < s /\ s < h -> 0
                    [] l = s /\ s < h -> 1
                    [] l < s /\ s = h -> 2
                    [] l = s /\ s = h -> 3
          BY <3>1, <4>1 DEF InWindow
        <4>5. InWindow(r, ur, ux, uh) # -2
          BY <1>2, <2>2, <3>1
        <4>6. s \in Int /\ s < W
          BY <3>2, <3>3, <4>2
        <4>7. l <= s
          BY <4>2, <4>3, <4>4, <4>5, <4>6
        <4>8. ur # uh
          BY <3>2, <4>3, <4>6, <4>7
        <4>9. Ahead(ur, uh) = M - Ahead(uh, ur)
          <5>1. Ahead(uh, ur) # 0
            BY <3>2, <4>8, ReachIs
          <5> QED BY <3>1, <3>2, <5>1, AheadBack
        <4>10. Ahead(ur, uh) <= Ahead(ux, uh)
          BY <3>2, <3>3, <4>2, <4>3, <4>7, <4>9
        <4>11. Ahead(ux, ur) = IF Ahead(ux, uh) + Ahead(uh, ur) < M THEN Ahead(ux, uh) + Ahead(uh, ur)
                               ELSE Ahead(ux, uh) + Ahead(uh, ur) - M
          BY <3>1, <3>2, AheadOf
        <4>12. Ahead(ux, ur) <= Ahead(uh, ur)
          BY <3>2, <3>3, <4>9, <4>10, <4>11
        <4> QED BY <3>1, <4>12
      <3> QED BY <3>5, <3>6
    <2> QED BY <2>1, <2>2 DEF TimerOK
  <1> QED BY <1>1, <1>2 DEF StopTimer

\* The timer starts for VR(UH).
LEMMA StartTimerIs ==
    ASSUME NEW r \in RxRecords, r.win = Window, WindowOK(r), TimerOK(r)
    PROVE  LET t == StartTimer(r)
           IN  t \in RxRecords /\ t.win = r.win /\ WindowOK(t) /\ TimerOK(t)
  <1>1. CASE StartTimer(r) = r
    BY <1>1
  <1>2. CASE StartTimer(r) = [r EXCEPT !.running = TRUE, !.ux = r.uh]
    <2>1. PICK t : t = StartTimer(r)
      OBVIOUS
    <2>2. r.uh \in Sns /\ r.ur \in Sns
      BY RxFields
    <2>3. /\ t \in RxRecords /\ t.win = r.win /\ t.ur = r.ur /\ t.ux = r.uh /\ t.uh = r.uh
          /\ t.running = TRUE /\ t.dar = r.dar
      <3>1. t = [r EXCEPT !.running = TRUE, !.ux = r.uh]
        BY <1>2, <2>1
      <3>2. LET z == [r EXCEPT !.running = TRUE, !.ux = r.uh]
            IN  /\ z \in RxRecords /\ z.win = r.win /\ z.ur = r.ur /\ z.ux = r.uh /\ z.uh = r.uh
                /\ z.running = TRUE /\ z.dar = r.dar
        BY <2>2, SetTimer, Zenon
      <3> QED BY <3>1, <3>2, Zenon
    <2>4. Ahead(r.uh, r.ur) <= Ahead(r.uh, r.ur)
      <3>1. Ahead(r.uh, r.ur) \in 0 .. SnModulo - 1
        BY <2>2, AheadIs, Modulus
      <3> QED BY <3>1
    <2> QED BY <2>1, <2>3, <2>4 DEF WindowOK, TimerOK
  <1> QED BY <1>1, <1>2 DEF StartTimer

-----------------------------------------------------------------------------
(* The handlers of the receiver. *)

\* A PDU is stored in its slot.
LEMMA StoreIs ==
    ASSUME NEW r \in RxRecords, NEW sn \in Sns, NEW pdu \in GoodPdus
    PROVE  LET t == [r EXCEPT !.dar[sn] = pdu]
           IN  /\ t \in RxRecords /\ SameWindow(t, r)
               /\ \A x \in Sns \ {sn} : t.dar[x] = r.dar[x]
  <1>1. PICK dar, t : dar = [r.dar EXCEPT ![sn] = pdu] /\ t = [r EXCEPT !.dar = dar]
    OBVIOUS
  <1>2. r.dar \in [Sns -> GoodPdus \cup {NoPdu}]
    BY RxFields
  <1>3. dar \in [Sns -> GoodPdus \cup {NoPdu}] /\ \A x \in Sns \ {sn} : dar[x] = r.dar[x]
    BY <1>1, <1>2
  <1>4. t \in RxRecords /\ SameWindow(t, r) /\ t.dar = dar
    BY <1>1, <1>3 DEF RxRecords, SameWindow
  <1>5. [r EXCEPT !.dar[sn] = pdu] = t
    BY <1>1 DEF RxRecords
  <1> QED BY <1>3, <1>4, <1>5

\* rlc_um_receive_process_dar, with a window.
LEMMA ReceiveIs ==
    ASSUME NEW r \in RxRecords, r.win = Window, WindowOK(r), TimerOK(r), NEW pdu \in GoodPdus
    PROVE  LET t == ReceiveProcessDar(r, pdu)
           IN  t \in RxRecords /\ t.win = Window /\ WindowOK(t) /\ TimerOK(t)
  <1>1. PICK sn : sn = pdu.sn
    OBVIOUS
  <1>2. sn \in Sns
    BY <1>1 DEF GoodPdus, Pdus
  <1>3. CASE Discarded(r, sn)
    BY <1>1, <1>3 DEF ReceiveProcessDar
  <1>4. CASE ~Discarded(r, sn)
    <2>1. PICK r1, r2, r3, r4, r5 :
             /\ r1 = [r EXCEPT !.dar[sn] = pdu] /\ r2 = MoveWindow(r1, sn) /\ r3 = MoveUr(r2, sn)
             /\ r4 = StopTimer(r3) /\ r5 = StartTimer(r4)
      OBVIOUS
    <2>2. ReceiveProcessDar(r, pdu) = r5
      BY <1>1, <1>4, <2>1 DEF ReceiveProcessDar
    <2>3. r1 \in RxRecords /\ SameWindow(r1, r) /\ \A x \in Sns \ {sn} : r1.dar[x] = r.dar[x]
      BY <1>2, <2>1, StoreIs
    <2>4. r1.win = Window /\ r1.ur = r.ur /\ r1.uh = r.uh
      BY <2>3 DEF SameWindow
    <2>5. Stored(r1, sn)
      <3>1. Ahead(sn, r.uh) < Window \/ Ahead(sn, r.ur) < Ahead(r.uh, r.ur)
        <4>1. r.uh \in Sns /\ r.ur \in Sns /\ Ahead(r.uh, r.ur) <= Window
          BY RxFields DEF WindowOK
        <4> QED BY <1>2, <1>4, <4>1, KeptIs
      <3> QED BY <2>3, <2>4, <3>1 DEF Stored, WindowOK
    <2>6. r2 \in RxRecords /\ r2.win = Window /\ WindowOK(r2)
      BY <1>2, <2>1, <2>3, <2>4, <2>5, MoveWindowIs
    <2>7. r3 \in RxRecords /\ r3.win = Window /\ WindowOK(r3)
      BY <1>2, <2>1, <2>6, MoveUrIs
    <2>8. r4 \in RxRecords /\ r4.win = Window /\ WindowOK(r4) /\ TimerOK(r4)
      BY <2>1, <2>7, StopTimerIs
    <2>9. r5 \in RxRecords /\ r5.win = Window /\ WindowOK(r5) /\ TimerOK(r5)
      BY <2>1, <2>8, StartTimerIs
    <2> QED BY <2>2, <2>9
  <1> QED BY <1>3, <1>4

\* The time-out of t-Reordering.
LEMMA TimeOutIs ==
    ASSUME NEW r \in RxRecords, r.running, WindowOK(r), TimerOK(r)
    PROVE  LET t == TimerDarTimeOut(r)
           IN  t \in RxRecords /\ t.win = r.win /\ WindowOK(t) /\ TimerOK(t)
  <1>1. PICK M, W, ur, ux, uh : M = SnModulo /\ W = Window /\ ur = r.ur /\ ux = r.ux /\ uh = r.uh
    OBVIOUS
  <1>2. W \in Nat \ {0} /\ M = W + W /\ Sns = 0 .. M - 1 /\ ur \in Sns /\ ux \in Sns /\ uh \in Sns
    BY <1>1, Modulus, RxFields
  <1>3. PICK a, e, h : a = Ahead(ux, ur) /\ e = Ahead(uh, ux) /\ h = Ahead(uh, ur)
    OBVIOUS
  <1>4. a \in 0 .. M - 1 /\ e \in 0 .. M - 1 /\ h \in 0 .. M - 1
    BY <1>2, <1>3, AheadIs
  <1>5. a <= h /\ h <= W /\ r.win = W
    BY <1>1, <1>3 DEF TimerOK, WindowOK
  <1>6. e = h - a
    <2>1. h = IF e + a < M THEN e + a ELSE e + a - M
      BY <1>1, <1>2, <1>3, AheadOf
    <2> QED BY <1>2, <1>4, <1>5, <2>1
  <1> DEFINE T == {k \in 0 .. SnModulo : r.dar[(r.ux + k) % SnModulo] = NoPdu}
  <1>7. T \in SUBSET Nat
    BY <1>1, <1>2
  <1>8. e \in T
    <2>1. (r.ux + e) % SnModulo = uh /\ e \in 0 .. SnModulo
      <3>1. (ux + Ahead(uh, ux)) % SnModulo = uh
        BY <1>2, ReachIs
      <3> QED BY <1>1, <1>2, <1>3, <1>4, <3>1
    <2>2. r.dar[uh] = NoPdu
      <3>1. ~(h < h)
        BY <1>4
      <3> QED BY <1>1, <1>2, <1>3, <3>1 DEF WindowOK
    <2> QED BY <2>1, <2>2
  <1>9. PICK run : run = Min(T)
    OBVIOUS
  <1>10. run \in 0 .. SnModulo
    <2>1. run \in T
      <3> HIDE DEF T
      <3> QED BY <1>7, <1>8, <1>9, LeastIs
    <2> QED BY <2>1
  <1>11. run <= e
    <2> HIDE DEF T
    <2> QED BY <1>7, <1>8, <1>9, LeastIs
  <1>12. PICK new : new = (ux + run) % SnModulo
    OBVIOUS
  <1>13. new \in Sns /\ Ahead(new, ux) = run
    <2>1. run # SnModulo
      BY <1>1, <1>2, <1>4, <1>10, <1>11
    <2> QED BY <1>2, <1>10, <1>12, <2>1, StepIs
  <1>14. Ahead(new, ur) <= h
    <2>1. Ahead(new, ur) = IF run + a < M THEN run + a ELSE run + a - M
      BY <1>1, <1>2, <1>3, <1>13, AheadOf
    <2> QED BY <1>1, <1>2, <1>4, <1>5, <1>6, <1>10, <1>11, <2>1
  <1>15. PICK r1, r2 : /\ r1 = TryReassembly([r EXCEPT !.ur = new], r.ur, new)
                       /\ r2 = [r1 EXCEPT !.running = FALSE]
    OBVIOUS
  <1>16. TimerDarTimeOut(r) = StartTimer(r2)
    BY <1>1, <1>9, <1>12, <1>15 DEF TimerDarTimeOut
  <1> HIDE DEF T
  <1>17. r1 \in RxRecords /\ r1.win = r.win /\ WindowOK(r1)
    BY <1>1, <1>3, <1>13, <1>14, <1>15, UrMoves
  <1>18. /\ r2 \in RxRecords /\ r2.win = r1.win /\ r2.ur = r1.ur /\ r2.ux = r1.ux /\ r2.uh = r1.uh
         /\ r2.running = FALSE /\ r2.dar = r1.dar
    <2>1. LET z == [r1 EXCEPT !.running = FALSE]
          IN  /\ z \in RxRecords /\ z.win = r1.win /\ z.ur = r1.ur /\ z.ux = r1.ux /\ z.uh = r1.uh
              /\ z.running = FALSE /\ z.dar = r1.dar
      BY <1>17, SetTimer, Zenon
    <2> QED BY <1>15, <2>1, Zenon
  <1>19. WindowOK(r2) /\ TimerOK(r2) /\ r2.win = Window
    BY <1>1, <1>5, <1>17, <1>18 DEF WindowOK, TimerOK
  <1> QED BY <1>16, <1>17, <1>18, <1>19, StartTimerIs

\* On a multicast channel a PDU is never discarded, and reassembled at once.
LEMMA MulticastIs ==
    ASSUME NEW r \in RxRecords, r.win = 0, WindowOK(r), TimerOK(r), NEW pdu \in GoodPdus,
           Ahead(pdu.sn, r.uh) < Window
    PROVE  LET t == ReceiveProcessDar(r, pdu)
           IN  /\ t \in RxRecords /\ t.win = 0 /\ WindowOK(t) /\ TimerOK(t)
               /\ t.uh = Succ(pdu.sn)
  <1>1. PICK M, W, sn, ur, uh1 :
           M = SnModulo /\ W = Window /\ sn = pdu.sn /\ ur = r.ur /\ uh1 = Succ(sn)
    OBVIOUS
  <1>2. /\ W \in Nat \ {0} /\ M = W + W /\ Sns = 0 .. M - 1 /\ ur \in Sns /\ r.uh \in Sns /\ sn \in Sns
        /\ uh1 \in Sns
    <2>1. sn \in Sns
      BY <1>1 DEF GoodPdus, Pdus
    <2> QED BY <1>1, <2>1, Modulus, RxFields, SuccIs
  <1>3. r.uh = ur /\ Ahead(r.uh, r.ur) = 0
    <2>1. Ahead(r.uh, r.ur) <= 0 /\ Ahead(r.uh, r.ur) \in 0 .. M - 1
      BY <1>1, <1>2, AheadIs DEF WindowOK
    <2>2. Ahead(r.uh, r.ur) = 0
      BY <1>2, <2>1
    <2> QED BY <1>1, <1>2, <2>2, ReachIs
  <1>4. ASSUME NEW x \in Sns PROVE r.dar[x] = NoPdu
    <2>1. Ahead(x, r.ur) \in Sns
      BY <1>1, <1>2, AheadIs
    <2>2. ~(Ahead(x, r.ur) < 0)
      BY <1>2, <2>1
    <2> QED BY <1>3, <2>2 DEF WindowOK
  <1>5. ~r.running
    BY <1>1, <1>2 DEF TimerOK
  <1>6. CMod(0) = 0
    <2>1. 0 \in 0 .. SnModulo - 1 /\ 0 >= 0
      BY Modulus
    <2> QED BY <2>1, SmallMod DEF CMod
  <1>7. ASSUME NEW q, q.win = 0, q.uh \in Sns, NEW x \in Sns
        PROVE  InWindow(q, q.uh, x, q.uh) \notin {0, 1, 2} /\ ~InReorderingWindow(q, x)
    <2>1. PICK s : s = CMod(x - (q.uh - 0))
      OBVIOUS
    <2>2. q.uh - (q.uh - 0) = 0
      BY <1>2, <1>7
    <2>3. s \in Int
      <3>1. x - (q.uh - 0) \in Int
        BY <1>2, <1>7
      <3>2. (x - (q.uh - 0)) % SnModulo \in Sns /\ (-(x - (q.uh - 0))) % SnModulo \in Sns
        BY <3>1, SmallMod
      <3> QED BY <1>2, <2>1, <3>2 DEF CMod
    <2>4. InWindow(q, q.uh, x, q.uh)
            = CASE 0 > s -> -2
                [] 0 <= s /\ 0 < s -> -1
                [] 0 < s /\ s < 0 -> 0
                [] 0 = s /\ s < 0 -> 1
                [] 0 < s /\ s = 0 -> 2
                [] 0 = s /\ s = 0 -> 3
      BY <1>6, <1>7, <2>1, <2>2 DEF InWindow
    <2>5. InWindow(q, q.uh, x, q.uh) \notin {0, 1, 2}
      BY <2>3, <2>4
    <2>6. 0 .. q.win - 1 = {}
      BY <1>7
    <2> QED BY <2>5, <2>6 DEF InReorderingWindow
  <1>8. ~Discarded(r, sn)
    <2>1. r.uh - r.win = r.uh
      BY <1>2
    <2>2. InWindow(r, r.uh - r.win, sn, r.ur) \notin {0, 1}
      BY <1>1, <1>2, <1>3, <1>7, <2>1
    <2> QED BY <1>2, <1>4, <2>2 DEF Discarded
  <1>9. PICK r1, r2, r3 : /\ r1 = [r EXCEPT !.dar[sn] = pdu] /\ r2 = [r1 EXCEPT !.uh = uh1]
                          /\ r3 = TryReassembly(r2, ur, uh1)
    OBVIOUS
  <1>10. r1 \in RxRecords /\ SameWindow(r1, r) /\ \A x \in Sns \ {sn} : r1.dar[x] = r.dar[x]
    BY <1>2, <1>9, StoreIs
  <1>11. /\ r2 \in RxRecords /\ r2.win = 0 /\ r2.ur = ur /\ r2.uh = uh1 /\ r2.running = r.running
         /\ r2.dar = r1.dar
    <2>1. LET t == [r1 EXCEPT !.uh = uh1]
          IN  /\ t \in RxRecords /\ t.win = r1.win /\ t.ur = r1.ur /\ t.ux = r1.ux /\ t.uh = uh1
              /\ t.running = r1.running /\ t.dar = r1.dar
      BY <1>2, <1>10, SetUh
    <2> QED BY <1>1, <1>9, <1>10, <2>1 DEF SameWindow
  <1>12. Ahead(uh1, ur) = Ahead(sn, ur) + 1 /\ Ahead(sn, ur) \in 0 .. M - 1 /\ ur # uh1
    <2>1. Ahead(sn, ur) < W /\ Ahead(sn, ur) \in 0 .. M - 1
      BY <1>1, <1>2, <1>3, AheadIs
    <2>2. Ahead(uh1, ur) = IF 1 + Ahead(sn, ur) < M THEN 1 + Ahead(sn, ur) ELSE 1 + Ahead(sn, ur) - M
      BY <1>1, <1>2, SuccIs, AheadOf
    <2>3. Ahead(uh1, ur) = Ahead(sn, ur) + 1 /\ Ahead(uh1, ur) # 0
      BY <1>2, <2>1, <2>2
    <2> QED BY <1>2, <2>1, <2>3, ReachIs
  <1>13. WindowBottom(r2) = uh1
    <2>1. uh1 - 0 + SnModulo = uh1 + SnModulo /\ SnModulo \in 0 .. SnModulo
      BY <1>1, <1>2
    <2>2. (uh1 + SnModulo) % SnModulo
            = IF uh1 + SnModulo < SnModulo THEN uh1 + SnModulo ELSE uh1 + SnModulo - SnModulo
      BY <1>2, <2>1, StepIs
    <2> QED BY <1>1, <1>2, <1>11, <2>1, <2>2 DEF WindowBottom
  <1>14. /\ r3 \in RxRecords /\ SameWindow(r3, r2)
         /\ \A x \in Sns : r3.dar[x] # NoPdu =>
               r3.dar[x] = r2.dar[x] /\ Ahead(x, ur) >= Ahead(uh1, ur)
    <2>1. Ahead(uh1, ur) <= Ahead(r2.uh, ur)
      BY <1>2, <1>11, <1>12
    <2>2. LET t == TryReassembly(r2, ur, uh1)
          IN  /\ t \in RxRecords /\ SameWindow(t, r2)
              /\ \A x \in Sns : t.dar[x] # NoPdu =>
                    /\ t.dar[x] = r2.dar[x]
                    /\ Ahead(x, ur) >= Ahead(uh1, ur)
                    /\ Ahead(x, uh1) = Ahead(x, ur) - Ahead(uh1, ur)
      <3>1. r2 \in RxRecords /\ ur \in Sns /\ uh1 \in Sns /\ ur # uh1
        BY <1>2, <1>11, <1>12
      <3> QED BY <2>1, <3>1, Advance
    <2> QED BY <1>9, <2>2
  <1>15. ASSUME NEW x \in Sns PROVE r3.dar[x] = NoPdu
    <2> SUFFICES ASSUME r3.dar[x] # NoPdu PROVE FALSE
      OBVIOUS
    <2>1. r1.dar[x] # NoPdu /\ Ahead(x, ur) >= Ahead(uh1, ur)
      BY <1>11, <1>14
    <2>2. x = sn
      BY <1>4, <1>10, <2>1
    <2> QED BY <1>2, <1>12, <2>1, <2>2
  <1>16. PICK r4 : r4 = [r3 EXCEPT !.ur = uh1]
    OBVIOUS
  <1>17. /\ r4 \in RxRecords /\ r4.win = 0 /\ r4.ur = uh1 /\ r4.uh = uh1 /\ r4.running = r.running
         /\ r4.dar = r3.dar
    BY <1>2, <1>11, <1>14, <1>16, SetUr DEF SameWindow
  <1>18. MoveWindow(r1, sn) = r4
    <2>1. ~InReorderingWindow(r1, sn) /\ ~InReorderingWindow(r2, ur)
      BY <1>2, <1>7, <1>10, <1>11 DEF SameWindow
    <2> QED BY <1>1, <1>9, <1>11, <1>13, <1>16, <2>1 DEF MoveWindow
  <1>19. MoveUr(r4, sn) = r4
    BY <1>2, <1>15, <1>17 DEF MoveUr
  <1>20. StopTimer(r4) = r4
    BY <1>5, <1>17 DEF StopTimer
  <1>21. StartTimer(r4) = r4
    <2>1. InWindow(r4, r4.ur, r4.uh, r4.uh) # 2
      BY <1>2, <1>7, <1>17
    <2> QED BY <2>1 DEF StartTimer
  <1>22. ReceiveProcessDar(r, pdu) = r4
    BY <1>1, <1>8, <1>9, <1>18, <1>19, <1>20, <1>21 DEF ReceiveProcessDar
  <1>23. WindowOK(r4) /\ TimerOK(r4)
    <2>1. Ahead(uh1, uh1) = 0
      BY <1>2, ReachIs
    <2>2. Ahead(r4.uh, r4.ur) <= r4.win
      BY <1>17, <2>1
    <2> QED BY <1>5, <1>15, <1>17, <2>2 DEF WindowOK, TimerOK
  <1> QED BY <1>1, <1>17, <1>22, <1>23

-----------------------------------------------------------------------------
(* The bearer. *)

\* Numbers of PDUs and their sequence numbers.
LEMMA NumberIs ==
    ASSUME NEW n \in Nat, NEW d \in 0 .. SnModulo - 1
    PROVE  (n + d) % SnModulo = IF (n % SnModulo) + d < SnModulo THEN (n % SnModulo) + d
                                ELSE (n % SnModulo) + d - SnModulo
  <1>1. PICK M : M = SnModulo
    OBVIOUS
  <1>2. PICK q, s : M = SnModulo /\ q = n \div M /\ s = n % M
    BY <1>1
  <1>3. M \in Nat \ {0} /\ q \in Int /\ s \in 0 .. M - 1 /\ n = M * q + s
    <2>1. M \in Nat \ {0}
      BY <1>1, Modulus
    <2> QED BY <1>2, <2>1
  <1>4. PICK x, q1, s1 : x = n + d /\ q1 = x \div M /\ s1 = x % M
    OBVIOUS
  <1>5. x \in Nat /\ q1 \in Int /\ s1 \in 0 .. M - 1 /\ x = M * q1 + s1
    BY <1>2, <1>3, <1>4
  <1>6. PICK k : k = q1 - q
    OBVIOUS
  <1>7. k \in Int /\ M * k = M * q1 - M * q
    BY <1>3, <1>5, <1>6
  <1>8. M * k = s + d - s1
    BY <1>2, <1>3, <1>4, <1>5, <1>7
  <1>9. k = 0 \/ k = 1
    <2>1. k <= -1 => M * k <= -M
      BY <1>3, <1>7
    <2>2. k >= 2 => M * k >= M + M
      BY <1>3, <1>7
    <2> QED BY <1>2, <1>3, <1>5, <1>7, <1>8, <2>1, <2>2
  <1>10. s1 = IF s + d < M THEN s + d ELSE s + d - M
    BY <1>2, <1>3, <1>5, <1>8, <1>9
  <1> QED BY <1>2, <1>4, <1>10

\* What is in the air.
AirOK ==
    /\ vt_us \in Nat /\ seen \in Nat
    /\ \A m \in air : m \in GoodPdus /\ m.sn = m.n % SnModulo /\ m.n < vt_us
    /\ \A m, o \in air : m.n = o.n => m = o
    /\ seen <= vt_us /\ vt_us <= seen + Window
\* A multicast channel keeps the order.
OrderOK == rx.win = 0 => rx.uh = seen % SnModulo /\ \A m \in air : seen <= m.n
\* The receiver between two handlers.
RxOK == rx \in RxRecords /\ rx.out = <<>> /\ WindowOK(rx) /\ TimerOK(rx)
OutOK == delivered \in Seq(Seq(Byte)) /\ lossy \in BOOLEAN
LinkInv == AirOK /\ OrderOK /\ RxOK /\ OutOK
UmInv == SegmentInv /\ LinkInv

\* A handler ends.
LEMMA HandledIs ==
    ASSUME NEW r \in RxRecords, WindowOK(r), TimerOK(r), Handled(r), delivered \in Seq(Seq(Byte))
    PROVE  RxOK' /\ rx'.win = r.win /\ rx'.uh = r.uh /\ delivered' \in Seq(Seq(Byte))
  <1>1. PICK empty : empty \in Seq(Seq(Byte)) /\ empty = <<>>
    <2>1. <<>> \in Seq(Seq(Byte))
      OBVIOUS
    <2> QED BY <2>1, Zenon
  <1>2. PICK x : x = [r EXCEPT !.out = empty]
    OBVIOUS
  <1>3. /\ x \in RxRecords /\ x.win = r.win /\ x.ur = r.ur /\ x.ux = r.ux /\ x.uh = r.uh
        /\ x.running = r.running /\ x.dar = r.dar /\ x.out = <<>>
    BY <1>1, <1>2 DEF RxRecords
  <1>4. WindowOK(x) /\ TimerOK(x)
    BY <1>3 DEF WindowOK, TimerOK
  <1>5. rx' = x /\ delivered' = delivered \o r.out
    BY <1>1, <1>2 DEF Handled
  <1>6. r.out \in Seq(Seq(Byte))
    BY RxFields
  <1>7. RxOK'
    <2>1. rx' \in RxRecords /\ rx'.out = <<>> /\ WindowOK(rx') /\ TimerOK(rx')
      BY <1>3, <1>4, <1>5
    <2> QED BY <2>1 DEF RxOK, WindowOK, TimerOK, RxRecords
  <1> QED BY <1>3, <1>5, <1>6, <1>7

\* The larger of two numbers.
LEMMA MaxOfTwo ==
    ASSUME NEW a \in Int, NEW b \in Int
    PROVE  Max({a, b}) = IF a >= b THEN a ELSE b
  <1>1. \E x \in {a, b} : \A y \in {a, b} : x >= y
    OBVIOUS
  <1>2. PICK m : m = Max({a, b})
    OBVIOUS
  <1>3. m \in {a, b} /\ \A y \in {a, b} : m >= y
    BY <1>1, <1>2, Zenon DEF Max
  <1> QED BY <1>2, <1>3

\* A PDU arrives.
LEMMA ArriveStep ==
    ASSUME LinkInv, NEW m \in air, NEW stays \in BOOLEAN, Arrive(m, stays)
    PROVE  LinkInv'
  <1>1. PICK r : r = ReceiveProcessDar(rx, m)
    OBVIOUS
  <1>2. /\ m \in GoodPdus /\ m.sn = m.n % SnModulo /\ m.n < vt_us /\ m.n \in Nat /\ m.sn \in Sns
        /\ vt_us \in Nat /\ seen \in Nat /\ seen <= vt_us
        /\ vt_us <= seen + Window
    BY DEF LinkInv, AirOK, GoodPdus, Pdus
  <1>3. rx \in RxRecords /\ WindowOK(rx) /\ TimerOK(rx) /\ rx.uh \in Sns /\ rx.win \in {0, Window}
    BY RxFields DEF LinkInv, RxOK
  <1>4. Window \in Nat \ {0} /\ SnModulo = Window + Window /\ Sns = 0 .. SnModulo - 1
    BY Modulus
  <1>5. seen' = IF seen >= m.n + 1 THEN seen ELSE m.n + 1
    BY <1>2, MaxOfTwo DEF Arrive
  <1>6. seen' \in Nat /\ seen' >= seen /\ seen' >= m.n + 1
    BY <1>2, <1>5
  <1>7. Handled(r) /\ vt_us' = vt_us /\ lossy' = lossy /\ delivered \in Seq(Seq(Byte))
    BY <1>1 DEF Arrive, LinkInv, OutOK
  <1>8. air' \in SUBSET air /\ (~stays => air' = air \ {m})
    BY DEF Arrive
  <1>9. AirOK'
    <2>1. vt_us' \in Nat /\ seen' <= vt_us' /\ vt_us' <= seen' + Window
      <3>1. PICK W, v, e, e1, n : W = Window /\ v = vt_us /\ e = seen /\ e1 = seen' /\ n = m.n
        OBVIOUS
      <3>2. /\ W \in Nat /\ v \in Nat /\ e \in Nat /\ e1 \in Nat /\ n \in Nat /\ n < v /\ e <= v
            /\ v <= e + W /\ e1 >= e /\ e1 = IF e >= n + 1 THEN e ELSE n + 1
        BY <1>2, <1>4, <1>5, <1>6, <3>1
      <3>3. e1 <= v /\ v <= e1 + W
        BY <3>2
      <3> QED BY <1>7, <3>1, <3>2, <3>3
    <2>2. \A o \in air' : o \in air
      BY <1>8
    <2>3. \A o \in air' : o \in GoodPdus /\ o.sn = o.n % SnModulo /\ o.n < vt_us'
      BY <1>7, <2>2 DEF LinkInv, AirOK
    <2>4. \A o, p \in air' : o.n = p.n => o = p
      BY <2>2 DEF LinkInv, AirOK
    <2> QED BY <1>6, <2>1, <2>3, <2>4 DEF AirOK, Window, GoodPdus, Pdus, Sns
  <1>10. CASE rx.win = Window
    <2>1. r \in RxRecords /\ r.win = Window /\ WindowOK(r) /\ TimerOK(r)
      BY <1>1, <1>2, <1>3, <1>10, ReceiveIs
    <2>2. RxOK' /\ rx'.win = Window /\ delivered' \in Seq(Seq(Byte))
      BY <1>7, <2>1, HandledIs
    <2>3. rx'.win # 0
      BY <1>4, <2>2
    <2> QED BY <1>7, <1>9, <2>2, <2>3 DEF LinkInv, OrderOK, OutOK
  <1>11. CASE rx.win = 0
    <2>1. rx.uh = seen % SnModulo /\ seen <= m.n
      BY <1>11 DEF LinkInv, OrderOK
    <2>2. PICK d, u : d = m.n - seen /\ u = seen % SnModulo
      OBVIOUS
    <2>3. d \in 0 .. Window - 1 /\ m.n = seen + d /\ d \in 0 .. SnModulo - 1 /\ u \in Sns
      <3>1. PICK W, v, e, n : W = Window /\ v = vt_us /\ e = seen /\ n = m.n
        OBVIOUS
      <3>2. /\ W \in Nat \ {0} /\ v \in Nat /\ e \in Nat /\ n \in Nat /\ n < v /\ e <= n
            /\ v <= e + W /\ d = n - e
        BY <1>2, <1>4, <2>1, <2>2, <3>1
      <3>3. d \in 0 .. W - 1 /\ n = e + d /\ d \in 0 .. W + W - 1
        BY <3>2
      <3> QED BY <1>3, <1>4, <2>1, <2>2, <3>1, <3>3
    <2>4. m.sn = IF u + d < SnModulo THEN u + d ELSE u + d - SnModulo
      <3>1. (seen + d) % SnModulo = IF (seen % SnModulo) + d < SnModulo THEN (seen % SnModulo) + d
                                    ELSE (seen % SnModulo) + d - SnModulo
        BY <1>2, <2>3, NumberIs
      <3> QED BY <1>2, <2>2, <2>3, <3>1
    <2>5. Ahead(m.sn, rx.uh) < Window
      <3>1. Ahead(m.sn, rx.uh) = IF m.sn >= rx.uh THEN m.sn - rx.uh ELSE m.sn - rx.uh + SnModulo
        BY <1>2, <1>3, AheadIs
      <3>2. PICK W, s, a : W = Window /\ s = m.sn /\ a = Ahead(m.sn, rx.uh)
        OBVIOUS
      <3>3. /\ W \in Nat \ {0} /\ s \in 0 .. W + W - 1 /\ u \in 0 .. W + W - 1 /\ d \in 0 .. W - 1
            /\ s = (IF u + d < W + W THEN u + d ELSE u + d - (W + W))
            /\ a = (IF s >= u THEN s - u ELSE s - u + (W + W))
        <4>1. W \in Nat \ {0} /\ SnModulo = W + W /\ rx.uh = u
          BY <1>4, <2>1, <2>2, <3>2
        <4>2. s \in 0 .. W + W - 1 /\ u \in 0 .. W + W - 1
          BY <1>2, <1>4, <2>3, <3>2, <4>1
        <4>3. s = IF u + d < W + W THEN u + d ELSE u + d - (W + W)
          BY <2>4, <3>2, <4>1
        <4>4. a = IF s >= u THEN s - u ELSE s - u + (W + W)
          BY <3>1, <3>2, <4>1
        <4> QED BY <2>3, <3>2, <4>1, <4>2, <4>3, <4>4
      <3>4. a < W
        BY <3>3
      <3> QED BY <3>2, <3>4
    <2>6. r \in RxRecords /\ r.win = 0 /\ WindowOK(r) /\ TimerOK(r) /\ r.uh = Succ(m.sn)
      BY <1>1, <1>2, <1>3, <1>11, <2>5, MulticastIs
    <2>7. RxOK' /\ rx'.win = 0 /\ rx'.uh = Succ(m.sn) /\ delivered' \in Seq(Seq(Byte))
      BY <1>7, <2>6, HandledIs
    <2>8. seen' = m.n + 1
      BY <1>2, <1>5, <2>1
    <2>9. Succ(m.sn) = (m.n + 1) % SnModulo
      <3>1. 1 \in 0 .. SnModulo - 1
        BY <1>4
      <3>2. (m.n + 1) % SnModulo = IF (m.n % SnModulo) + 1 < SnModulo THEN (m.n % SnModulo) + 1
                                   ELSE (m.n % SnModulo) + 1 - SnModulo
        BY <1>2, <3>1, NumberIs
      <3>3. Succ(m.sn) = IF m.sn + 1 < SnModulo THEN m.sn + 1 ELSE 0
        BY <1>2, SuccIs
      <3> QED BY <1>2, <1>4, <3>2, <3>3
    <2>10. ASSUME NEW o \in air' PROVE seen' <= o.n
      <3>1. ~stays
        BY <1>11 DEF Arrive
      <3>2. o \in air /\ o # m
        BY <1>8, <3>1
      <3>3. m.n <= o.n /\ o.n # m.n
        BY <1>11, <3>2 DEF Arrive, InOrder, LinkInv, AirOK
      <3>4. o.n \in Nat
        BY <3>2 DEF LinkInv, AirOK, GoodPdus, Pdus
      <3> QED BY <1>2, <2>8, <3>3, <3>4
    <2>11. OrderOK'
      BY <2>7, <2>8, <2>9, <2>10 DEF OrderOK
    <2> QED BY <1>7, <1>9, <2>7, <2>11 DEF LinkInv, OutOK
  <1> QED BY <1>3, <1>10, <1>11

\* t-Reordering expires.
LEMMA ExpireStep == ASSUME LinkInv, ReorderingExpires PROVE LinkInv'
  <1>1. PICK r : r = TimerDarTimeOut(rx)
    OBVIOUS
  <1>2. rx \in RxRecords /\ rx.running /\ WindowOK(rx) /\ TimerOK(rx) /\ delivered \in Seq(Seq(Byte))
    BY DEF LinkInv, RxOK, OutOK, ReorderingExpires
  <1>3. r \in RxRecords /\ r.win = rx.win /\ WindowOK(r) /\ TimerOK(r)
    BY <1>1, <1>2, TimeOutIs
  <1>4. Handled(r) /\ UNCHANGED <<vt_us, air, seen>> /\ lossy' = TRUE
    BY <1>1 DEF ReorderingExpires, umTxVars
  <1>5. RxOK' /\ rx'.win = r.win /\ delivered' \in Seq(Seq(Byte))
    BY <1>2, <1>3, <1>4, HandledIs
  <1>6. rx.win = Window /\ Window # 0
    BY <1>2, Modulus DEF TimerOK
  <1>7. AirOK' /\ OrderOK'
    BY <1>3, <1>4, <1>5, <1>6 DEF LinkInv, AirOK, OrderOK, Window, GoodPdus, Pdus, Sns
  <1> QED BY <1>4, <1>5, <1>7 DEF LinkInv, OutOK

\* A PDU is sent.
LEMMA GrantStep ==
    ASSUME SegmentInv, LinkInv, NEW grant \in UmGrants, MacGrant(grant)
    PROVE  LinkInv'
  <1>1. UmSegment(grant) /\ WithinWindow /\ UNCHANGED <<rx, delivered, seen, lossy>>
    BY DEF MacGrant
  <1>2. vt_us' = vt_us + 1 /\ vt_us \in Nat
    BY <1>1, SegmentSdus DEF SegmentInv
  <1>3. PICK p \in GoodPdus : p.n = vt_us /\ p.sn = vt_us % SnModulo /\ air' = air \cup {p}
    BY <1>1, SegmentSdus DEF SegmentInv
  <1>4. seen \in Nat /\ vt_us < seen + Window /\ Window \in Nat
    BY <1>1, Modulus DEF WithinWindow, LinkInv, AirOK
  <1>5. \A o \in air : o \in GoodPdus /\ o.n \in Nat /\ o.n < vt_us /\ o.sn = o.n % SnModulo
    BY DEF LinkInv, AirOK, GoodPdus, Pdus
  <1>6. vt_us' \in Nat /\ seen <= vt_us' /\ vt_us' <= seen + Window
    <2>1. seen <= vt_us
      BY DEF LinkInv, AirOK
    <2> QED BY <1>2, <1>4, <2>1
  <1>7. \A o \in air' : o \in GoodPdus /\ o.sn = o.n % SnModulo /\ o.n < vt_us'
    BY <1>2, <1>3, <1>5
  <1>8. \A o, q \in air' : o.n = q.n => o = q
    <2>1. \A o, q \in air : o.n = q.n => o = q
      BY DEF LinkInv, AirOK
    <2>2. \A o \in air : o.n # p.n
      BY <1>2, <1>3, <1>5
    <2> QED BY <1>3, <2>1, <2>2
  <1>9. AirOK'
    BY <1>1, <1>4, <1>6, <1>7, <1>8 DEF AirOK, Window, GoodPdus, Pdus, Sns
  <1>10. OrderOK'
    <2>1. ASSUME rx.win = 0 PROVE rx.uh = seen % SnModulo /\ seen <= vt_us /\ \A o \in air : seen <= o.n
      BY <2>1 DEF LinkInv, AirOK, OrderOK
    <2> QED BY <1>1, <1>3, <2>1 DEF OrderOK
  <1> QED BY <1>1, <1>9, <1>10 DEF LinkInv, RxOK, OutOK, WindowOK, TimerOK

\* Nothing that the receiving side uses changes.
LEMMA KeepsLink ==
    ASSUME LinkInv, UNCHANGED <<vt_us, air, seen, rx, delivered, lossy>>
    PROVE  LinkInv'
  BY DEF LinkInv, AirOK, OrderOK, RxOK, OutOK, WindowOK, TimerOK

\* A PDU is lost.
LEMMA LoseStep == ASSUME LinkInv, NEW m \in air, Lose(m) PROVE LinkInv'
  <1>1. /\ air' = air \ {m} /\ lossy' = TRUE /\ vt_us' = vt_us /\ seen' = seen /\ rx' = rx
        /\ delivered' = delivered
    BY DEF Lose
  <1>2. AirOK' /\ OrderOK'
    <2>1. \A o \in air' : o \in air
      BY <1>1
    <2> QED BY <1>1, <2>1 DEF LinkInv, AirOK, OrderOK
  <1>3. RxOK' /\ OutOK'
    BY <1>1 DEF LinkInv, RxOK, OutOK, WindowOK, TimerOK
  <1> QED BY <1>2, <1>3 DEF LinkInv

\* The steps of the bearer.
LEMMA UmInvStep == ASSUME UmInv, [UmNext]_umVars PROVE UmInv'
  <1>1. SegmentInv /\ LinkInv /\ SegmentInv'
    BY SegmentInvStep DEF UmInv
  <1>2. ASSUME NEW size \in UmSduSizes, UpperDataReq(size) PROVE LinkInv'
    BY <1>1, <1>2, KeepsLink DEF UpperDataReq, UmDataReq
  <1>3. ASSUME NEW grant \in UmGrants, MacGrant(grant) PROVE LinkInv'
    BY <1>1, <1>3, GrantStep
  <1>4. ASSUME NEW m \in air, Lose(m) PROVE LinkInv'
    BY <1>1, <1>4, LoseStep
  <1>5. ASSUME NEW m \in air, NEW stays \in BOOLEAN, Arrive(m, stays) PROVE LinkInv'
    BY <1>1, <1>5, ArriveStep
  <1>6. ASSUME ReorderingExpires PROVE LinkInv'
    BY <1>1, <1>6, ExpireStep
  <1>7. ASSUME UNCHANGED umVars PROVE LinkInv'
    BY <1>1, <1>7, KeepsLink DEF umVars, umTxVars
  <1>8. LinkInv'
    BY <1>2, <1>3, <1>4, <1>5, <1>6, <1>7 DEF UmNext
  <1> QED BY <1>1, <1>8 DEF UmInv

\* The invariant holds of the start.
LEMMA UmInvInit == ASSUME UmInit PROVE UmInv
  <1>1. /\ vt_us = 0 /\ seen = 0 /\ air = {} /\ delivered = <<>> /\ lossy = FALSE
    BY DEF UmInit, UmTxInit, UmRxInit
  <1>2. PICK win \in {0, Window} :
           rx = [win |-> win, ur |-> 0, ux |-> 0, uh |-> 0,
                 dar |-> [sn \in Sns |-> NoPdu], running |-> FALSE,
                 sdu |-> <<>>, missing |-> FALSE, last |-> SnModulo - 1, out |-> <<>>]
    BY DEF UmInit, UmRxInit, Window
  <1>3. /\ Window \in Nat \ {0} /\ SnModulo \in Nat \ {0} /\ Sns = 0 .. SnModulo - 1
        /\ 0 \in Sns /\ SnModulo - 1 \in Sns
    BY Modulus
  <1>4. Ahead(0, 0) = 0 /\ 0 % SnModulo = 0
    BY <1>3, ReachIs, SmallMod
  <1>5. AirOK
    BY <1>1, <1>3 DEF AirOK
  <1>6. PICK dar : dar = [sn \in Sns |-> NoPdu]
    OBVIOUS
  <1>7. dar \in [Sns -> GoodPdus \cup {NoPdu}] /\ \A sn \in Sns : dar[sn] = NoPdu
    BY <1>6
  <1>8. /\ rx \in RxRecords /\ rx.win = win /\ rx.ur = 0 /\ rx.uh = 0 /\ rx.dar = dar
        /\ rx.running = FALSE /\ rx.out = <<>>
    <2>1. PICK eb, es : eb \in Seq(Byte) /\ es \in Seq(Seq(Byte)) /\ eb = <<>> /\ es = <<>>
      <3>1. <<>> \in Seq(Byte) /\ <<>> \in Seq(Seq(Byte))
        OBVIOUS
      <3> QED BY <3>1, Zenon
    <2>2. rx = [win |-> win, ur |-> 0, ux |-> 0, uh |-> 0, dar |-> dar, running |-> FALSE,
                sdu |-> eb, missing |-> FALSE, last |-> SnModulo - 1, out |-> es]
      BY <1>2, <1>6, <2>1
    <2> QED BY <1>3, <1>7, <2>1, <2>2 DEF RxRecords
  <1>9. RxOK
    <2>1. 0 <= win
      BY <1>3
    <2> QED BY <1>4, <1>7, <1>8, <2>1 DEF RxOK, WindowOK, TimerOK
  <1>10. OrderOK
    BY <1>1, <1>4, <1>8 DEF OrderOK
  <1>11. OutOK
    <2>1. <<>> \in Seq(Seq(Byte))
      OBVIOUS
    <2> QED BY <1>1, <2>1, Zenon DEF OutOK
  <1>12. SegmentInv
    BY SegmentInvInit
  <1> QED BY <1>5, <1>9, <1>10, <1>11, <1>12 DEF UmInv, LinkInv

(***************************************************************************)
(* For every modulus: the window of rlc_um_dar.c is in order between two   *)
(* handlers.                                                               *)
(***************************************************************************)
THEOREM UmWindowCorrect == UmSpec => []UmWindow
  <1>1. UmInit => UmInv
    BY UmInvInit
  <1>2. UmInv /\ [UmNext]_umVars => UmInv'
    BY UmInvStep
  <1>3. UmInv => UmWindow
    BY DEF UmInv, LinkInv, RxOK, WindowOK, TimerOK, UmWindow
  <1> QED BY <1>1, <1>2, <1>3, PTL DEF UmSpec

\* For every value of the constants, the state variables keep their types and ranges.
THEOREM UmTypeCorrect == UmSpec => []UmTypeOK
  <1>1. UmInit => UmInv
    BY UmInvInit
  <1>2. UmInv /\ [UmNext]_umVars => UmInv'
    BY UmInvStep
  <1>3. ASSUME UmInv PROVE UmTypeOK
    <2>1. SegmentInv /\ AirOK /\ RxOK /\ OutOK
      BY <1>3 DEF UmInv, LinkInv
    <2>2. vt_us \in Nat /\ seen \in Nat
      BY <2>1 DEF AirOK
    <2>3. buffer_occupancy \in Nat
      BY <2>1, OccupancyIs DEF SegmentInv
    <2>4. input_sdus \in Seq([id : Nat, size : UmSduSizes, remaining : Nat \ {0}])
      BY <2>1 DEF SegmentInv, SduInv, SdusOK, SduRecords
    <2>5. air \subseteq Pdus
      BY <2>1 DEF AirOK, GoodPdus
    <2>6. rx \in [win : {0, Window}, ur : Sns, ux : Sns, uh : Sns, last : Sns,
                  dar : [Sns -> Pdus \cup {NoPdu}], running : BOOLEAN,
                  missing : BOOLEAN, sdu : Seq(Nat \X Nat), out : {<<>>}]
      <3>1. rx \in RxRecords /\ rx.out = <<>>
        BY <2>1 DEF RxOK
      <3>2. rx.dar \in [Sns -> GoodPdus \cup {NoPdu}]
        BY <3>1, RxFields
      <3>3. rx.dar \in [Sns -> Pdus \cup {NoPdu}]
        <4>1. \A sn \in Sns : rx.dar[sn] \in Pdus \cup {NoPdu}
          BY <3>2 DEF GoodPdus
        <4> QED BY <3>2, <4>1
      <3> QED BY <3>1, <3>3 DEF RxRecords, Byte
    <2>7. delivered \in Seq(Seq(Nat \X Nat)) /\ lossy \in BOOLEAN
      BY <2>1 DEF OutOK, Byte
    <2> QED BY <2>2, <2>3, <2>4, <2>5, <2>6, <2>7 DEF UmTypeOK
  <1> QED BY <1>1, <1>2, <1>3, PTL DEF UmSpec
====
