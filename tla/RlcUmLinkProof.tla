--------------------------- MODULE RlcUmLinkProof ----------------------------
(***************************************************************************)
(* Proofs about the bytes an unacknowledged-mode bearer carries, with the  *)
(* 5-bit header, for every modulus, every grant and every size of the      *)
(* SDUs: what comes out are SDUs that were handed over, whole, in order,   *)
(* none twice, and all of them when nothing was lost.                      *)
(*                                                                         *)
(* The argument follows the cuts the segmentation makes in the stream of   *)
(* SDUs.  PDU n starts at byte o[n] of SDU c[n] and ends where PDU n + 1   *)
(* starts; z[k] is the size of SDU k.  The numbers c and o are no state of *)
(* the program: the invariant says that they exist.                        *)
(***************************************************************************)
EXTENDS RlcUmProof

-----------------------------------------------------------------------------
(* Bytes. *)

Sizes == Seq(Nat \ {0})
Whole(z, k) == SduBytes(k, 1, z[k])
IdOf(bytes) == bytes[1][1]

\* Some bytes of an SDU.
LEMMA BytesAre ==
    ASSUME NEW k \in Nat, NEW from \in Nat \ {0}, NEW n \in Nat
    PROVE  /\ SduBytes(k, from, n) \in Seq(Byte)
           /\ Len(SduBytes(k, from, n)) = n
           /\ \A j \in 1 .. n : SduBytes(k, from, n)[j] = <<k, from + j - 1>>
           /\ n = 0 => SduBytes(k, from, n) = <<>>
  <1>1. PICK s : s = [j \in 1 .. n |-> <<k, from + j - 1>>]
    OBVIOUS
  <1>2. \A j \in 1 .. n : <<k, from + j - 1>> \in Byte
    BY DEF Byte
  <1>3. s \in Seq(Byte) /\ Len(s) = n /\ \A j \in 1 .. n : s[j] = <<k, from + j - 1>>
    <2>1. s \in [1 .. n -> Byte]
      BY <1>1, <1>2
    <2>2. s \in Seq(Byte) /\ Len(s) = n
      BY <2>1
    <2> QED BY <1>1, <2>2
  <1>4. n = 0 => s = <<>>
    BY <1>3
  <1> QED BY <1>1, <1>3, <1>4 DEF SduBytes

\* Its first bytes.
LEMMA FirstBytesAre ==
    ASSUME NEW k \in Nat, NEW n \in Nat
    PROVE  /\ SduBytes(k, 1, n) \in Seq(Byte) /\ Len(SduBytes(k, 1, n)) = n
           /\ \A j \in 1 .. n : SduBytes(k, 1, n)[j] = <<k, j>>
           /\ n = 0 => SduBytes(k, 1, n) = <<>>
  <1>1. 1 \in Nat \ {0}
    OBVIOUS
  <1>2. /\ SduBytes(k, 1, n) \in Seq(Byte) /\ Len(SduBytes(k, 1, n)) = n
        /\ \A j \in 1 .. n : SduBytes(k, 1, n)[j] = <<k, 1 + j - 1>>
        /\ n = 0 => SduBytes(k, 1, n) = <<>>
    BY <1>1, BytesAre, Zenon
  <1>3. \A j \in 1 .. n : 1 + j - 1 = j
    OBVIOUS
  <1> QED BY <1>2, <1>3, Zenon

\* The start of an SDU and what follows it.
LEMMA BytesJoin ==
    ASSUME NEW k \in Nat, NEW x \in Nat, NEW h \in Nat, x <= h
    PROVE  SduBytes(k, 1, x) \o SduBytes(k, x + 1, h - x) = SduBytes(k, 1, h)
  <1>1. PICK a, b, s : a = SduBytes(k, 1, x) /\ b = SduBytes(k, x + 1, h - x) /\ s = SduBytes(k, 1, h)
    OBVIOUS
  <1>2. a \in Seq(Byte) /\ Len(a) = x /\ \A j \in 1 .. x : a[j] = <<k, j>>
    BY <1>1, FirstBytesAre, Zenon
  <1>3. b \in Seq(Byte) /\ Len(b) = h - x /\ \A j \in 1 .. h - x : b[j] = <<k, (x + 1) + j - 1>>
    <2>1. x + 1 \in Nat \ {0} /\ h - x \in Nat
      OBVIOUS
    <2> QED BY <1>1, <2>1, BytesAre, Zenon
  <1>4. s \in Seq(Byte) /\ Len(s) = h /\ \A j \in 1 .. h : s[j] = <<k, j>>
    BY <1>1, FirstBytesAre, Zenon
  <1>5. PICK t : t = a \o b
    OBVIOUS
  <1>6. /\ t \in Seq(Byte) /\ Len(t) = h
        /\ \A j \in 1 .. h : t[j] = IF j <= x THEN a[j] ELSE b[j - x]
    <2>1. Len(a) + Len(b) = h
      BY <1>2, <1>3
    <2> QED BY <1>2, <1>3, <1>5, <2>1, ConcatProperties
  <1>7. ASSUME NEW j \in 1 .. h PROVE t[j] = s[j]
    <2>1. CASE j <= x
      <3>1. j \in 1 .. x
        BY <2>1
      <3> QED BY <1>2, <1>4, <1>6, <2>1, <3>1
    <2>2. CASE j > x
      <3>1. j - x \in 1 .. h - x /\ (x + 1) + (j - x) - 1 = j /\ ~(j <= x)
        BY <2>2
      <3>2. b[j - x] = <<k, j>>
        BY <1>3, <3>1
      <3> QED BY <1>4, <1>6, <3>1, <3>2
    <2> QED BY <2>1, <2>2
  <1>8. t = s
    BY <1>4, <1>6, <1>7
  <1> QED BY <1>1, <1>5, <1>8

\* A whole SDU.
LEMMA WholeIs ==
    ASSUME NEW z \in Sizes, NEW k \in 1 .. Len(z)
    PROVE  /\ Whole(z, k) \in Seq(Byte) /\ IdOf(Whole(z, k)) = k /\ z[k] \in Nat \ {0}
           /\ Len(Whole(z, k)) = z[k]
  <1>1. k \in Nat /\ z[k] \in Nat \ {0}
    BY DEF Sizes
  <1>2. PICK n \in Nat : n = z[k] /\ 1 \in 1 .. n
    BY <1>1
  <1>3. /\ SduBytes(k, 1, n) \in Seq(Byte) /\ Len(SduBytes(k, 1, n)) = n
        /\ \A j \in 1 .. n : SduBytes(k, 1, n)[j] = <<k, j>>
    BY <1>1, <1>2, FirstBytesAre, Zenon
  <1>4. SduBytes(k, 1, n)[1] = <<k, 1>>
    BY <1>2, <1>3, Zenon
  <1> QED BY <1>1, <1>2, <1>3, <1>4 DEF Whole, IdOf

-----------------------------------------------------------------------------
(* Cuts. *)

\* The cuts between PDU 0 and PDU v are places in the stream, each after the one before it.
Cuts(z, c, o, v) ==
    /\ z \in Sizes /\ c \in [Nat -> Nat] /\ o \in [Nat -> Nat]
    /\ c[0] = 1 /\ o[0] = 0
    /\ \A n \in 0 .. v : c[n] \in 1 .. Len(z) + 1 /\ (o[n] > 0 => c[n] <= Len(z) /\ o[n] < z[c[n]])
    /\ \A n \in 0 .. v - 1 : c[n] < c[n + 1] \/ (c[n] = c[n + 1] /\ o[n] < o[n + 1])

\* Where the part of SDU k that PDU n carries ends.
EndOf(z, c, o, n, k) == IF k = c[n + 1] THEN o[n + 1] ELSE z[k]
StartOf(o, n, i) == IF i = 1 THEN o[n] ELSE 0
PieceOf(z, c, o, n, i) ==
    SduBytes(c[n] + i - 1, StartOf(o, n, i) + 1, EndOf(z, c, o, n, c[n] + i - 1) - StartOf(o, n, i))
Count(c, o, n) == c[n + 1] - c[n] + IF o[n + 1] = 0 THEN 0 ELSE 1

\* A PDU carries the bytes between its cuts.
IsPdu(z, c, o, p, n) ==
    /\ p \in GoodPdus /\ p.n = n /\ p.sn = n % SnModulo
    /\ p.starts <=> o[n] = 0
    /\ p.ends <=> o[n + 1] = 0
    /\ Len(p.pieces) = Count(c, o, n)
    /\ \A i \in 1 .. Count(c, o, n) : p.pieces[i] = PieceOf(z, c, o, n, i)

\* The two cuts of a PDU.
LEMMA CutsAre ==
    ASSUME NEW z, NEW c, NEW o, NEW v \in Nat, Cuts(z, c, o, v), NEW n \in 0 .. v - 1
    PROVE  /\ z \in Sizes /\ Len(z) \in Nat /\ \A k \in 1 .. Len(z) : z[k] \in Nat \ {0}
           /\ c[n] \in 1 .. Len(z) + 1 /\ c[n + 1] \in 1 .. Len(z) + 1 /\ o[n] \in Nat /\ o[n + 1] \in Nat
           /\ o[n] > 0 => c[n] <= Len(z) /\ o[n] < z[c[n]]
           /\ o[n + 1] > 0 => c[n + 1] <= Len(z) /\ o[n + 1] < z[c[n + 1]]
           /\ c[n] < c[n + 1] \/ (c[n] = c[n + 1] /\ o[n] < o[n + 1])
           /\ n \in Nat /\ n + 1 \in Nat
  <1>1. n \in 0 .. v /\ n + 1 \in 0 .. v /\ n \in Nat /\ n + 1 \in Nat
    OBVIOUS
  <1>2. z \in Sizes /\ Len(z) \in Nat /\ \A k \in 1 .. Len(z) : z[k] \in Nat \ {0}
    <2>1. z \in Seq(Nat \ {0})
      BY DEF Cuts, Sizes
    <2>2. PICK S : S = Nat \ {0}
      OBVIOUS
    <2>3. Len(z) \in Nat /\ \A k \in 1 .. Len(z) : z[k] \in S
      BY <2>1, <2>2
    <2> QED BY <2>1, <2>2, <2>3 DEF Sizes
  <1> QED BY <1>1, <1>2 DEF Cuts

\* How many pieces a PDU has, and where they end.
LEMMA PiecesAre ==
    ASSUME NEW z, NEW c, NEW o, NEW v \in Nat, Cuts(z, c, o, v), NEW n \in 0 .. v - 1
    PROVE  /\ Count(c, o, n) \in Nat \ {0}
           /\ \A i \in 1 .. Count(c, o, n) :
                 LET k == c[n] + i - 1
                 IN  /\ k \in 1 .. Len(z) /\ EndOf(z, c, o, n, k) \in Nat
                     /\ StartOf(o, n, i) \in Nat /\ StartOf(o, n, i) <= EndOf(z, c, o, n, k)
  <1>1. PICK a, b, x, y, l : a = c[n] /\ b = c[n + 1] /\ x = o[n] /\ y = o[n + 1] /\ l = Len(z)
    OBVIOUS
  <1>2. /\ l \in Nat /\ a \in 1 .. l + 1 /\ b \in 1 .. l + 1 /\ x \in Nat /\ y \in Nat
        /\ (x > 0 => a <= l /\ x < z[a]) /\ (y > 0 => b <= l /\ y < z[b])
        /\ (a < b \/ (a = b /\ x < y))
        /\ \A k \in 1 .. l : z[k] \in Nat \ {0}
    BY <1>1, CutsAre
  <1>3. Count(c, o, n) = b - a + IF y = 0 THEN 0 ELSE 1
    BY <1>1 DEF Count
  <1>4. Count(c, o, n) \in Nat \ {0}
    BY <1>2, <1>3
  <1>5. ASSUME NEW i \in 1 .. Count(c, o, n), NEW k, k = c[n] + i - 1
        PROVE  /\ k \in 1 .. Len(z) /\ EndOf(z, c, o, n, k) \in Nat
               /\ StartOf(o, n, i) \in Nat /\ StartOf(o, n, i) <= EndOf(z, c, o, n, k)
    <2>1. i \in Nat /\ i >= 1 /\ i <= b - a + (IF y = 0 THEN 0 ELSE 1) /\ k = a + i - 1
      BY <1>1, <1>3, <1>4, <1>5
    <2>2. k \in 1 .. l
      BY <1>2, <2>1
    <2>3. z[k] \in Nat \ {0}
      BY <1>2, <2>2
    <2>4. EndOf(z, c, o, n, k) = IF k = b THEN y ELSE z[k]
      BY <1>1 DEF EndOf
    <2>5. StartOf(o, n, i) = IF i = 1 THEN x ELSE 0
      BY <1>1 DEF StartOf
    <2>6. StartOf(o, n, i) <= EndOf(z, c, o, n, k)
      <3>1. CASE i # 1
        BY <1>2, <2>3, <2>4, <2>5, <3>1
      <3>2. CASE i = 1 /\ k = b
        <4>1. a = b
          BY <1>2, <2>1, <3>2
        <4> QED BY <1>2, <2>4, <2>5, <3>2, <4>1
      <3>3. CASE i = 1 /\ k # b
        <4>1. k = a
          BY <1>2, <2>1, <3>3
        <4> QED BY <1>2, <2>3, <2>4, <2>5, <3>3, <4>1
      <3> QED BY <3>1, <3>2, <3>3
    <2> QED BY <1>1, <1>2, <2>2, <2>3, <2>4, <2>5, <2>6
  <1> QED BY <1>4, <1>5

-----------------------------------------------------------------------------
(* The reassembly of one PDU. *)

\* The SDU in construction when the next PDU is PDU n: its bytes before the cut, or nothing.
Building(c, o, r, n) ==
    /\ r.missing => r.sdu = <<>>
    /\ ~r.missing => r.sdu = SduBytes(c[n], 1, o[n])
\* The first SDU that can come out: not one whose start is missing.
FirstOut(c, o, r, n) == IF r.missing /\ o[n] # 0 THEN c[n] + 1 ELSE c[n]

\* A piece of a PDU after the first one, and the first one.
LEMMA PieceIs ==
    ASSUME NEW z, NEW c, NEW o, NEW v \in Nat, Cuts(z, c, o, v), NEW n \in 0 .. v - 1,
           NEW i \in 1 .. Count(c, o, n)
    PROVE  /\ PieceOf(z, c, o, n, i) \in Seq(Byte)
           /\ i # 1 => PieceOf(z, c, o, n, i)
                         = SduBytes(c[n] + i - 1, 1, EndOf(z, c, o, n, c[n] + i - 1))
           /\ i = 1 => SduBytes(c[n], 1, o[n]) \o PieceOf(z, c, o, n, i)
                         = SduBytes(c[n], 1, EndOf(z, c, o, n, c[n]))
  <1>1. PICK k, h, x : k = c[n] + i - 1 /\ h = EndOf(z, c, o, n, k) /\ x = StartOf(o, n, i)
    OBVIOUS
  <1>2. /\ k \in 1 .. Len(z) /\ h \in Nat /\ x \in Nat /\ x <= h
        /\ Len(z) \in Nat /\ c[n] \in 1 .. Len(z) + 1 /\ o[n] \in Nat
    BY <1>1, PiecesAre, CutsAre
  <1>3. k \in Nat /\ x + 1 \in Nat \ {0} /\ h - x \in Nat
    BY <1>2
  <1>4. PieceOf(z, c, o, n, i) = SduBytes(k, x + 1, h - x)
    BY <1>1 DEF PieceOf
  <1>5. PieceOf(z, c, o, n, i) \in Seq(Byte)
    <2>1. SduBytes(k, x + 1, h - x) \in Seq(Byte)
      BY <1>3, BytesAre, Zenon
    <2> QED BY <1>4, <2>1
  <1>6. ASSUME i # 1 PROVE PieceOf(z, c, o, n, i) = SduBytes(k, 1, h)
    <2>1. x = 0
      BY <1>1, <1>6 DEF StartOf
    <2>2. x + 1 = 1 /\ h - x = h
      BY <1>2, <2>1
    <2> QED BY <1>4, <2>2
  <1>7. ASSUME i = 1 PROVE SduBytes(c[n], 1, o[n]) \o PieceOf(z, c, o, n, i) = SduBytes(k, 1, h) /\ k = c[n]
    <2>1. x = o[n] /\ k = c[n]
      BY <1>1, <1>2, <1>7 DEF StartOf
    <2>2. SduBytes(k, 1, x) \o SduBytes(k, x + 1, h - x) = SduBytes(k, 1, h)
      BY <1>2, <1>3, BytesJoin, Zenon
    <2> QED BY <1>4, <2>1, <2>2
  <1> QED BY <1>1, <1>5, <1>6, <1>7

\* What rlc_um_reassembly takes of a PDU, and what the pieces of PDU n join to.
Taken(r, p) == IF Skipped(r, p) THEN Tail(p.pieces) ELSE p.pieces
Begun(r, p) == IF p.starts THEN <<>> ELSE r.sdu
Joined(r, p) == [i \in 1 .. Len(Taken(r, p)) |->
                    IF i = 1 THEN Begun(r, p) \o Taken(r, p)[1] ELSE Taken(r, p)[i]]

\* The pieces that are taken join to the starts of the SDUs up to the next cut.
LEMMA JoinedAre ==
    ASSUME NEW z, NEW c, NEW o, NEW v \in Nat, Cuts(z, c, o, v), NEW n \in 0 .. v - 1,
           NEW p, IsPdu(z, c, o, p, n), NEW r \in RxRecords, Building(c, o, r, n)
    PROVE  LET m == Len(Taken(r, p))
               d == FirstOut(c, o, r, n)
           IN  /\ m \in Nat /\ m = c[n + 1] - d + IF o[n + 1] = 0 THEN 0 ELSE 1
               /\ \A i \in 1 .. m :
                     Joined(r, p)[i] = SduBytes(d + i - 1, 1, EndOf(z, c, o, n, d + i - 1))
               /\ m = 0 => Begun(r, p) = <<>>
               /\ ~r.missing => m # 0
  <1>1. PICK m, d, begun, pieces, joined :
           /\ m = Len(Taken(r, p)) /\ d = FirstOut(c, o, r, n) /\ begun = Begun(r, p)
           /\ pieces = Taken(r, p) /\ joined = Joined(r, p)
    OBVIOUS
  <1>2. PICK q : q = p.pieces
    OBVIOUS
  <1>3. /\ q \in Seq(Seq(Byte)) /\ p.starts \in BOOLEAN /\ p.ends \in BOOLEAN
        /\ (p.starts <=> o[n] = 0) /\ Len(q) = Count(c, o, n)
        /\ \A i \in 1 .. Count(c, o, n) : q[i] = PieceOf(z, c, o, n, i)
    BY <1>2 DEF IsPdu, GoodPdus, Pdus, Byte
  <1>4. PICK a, b, g, l : /\ a = c[n] /\ b = c[n + 1] /\ l = Count(c, o, n)
                          /\ g = IF o[n + 1] = 0 THEN 0 ELSE 1
    OBVIOUS
  <1>5. /\ a \in Nat /\ b \in Nat /\ o[n] \in Nat /\ g \in {0, 1} /\ l \in Nat \ {0} /\ l = b - a + g
    <2>1. a \in Nat /\ b \in Nat /\ o[n] \in Nat
      BY <1>4, CutsAre
    <2>2. l \in Nat \ {0} /\ l = b - a + g
      BY <1>4, PiecesAre DEF Count
    <2> QED BY <1>4, <2>1, <2>2
  <1>6. \A i \in 1 .. l : /\ q[i] \in Seq(Byte)
                          /\ i # 1 => q[i] = SduBytes(a + i - 1, 1, EndOf(z, c, o, n, a + i - 1))
                          /\ i = 1 => SduBytes(a, 1, o[n]) \o q[i] = SduBytes(a, 1, EndOf(z, c, o, n, a))
    <2> SUFFICES ASSUME NEW i \in 1 .. Count(c, o, n)
                 PROVE  /\ q[i] \in Seq(Byte)
                        /\ i # 1 => q[i] = SduBytes(a + i - 1, 1, EndOf(z, c, o, n, a + i - 1))
                        /\ i = 1 => SduBytes(a, 1, o[n]) \o q[i] = SduBytes(a, 1, EndOf(z, c, o, n, a))
      BY <1>4
    <2>1. q[i] = PieceOf(z, c, o, n, i)
      BY <1>3
    <2>2. /\ PieceOf(z, c, o, n, i) \in Seq(Byte)
          /\ i # 1 => PieceOf(z, c, o, n, i)
                         = SduBytes(c[n] + i - 1, 1, EndOf(z, c, o, n, c[n] + i - 1))
          /\ i = 1 => SduBytes(c[n], 1, o[n]) \o PieceOf(z, c, o, n, i)
                         = SduBytes(c[n], 1, EndOf(z, c, o, n, c[n]))
      BY PieceIs
    <2> QED BY <1>4, <2>1, <2>2
  <1>7. r.missing \in BOOLEAN /\ r.sdu \in Seq(Byte)
    BY RxFields
  <1>8. joined = [i \in 1 .. m |-> IF i = 1 THEN begun \o pieces[1] ELSE pieces[i]]
    BY <1>1 DEF Joined
  <1>9. CASE Skipped(r, p)
    <2>1. ~p.starts /\ r.missing /\ d = a + 1 /\ begun = <<>>
      BY <1>1, <1>3, <1>4, <1>9 DEF Skipped, FirstOut, Building, Begun
    <2>2. q # <<>>
      BY <1>3, <1>4, <1>5
    <2>3. pieces = Tail(q) /\ Len(pieces) = Len(q) - 1 /\ \A i \in 1 .. Len(q) - 1 : pieces[i] = q[i + 1]
      BY <1>1, <1>2, <1>3, <1>9, <2>2, HeadTailProperties DEF Taken
    <2>4. m = l - 1
      BY <1>1, <1>3, <1>4, <2>3
    <2>5. m \in Nat /\ m = b - d + g
      BY <1>5, <2>1, <2>4
    <2>6. ASSUME NEW i \in 1 .. m
          PROVE  joined[i] = SduBytes(d + i - 1, 1, EndOf(z, c, o, n, d + i - 1))
      <3>1. i + 1 \in 1 .. l /\ i + 1 # 1 /\ a + (i + 1) - 1 = d + i - 1 /\ i \in 1 .. l - 1
        BY <1>5, <2>1, <2>4, <2>5
      <3>2. pieces[i] = q[i + 1]
        BY <1>3, <1>4, <2>3, <3>1
      <3>3. q[i + 1] \in Seq(Byte) /\ q[i + 1] = SduBytes(d + i - 1, 1, EndOf(z, c, o, n, d + i - 1))
        BY <1>6, <3>1
      <3>4. joined[i] = pieces[i]
        <4>1. CASE i = 1
          <5>1. <<>> \o pieces[i] = pieces[i]
            BY <3>2, <3>3
          <5> QED BY <1>8, <2>1, <4>1, <5>1
        <4>2. CASE i # 1
          BY <1>8, <4>2
        <4> QED BY <4>1, <4>2
      <3> QED BY <3>2, <3>3, <3>4
    <2> QED BY <1>1, <1>4, <2>1, <2>5, <2>6
  <1>10. CASE ~Skipped(r, p)
    <2>1. d = a /\ pieces = q
      BY <1>1, <1>2, <1>3, <1>4, <1>7, <1>10 DEF Skipped, FirstOut, Taken
    <2>2. begun = SduBytes(a, 1, o[n])
      <3>1. CASE p.starts
        <4>1. o[n] = 0 /\ SduBytes(a, 1, o[n]) = <<>>
          BY <1>3, <1>5, <3>1, FirstBytesAre
        <4> QED BY <1>1, <3>1, <4>1 DEF Begun
      <3>2. CASE ~p.starts
        BY <1>1, <1>4, <1>7, <1>10, <3>2 DEF Skipped, Building, Begun
      <3> QED BY <3>1, <3>2
    <2>3. m = l
      BY <1>1, <1>3, <1>4, <2>1
    <2>4. m \in Nat \ {0} /\ m = b - d + g
      BY <1>5, <2>1, <2>3
    <2>5. ASSUME NEW i \in 1 .. m
          PROVE  joined[i] = SduBytes(d + i - 1, 1, EndOf(z, c, o, n, d + i - 1))
      <3>1. i \in 1 .. l
        BY <2>3
      <3>2. CASE i = 1
        <4>1. d + i - 1 = a
          BY <1>5, <2>1, <3>2
        <4>2. SduBytes(a, 1, o[n]) \o q[i] = SduBytes(a, 1, EndOf(z, c, o, n, a))
          BY <1>6, <3>1, <3>2
        <4>3. joined[i] = begun \o q[i]
          BY <1>8, <2>1, <3>2
        <4> QED BY <2>2, <4>1, <4>2, <4>3
      <3>3. CASE i # 1
        <4>1. joined[i] = q[i]
          BY <1>8, <2>1, <3>3
        <4>2. q[i] = SduBytes(a + i - 1, 1, EndOf(z, c, o, n, a + i - 1))
          BY <1>6, <3>1, <3>3
        <4> QED BY <2>1, <4>1, <4>2
      <3> QED BY <3>2, <3>3
    <2> QED BY <1>1, <1>4, <2>4, <2>5
  <1> QED BY <1>9, <1>10

\* What a PDU that was received adds to what comes out, and what it leaves in construction.
Adds(z, c, o, n, d, r, t) ==
    /\ Building(c, o, t, n + 1) /\ t.last = r.last /\ (~r.missing => ~t.missing)
    /\ \E run \in Seq(Seq(Byte)) :
          /\ t.out = r.out \o run
          /\ Len(run) = IF d <= c[n + 1] THEN c[n + 1] - d ELSE 0
          /\ \A i \in 1 .. Len(run) : run[i] = Whole(z, d + i - 1)

\* rlc_um_reassembly of PDU n adds the SDUs that end in it.
LEMMA PduReassembled ==
    ASSUME NEW z, NEW c, NEW o, NEW v \in Nat, Cuts(z, c, o, v), NEW n \in 0 .. v - 1,
           NEW p, IsPdu(z, c, o, p, n), NEW r \in RxRecords, Building(c, o, r, n)
    PROVE  Adds(z, c, o, n, FirstOut(c, o, r, n), r, Reassembly(r, p))
  <1>1. PICK t, d, m, begun, joined :
           /\ t = Reassembly(r, p) /\ d = FirstOut(c, o, r, n)
           /\ m = Len(Taken(r, p)) /\ begun = Begun(r, p) /\ joined = Joined(r, p)
    OBVIOUS
  <1>2. PICK g, b, y : g = (IF o[n + 1] = 0 THEN 0 ELSE 1) /\ b = c[n + 1] /\ y = o[n + 1]
    OBVIOUS
  <1>3. /\ m \in Nat /\ m = b - d + g
        /\ \A i \in 1 .. m : joined[i] = SduBytes(d + i - 1, 1, EndOf(z, c, o, n, d + i - 1))
        /\ (m = 0 => begun = <<>>) /\ (~r.missing => m # 0)
    BY <1>1, <1>2, JoinedAre
  <1>4. PICK run, sdu, missing, e :
           /\ run = SubSeq(joined, 1, e)
           /\ sdu = IF m = 0 THEN begun ELSE IF p.ends THEN <<>> ELSE joined[m]
           /\ missing = (m = 0 /\ ~p.ends)
           /\ e = IF p.ends THEN m ELSE m - 1
    OBVIOUS
  <1>5. t = [r EXCEPT !.out = r.out \o run, !.sdu = sdu, !.missing = missing]
    BY <1>1, <1>4 DEF Reassembly, Taken, Begun, Joined
  <1>6. t.out = r.out \o run /\ t.sdu = sdu /\ t.missing = missing /\ t.last = r.last
    BY <1>5 DEF RxRecords
  <1>7. /\ b \in Nat /\ y \in Nat /\ z \in Sizes /\ Len(z) \in Nat /\ b <= Len(z) + 1
        /\ d \in Nat /\ d >= 1 /\ g \in {0, 1} /\ (g = 0 <=> y = 0)
    BY <1>1, <1>2, CutsAre DEF FirstOut
  <1>8. p.ends \in BOOLEAN /\ (p.ends <=> y = 0)
    BY <1>2 DEF IsPdu, GoodPdus, Pdus
  <1>9. e = b - d /\ e \in Int
    BY <1>3, <1>4, <1>7, <1>8
  <1>10. \A i \in 1 .. e : i \in 1 .. m /\ d + i - 1 < b /\ d + i - 1 \in 1 .. Len(z)
    BY <1>3, <1>7, <1>9
  <1>11. ASSUME NEW i \in 1 .. e PROVE joined[i] = Whole(z, d + i - 1) /\ joined[i] \in Seq(Byte)
    <2>1. i \in 1 .. m /\ d + i - 1 # b /\ d + i - 1 \in 1 .. Len(z)
      BY <1>7, <1>10
    <2>2. joined[i] = SduBytes(d + i - 1, 1, EndOf(z, c, o, n, d + i - 1))
      BY <1>3, <2>1
    <2>3. EndOf(z, c, o, n, d + i - 1) = z[d + i - 1]
      BY <1>2, <2>1 DEF EndOf
    <2>4. joined[i] = Whole(z, d + i - 1)
      BY <2>2, <2>3 DEF Whole
    <2> QED BY <1>7, <2>1, <2>4, WholeIs
  <1>12. /\ run \in Seq(Seq(Byte)) /\ Len(run) = IF 1 <= e THEN e - 1 + 1 ELSE 0
         /\ \A i \in 1 .. e - 1 + 1 : run[i] = joined[1 + i - 1]
    <2>1. \A i \in 1 .. e : joined[i] \in Seq(Byte)
      BY <1>11
    <2> QED BY <1>4, <1>9, <2>1, SubSeqProperties
  <1>13. Len(run) = IF d <= b THEN b - d ELSE 0
    BY <1>7, <1>9, <1>12
  <1>14. ASSUME NEW i \in 1 .. Len(run) PROVE run[i] = Whole(z, d + i - 1)
    <2>1. i \in 1 .. e /\ i \in 1 .. e - 1 + 1 /\ 1 + i - 1 = i
      BY <1>7, <1>9, <1>12
    <2> QED BY <1>11, <1>12, <2>1
  <1>15. SduBytes(b, 1, 0) = <<>>
    BY <1>7, FirstBytesAre
  <1>16. Building(c, o, t, n + 1)
    <2>1. CASE m = 0
      <3>1. t.sdu = <<>>
        BY <1>3, <1>4, <1>6, <2>1
      <3>2. ~t.missing => y = 0
        BY <1>4, <1>6, <1>8, <2>1
      <3> QED BY <1>2, <1>15, <3>1, <3>2 DEF Building
    <2>2. CASE m # 0 /\ p.ends
      <3>1. t.sdu = <<>> /\ y = 0
        BY <1>4, <1>6, <1>8, <2>2
      <3> QED BY <1>2, <1>15, <3>1 DEF Building
    <2>3. CASE m # 0 /\ ~p.ends
      <3>1. t.sdu = joined[m] /\ ~t.missing /\ y # 0
        BY <1>4, <1>6, <1>8, <2>3
      <3>2. m \in 1 .. m /\ d + m - 1 = b
        BY <1>3, <1>7, <2>3, <3>1
      <3>3. joined[m] = SduBytes(b, 1, EndOf(z, c, o, n, b))
        BY <1>3, <3>2
      <3>4. EndOf(z, c, o, n, b) = y
        BY <1>2 DEF EndOf
      <3> QED BY <1>2, <3>1, <3>3, <3>4 DEF Building
    <2> QED BY <1>8, <2>1, <2>2, <2>3
  <1>17. ~r.missing => ~t.missing
    BY <1>3, <1>4, <1>6
  <1>18. Adds(z, c, o, n, d, r, t)
    BY <1>2, <1>6, <1>12, <1>13, <1>14, <1>16, <1>17 DEF Adds
  <1> QED BY <1>1, <1>18

-----------------------------------------------------------------------------
(* What has come out. *)

\* SDUs below SDU top, whole, in order, none twice; all of them when nothing was lost.
Done(z, done, top, full) ==
    /\ done \in Seq(Seq(Byte))
    /\ \A i \in 1 .. Len(done) : IdOf(done[i]) \in 1 .. top - 1 /\ done[i] = Whole(z, IdOf(done[i]))
    /\ \A i, j \in 1 .. Len(done) : i < j => IdOf(done[i]) < IdOf(done[j])
    /\ full => Len(done) = top - 1 /\ \A i \in 1 .. Len(done) : IdOf(done[i]) = i

\* The SDUs from d to b - 1 come out as well.
LEMMA DoneGrows ==
    ASSUME NEW z \in Sizes, NEW top \in Nat \ {0}, NEW done, NEW full, Done(z, done, top, full),
           NEW d \in Nat, top <= d, NEW b \in Nat, top <= b, b <= Len(z) + 1,
           NEW run \in Seq(Seq(Byte)), Len(run) = (IF d <= b THEN b - d ELSE 0),
           \A i \in 1 .. Len(run) : run[i] = Whole(z, d + i - 1),
           NEW all, all => full /\ d = top
    PROVE  Done(z, done \o run, b, all)
  <1>1. PICK x, l, e : x = done \o run /\ l = Len(done) /\ e = Len(run)
    OBVIOUS
  <1>2. done \in Seq(Seq(Byte)) /\ l \in Nat /\ e \in Nat /\ Len(z) \in Nat
    BY <1>1 DEF Done, Sizes
  <1>3. /\ x \in Seq(Seq(Byte)) /\ Len(x) = l + e
        /\ \A i \in 1 .. l + e : x[i] = IF i <= l THEN done[i] ELSE run[i - l]
    BY <1>1, <1>2, ConcatProperties
  <1>4. ASSUME NEW i \in 1 .. l PROVE /\ x[i] = done[i] /\ IdOf(x[i]) \in 1 .. top - 1
                                      /\ x[i] = Whole(z, IdOf(x[i])) /\ (all => IdOf(x[i]) = i)
    <2>1. i \in 1 .. l + e /\ i <= l
      BY <1>2
    <2>2. x[i] = done[i]
      BY <1>3, <2>1
    <2> QED BY <1>1, <2>2 DEF Done
  <1>5. ASSUME NEW i \in 1 .. l + e, i > l
        PROVE  /\ IdOf(x[i]) = d + (i - l) - 1 /\ x[i] = Whole(z, IdOf(x[i]))
               /\ IdOf(x[i]) \in d .. b - 1
    <2>1. i - l \in 1 .. e /\ ~(i <= l) /\ d + (i - l) - 1 \in 1 .. Len(z) /\ d + (i - l) - 1 \in d .. b - 1
      BY <1>1, <1>2, <1>5
    <2>2. x[i] = Whole(z, d + (i - l) - 1)
      BY <1>1, <1>3, <2>1
    <2>3. IdOf(Whole(z, d + (i - l) - 1)) = d + (i - l) - 1
      BY <2>1, WholeIs
    <2> QED BY <2>1, <2>2, <2>3
  <1>6. ASSUME NEW i \in 1 .. l + e PROVE IdOf(x[i]) \in 1 .. b - 1 /\ x[i] = Whole(z, IdOf(x[i]))
    <2>1. CASE i <= l
      <3>1. i \in 1 .. l
        BY <1>2, <2>1
      <3> QED BY <1>4, <3>1
    <2>2. CASE i > l
      BY <1>5, <2>2
    <2> QED BY <1>2, <2>1, <2>2
  <1>7. ASSUME NEW i \in 1 .. l + e, NEW j \in 1 .. l + e, i < j PROVE IdOf(x[i]) < IdOf(x[j])
    <2>1. CASE j <= l
      <3>1. i \in 1 .. l /\ j \in 1 .. l
        BY <1>2, <1>7, <2>1
      <3>2. IdOf(done[i]) < IdOf(done[j])
        BY <1>1, <1>7, <3>1 DEF Done
      <3> QED BY <1>4, <3>1, <3>2
    <2>2. CASE i <= l /\ j > l
      <3>1. i \in 1 .. l
        BY <1>2, <2>2
      <3>2. IdOf(x[i]) \in 1 .. top - 1 /\ IdOf(x[j]) \in d .. b - 1
        BY <1>4, <1>5, <2>2, <3>1
      <3> QED BY <3>2
    <2>3. CASE i > l
      <3>1. j > l
        BY <1>2, <1>7, <2>3
      <3>2. IdOf(x[i]) = d + (i - l) - 1 /\ IdOf(x[j]) = d + (j - l) - 1
        BY <1>5, <2>3, <3>1
      <3> QED BY <1>2, <1>7, <3>2
    <2> QED BY <1>2, <2>1, <2>2, <2>3
  <1>8. ASSUME all PROVE l + e = b - 1 /\ \A i \in 1 .. l + e : IdOf(x[i]) = i
    <2>1. full /\ d = top /\ l = top - 1 /\ e = b - d
      BY <1>1, <1>8 DEF Done
    <2>2. l + e = b - 1
      BY <2>1
    <2>3. ASSUME NEW i \in 1 .. l + e PROVE IdOf(x[i]) = i
      <3>1. CASE i <= l
        <4>1. i \in 1 .. l
          BY <1>2, <3>1
        <4> QED BY <1>4, <1>8, <4>1
      <3>2. CASE i > l
        <4>1. IdOf(x[i]) = d + (i - l) - 1
          BY <1>5, <3>2
        <4> QED BY <1>2, <2>1, <4>1
      <3> QED BY <1>2, <3>1, <3>2
    <2> QED BY <2>2, <2>3
  <1>9. Done(z, x, b, all)
    BY <1>3, <1>6, <1>7, <1>8 DEF Done
  <1> QED BY <1>1, <1>9

\* The receiver has gone through the PDUs before PDU n, and all of them were there if full.
At(z, c, o, del, r, n, full) ==
    /\ Building(c, o, r, n)
    /\ ~r.missing => Succ(r.last) = n % SnModulo
    /\ full => ~r.missing
    /\ Done(z, del \o r.out, c[n], full)

\* The number after that of PDU n.
LEMMA SuccNumber ==
    ASSUME NEW n \in Nat
    PROVE  Succ(n % SnModulo) = (n + 1) % SnModulo /\ n % SnModulo \in Sns
  <1>1. PICK s, M : s = n % SnModulo /\ M = SnModulo
    OBVIOUS
  <1>2. s \in Sns /\ M \in Nat \ {0} /\ M # 1 /\ Sns = 0 .. M - 1
    <2>1. n % SnModulo \in Sns
      BY SmallMod
    <2> QED BY <1>1, <2>1, Modulus
  <1>3. (n + 1) % M = IF s + 1 < M THEN s + 1 ELSE s + 1 - M
    <2>1. 1 \in 0 .. SnModulo - 1
      BY <1>1, <1>2
    <2> QED BY <1>1, <2>1, NumberIs
  <1>4. Succ(s) = IF s + 1 < M THEN s + 1 ELSE 0
    BY <1>1, <1>2, SuccIs
  <1>5. Succ(s) = (n + 1) % M
    BY <1>2, <1>3, <1>4
  <1> QED BY <1>1, <1>2, <1>5

\* One turn of rlc_um_try_reassembly, at PDU n.
LEMMA TurnIs ==
    ASSUME NEW z, NEW c, NEW o, NEW v \in Nat, Cuts(z, c, o, v), NEW n \in 0 .. v - 1,
           NEW r \in RxRecords, NEW del \in Seq(Seq(Byte)), NEW full, At(z, c, o, del, r, n, full),
           r.dar[n % SnModulo] = NoPdu \/ IsPdu(z, c, o, r.dar[n % SnModulo], n),
           NEW all, all => full /\ r.dar[n % SnModulo] # NoPdu
    PROVE  At(z, c, o, del, ReassemblySn(r, n % SnModulo), n + 1, all)
  <1>1. PICK s, p, t : s = n % SnModulo /\ p = r.dar[s] /\ t = ReassemblySn(r, s)
    OBVIOUS
  <1>2. n \in Nat /\ s \in Sns /\ Succ(s) = (n + 1) % SnModulo
    BY <1>1, SuccNumber
  <1>3. /\ c[n] \in Nat \ {0} /\ c[n + 1] \in Nat /\ c[n] <= c[n + 1] /\ c[n + 1] <= Len(z) + 1
        /\ z \in Sizes
    <2>1. /\ c[n] \in 1 .. Len(z) + 1 /\ c[n + 1] \in 1 .. Len(z) + 1 /\ Len(z) \in Nat /\ z \in Sizes
          /\ c[n] < c[n + 1] \/ c[n] = c[n + 1]
      BY CutsAre
    <2>2. PICK a, b, l : a = c[n] /\ b = c[n + 1] /\ l = Len(z)
      OBVIOUS
    <2>3. a \in Nat \ {0} /\ b \in Nat /\ a <= b /\ b <= l + 1
      BY <2>1, <2>2
    <2> QED BY <2>1, <2>2, <2>3
  <1>4. /\ r.sdu \in Seq(Byte) /\ r.out \in Seq(Seq(Byte)) /\ r.missing \in BOOLEAN /\ r.last \in Sns
        /\ r.dar \in [Sns -> GoodPdus \cup {NoPdu}]
    BY RxFields
  <1>5. PICK d : d = FirstOut(c, o, r, n)
    OBVIOUS
  <1>6. d \in Nat /\ c[n] <= d /\ (~r.missing => d = c[n])
    BY <1>3, <1>5 DEF FirstOut
  <1>7. CASE p = NoPdu
    <2>1. t = [r EXCEPT !.missing = TRUE, !.sdu = <<>>]
      BY <1>1, <1>7 DEF ReassemblySn
    <2>2. t.missing = TRUE /\ t.sdu = <<>> /\ t.out = r.out
      BY <2>1 DEF RxRecords
    <2>3. ~all
      BY <1>1, <1>7
    <2>4. Done(z, del \o t.out, c[n + 1], all)
      <3>1. Done(z, del \o r.out, c[n], full)
        BY DEF At
      <3>2. PICK x : x = del \o r.out
        OBVIOUS
      <3>3. \A k \in 1 .. c[n] - 1 : k \in 1 .. c[n + 1] - 1
        BY <1>3
      <3>4. Done(z, x, c[n + 1], all)
        BY <2>3, <3>1, <3>2, <3>3 DEF Done
      <3> QED BY <2>2, <3>2, <3>4
    <2>5. Building(c, o, t, n + 1)
      BY <2>2 DEF Building
    <2> QED BY <1>1, <2>2, <2>3, <2>4, <2>5 DEF At
  <1>8. CASE p # NoPdu
    <2>1. IsPdu(z, c, o, p, n)
      BY <1>1, <1>8
    <2>2. PICK x : x = [r EXCEPT !.sdu = IF Succ(r.last) = s THEN @ ELSE <<>>, !.last = s, !.dar[s] = NoPdu]
      OBVIOUS
    <2>3. t = Reassembly(x, p)
      BY <1>1, <1>8, <2>2 DEF ReassemblySn
    <2>4. (IF Succ(r.last) = s THEN r.sdu ELSE <<>>) = r.sdu
      <3>1. CASE r.missing
        BY <3>1 DEF At, Building
      <3>2. CASE ~r.missing
        BY <1>1, <3>2 DEF At
      <3> QED BY <1>4, <3>1, <3>2
    <2>5. /\ x \in RxRecords /\ x.sdu = r.sdu /\ x.missing = r.missing /\ x.out = r.out /\ x.last = s
      <3>1. PICK dar : dar = [r.dar EXCEPT ![s] = NoPdu]
        OBVIOUS
      <3>2. dar \in [Sns -> GoodPdus \cup {NoPdu}]
        BY <1>4, <3>1
      <3>3. PICK y : y = [r EXCEPT !.last = s]
        OBVIOUS
      <3>4. y \in RxRecords /\ y.sdu = r.sdu /\ y.missing = r.missing /\ y.out = r.out /\ y.last = s
            /\ y.dar = r.dar
        BY <1>2, <3>3 DEF RxRecords
      <3>5. x = [y EXCEPT !.dar = dar]
        <4>1. x = [r EXCEPT !.sdu = r.sdu, !.last = s, !.dar = dar]
          BY <2>2, <2>4, <3>1 DEF RxRecords
        <4> QED BY <3>3, <4>1 DEF RxRecords
      <3> QED BY <3>2, <3>4, <3>5 DEF RxRecords
    <2>6. Building(c, o, x, n) /\ FirstOut(c, o, x, n) = d
      BY <1>5, <2>5 DEF At, Building, FirstOut
    <2>7. /\ Building(c, o, t, n + 1) /\ t.last = x.last /\ (~x.missing => ~t.missing)
          /\ \E run \in Seq(Seq(Byte)) :
                /\ t.out = x.out \o run
                /\ Len(run) = IF d <= c[n + 1] THEN c[n + 1] - d ELSE 0
                /\ \A i \in 1 .. Len(run) : run[i] = Whole(z, d + i - 1)
      <3>1. x \in RxRecords /\ Building(c, o, x, n)
        BY <2>5, <2>6
      <3>2. Adds(z, c, o, n, FirstOut(c, o, x, n), x, Reassembly(x, p))
        BY <2>1, <3>1, PduReassembled
      <3> QED BY <2>3, <2>6, <3>2 DEF Adds
    <2>8. PICK run \in Seq(Seq(Byte)) :
             /\ t.out = r.out \o run
             /\ Len(run) = IF d <= c[n + 1] THEN c[n + 1] - d ELSE 0
             /\ \A i \in 1 .. Len(run) : run[i] = Whole(z, d + i - 1)
      BY <2>5, <2>7
    <2>9. all => full /\ d = c[n] /\ ~r.missing
      BY <1>6 DEF At
    <2>10. Done(z, (del \o r.out) \o run, c[n + 1], all)
      <3>1. Done(z, del \o r.out, c[n], full)
        BY DEF At
      <3>2. all => full /\ d = c[n]
        BY <2>9
      <3>3. PICK a, b, y, f : a = c[n] /\ b = c[n + 1] /\ y = del \o r.out /\ f = full
        OBVIOUS
      <3>4. a \in Nat \ {0} /\ b \in Nat /\ a <= b /\ b <= Len(z) + 1 /\ a <= d /\ Done(z, y, a, f)
            /\ (all => f /\ d = a) /\ Len(run) = (IF d <= b THEN b - d ELSE 0)
        BY <1>3, <1>6, <2>8, <3>1, <3>2, <3>3
      <3>5. Done(z, y \o run, b, all)
        BY <1>3, <1>6, <2>8, <3>4, DoneGrows
      <3> QED BY <3>3, <3>5
    <2>11. (del \o r.out) \o run = del \o t.out
      <3>1. PICK S, y : S = Seq(Byte) /\ y = r.out
        OBVIOUS
      <3>2. del \in Seq(S) /\ y \in Seq(S) /\ run \in Seq(S)
        BY <1>4, <3>1
      <3>3. (del \o y) \o run = del \o (y \o run)
        BY <3>2, ConcatAssociative
      <3> QED BY <2>8, <3>1, <3>3
    <2>12. ~t.missing => Succ(t.last) = (n + 1) % SnModulo
      BY <1>2, <2>5, <2>7
    <2>13. all => ~t.missing
      BY <2>5, <2>7, <2>9
    <2> QED BY <1>1, <2>7, <2>10, <2>11, <2>12, <2>13 DEF At
  <1> QED BY <1>7, <1>8

-----------------------------------------------------------------------------
(* PDU numbers and sequence numbers. *)

\* The sequence number d after that of PDU n.
LEMMA NumberAfter ==
    ASSUME NEW n \in Nat, NEW d \in 0 .. SnModulo - 1
    PROVE  /\ n % SnModulo \in Sns /\ (n + d) % SnModulo \in Sns
           /\ ((n % SnModulo) + d) % SnModulo = (n + d) % SnModulo
           /\ Ahead((n + d) % SnModulo, n % SnModulo) = d
  <1>1. PICK M, b, x : M = SnModulo /\ b = n % SnModulo /\ x = (n + d) % SnModulo
    OBVIOUS
  <1>2. b \in Sns /\ x \in Sns /\ M \in Nat \ {0} /\ Sns = 0 .. M - 1
    <2>1. M \in Nat \ {0} /\ Sns = 0 .. M - 1
      BY <1>1, Modulus
    <2>2. n \in Int /\ n + d \in Int
      BY <1>1, <2>1
    <2> QED BY <1>1, <2>1, <2>2, SmallMod
  <1>3. x = IF b + d < M THEN b + d ELSE b + d - M
    BY <1>1, NumberIs
  <1>4. d \in 0 .. SnModulo /\ d # SnModulo
    BY <1>1, <1>2
  <1>5. /\ (b + d) % SnModulo = IF b + d < SnModulo THEN b + d ELSE b + d - SnModulo
        /\ Ahead((b + d) % SnModulo, b) = IF d = SnModulo THEN 0 ELSE d
    BY <1>2, <1>4, StepIs
  <1>6. (b + d) % SnModulo = x
    BY <1>1, <1>3, <1>5
  <1> QED BY <1>1, <1>2, <1>4, <1>5, <1>6

\* Two PDUs that are less than the modulus apart have different numbers.
LEMMA SameNumber ==
    ASSUME NEW a \in Nat, NEW b \in Nat, a <= b, b < a + SnModulo, a % SnModulo = b % SnModulo
    PROVE  a = b
  <1>1. PICK d : d = b - a
    OBVIOUS
  <1>2. SnModulo \in Nat \ {0}
    BY Modulus
  <1>3. d \in 0 .. SnModulo - 1 /\ a + d = b
    BY <1>1, <1>2
  <1>4. a % SnModulo \in Sns /\ Ahead(b % SnModulo, a % SnModulo) = d
    BY <1>3, NumberAfter
  <1>5. Ahead(a % SnModulo, a % SnModulo) = 0
    BY <1>4, ReachIs
  <1> QED BY <1>1, <1>4, <1>5

\* The sequence number d before that of a PDU.
LEMMA NumberBefore ==
    ASSUME NEW n \in Nat, NEW d \in 0 .. SnModulo
    PROVE  Ahead(n % SnModulo, (n + d) % SnModulo) = IF d = 0 \/ d = SnModulo THEN 0 ELSE SnModulo - d
  <1>1. SnModulo \in Nat \ {0} /\ SnModulo # 1
    BY Modulus
  <1>2. CASE d # SnModulo
    <2>1. d \in 0 .. SnModulo - 1
      BY <1>1, <1>2
    <2>2. /\ n % SnModulo \in Sns /\ (n + d) % SnModulo \in Sns
          /\ Ahead((n + d) % SnModulo, n % SnModulo) = d
      BY <2>1, NumberAfter
    <2> QED BY <1>2, <2>2, AheadBack
  <1>3. CASE d = SnModulo
    <2>1. n + 1 \in Nat /\ SnModulo - 1 \in 0 .. SnModulo - 1 /\ (n + 1) + (SnModulo - 1) = n + d
      BY <1>1, <1>3
    <2>2. PICK M, s, x, y : /\ M = SnModulo /\ s = n % SnModulo /\ x = (n + 1) % SnModulo
                            /\ y = (n + d) % SnModulo
      OBVIOUS
    <2>3. y = IF x + (M - 1) < M THEN x + (M - 1) ELSE x + (M - 1) - M
      BY <2>1, <2>2, NumberIs
    <2>4. Succ(s) = x /\ s \in Sns
      BY <2>2, SuccNumber
    <2>5. x = IF s + 1 < M THEN s + 1 ELSE 0
      BY <2>2, <2>4, SuccIs
    <2>6. s \in 0 .. M - 1
      BY <2>2, <2>4, Modulus
    <2>7. y = s
      BY <1>1, <2>2, <2>3, <2>5, <2>6
    <2>8. Ahead(s, s) = 0
      BY <2>4, ReachIs
    <2> QED BY <1>3, <2>2, <2>7, <2>8
  <1> QED BY <1>2, <1>3

-----------------------------------------------------------------------------
(* The reassembly of the PDUs from PDU U to PDU V - 1. *)

Ran(z, c, o, del, r, U, V, all, t) ==
    /\ t \in RxRecords /\ SameWindow(t, r)
    /\ At(z, c, o, del, t, V, all)
    /\ \A j \in U .. V - 1 : t.dar[j % SnModulo] = NoPdu
    /\ \A x \in Sns : (\A j \in U .. V - 1 : x # j % SnModulo) => t.dar[x] = r.dar[x]

\* rlc_um_try_reassembly goes through the PDUs from PDU U to PDU V - 1, in their order.
LEMMA RunIs ==
    ASSUME NEW z, NEW c, NEW o, NEW v \in Nat, Cuts(z, c, o, v),
           NEW r \in RxRecords, NEW del \in Seq(Seq(Byte)), NEW full, NEW U \in Nat,
           At(z, c, o, del, r, U, full),
           NEW V \in (U + 1) .. v, V - U < SnModulo,
           \A j \in U .. V - 1 :
              r.dar[j % SnModulo] = NoPdu \/ IsPdu(z, c, o, r.dar[j % SnModulo], j),
           \A j \in (U + 1) .. V - 1 : j % SnModulo # r.uh,
           NEW all, all => full /\ \A j \in U .. V - 1 : r.dar[j % SnModulo] # NoPdu
    PROVE  Ran(z, c, o, del, r, U, V, all, TryReassembly(r, U % SnModulo, V % SnModulo))
  <1>1. PICK M, g, a, b : M = SnModulo /\ g = V - U /\ a = U % SnModulo /\ b = V % SnModulo
    OBVIOUS
  <1>2. M \in Nat \ {0} /\ g \in 1 .. M - 1 /\ g \in Nat /\ U + g = V
    BY <1>1, Modulus
  <1>3. a \in Sns /\ b \in Sns /\ Ahead(b, a) = g
    BY <1>1, <1>2, NumberAfter
  <1>4. a # b
    BY <1>2, <1>3, ReachIs
  <1>5. \A k \in 0 .. g : /\ (a + k) % SnModulo = (U + k) % SnModulo /\ (U + k) % SnModulo \in Sns
    <2>1. \A k \in 0 .. g : k \in 0 .. SnModulo - 1
      BY <1>1, <1>2
    <2> QED BY <1>1, <2>1, NumberAfter
  <1>6. ASSUME NEW k \in 1 .. g - 1 PROVE (a + k) % SnModulo # r.uh
    <2>1. U + k \in (U + 1) .. V - 1 /\ k \in 0 .. g
      BY <1>2
    <2> QED BY <1>5, <2>1
  <1>7. PICK f \in [0 .. g -> RxRecords] :
           /\ f[0] = r /\ TryReassembly(r, a, b) = f[g]
           /\ \A k \in 1 .. g : f[k] = ReassemblySn(f[k - 1], (a + (k - 1)) % SnModulo)
    <2>1. \A k \in 1 .. Ahead(b, a) - 1 : (a + k) % SnModulo # r.uh
      BY <1>3, <1>6
    <2>2. Turns(r, a, b, Ahead(b, a))
      BY <1>3, <1>4, <2>1, TryReassemblyTurns
    <2> QED BY <1>3, <2>2 DEF Turns
  <1> DEFINE T == {k \in 0 .. g : Ran(z, c, o, del, r, U, U + k, all, f[k])}
  <1>8. 0 \in T
    <2>1. At(z, c, o, del, r, U, all)
      BY DEF At, Done
    <2>2. U .. U - 1 = {} /\ U + 0 = U
      OBVIOUS
    <2>3. Ran(z, c, o, del, r, U, U, all, r)
      BY <2>1, <2>2 DEF Ran, SameWindow
    <2> QED BY <1>2, <1>7, <2>2, <2>3
  <1>9. ASSUME NEW k \in 0 .. g - 1, k \in T PROVE k + 1 \in T
    <2>1. /\ k + 1 \in 1 .. g /\ (k + 1) - 1 = k /\ k + 1 \in 0 .. g /\ k \in 0 .. g /\ k \in Nat
          /\ U + k \in 0 .. v - 1 /\ U + k \in U .. V - 1 /\ U + k \in Nat /\ (U + k) + 1 = U + (k + 1)
      BY <1>2
    <2>2. PICK t, s, x, n : t = f[k] /\ n = U + k /\ s = n % SnModulo /\ x = f[k + 1]
      OBVIOUS
    <2>3. Ran(z, c, o, del, r, U, n, all, t) /\ s \in Sns
      BY <1>5, <1>9, <2>1, <2>2
    <2>4. x = ReassemblySn(t, s)
      BY <1>5, <1>7, <2>1, <2>2
    <2>5. \A j \in U .. n - 1 : s # j % SnModulo
      <3> SUFFICES ASSUME NEW j \in U .. n - 1, s = j % SnModulo PROVE FALSE
        OBVIOUS
      <3>1. j \in Nat /\ n \in Nat /\ j <= n /\ n < j + SnModulo /\ j # n
        BY <1>1, <1>2, <2>1, <2>2
      <3> QED BY <2>2, <3>1, SameNumber
    <2>6. t.dar[s] = r.dar[s]
      BY <2>3, <2>5 DEF Ran
    <2>7. n \in 0 .. v - 1 /\ n \in U .. V - 1 /\ t \in RxRecords /\ At(z, c, o, del, t, n, all)
      BY <2>1, <2>2, <2>3 DEF Ran
    <2>8. /\ t.dar[n % SnModulo] = NoPdu \/ IsPdu(z, c, o, t.dar[n % SnModulo], n)
          /\ all => all /\ t.dar[n % SnModulo] # NoPdu
      BY <2>2, <2>6, <2>7
    <2>9. At(z, c, o, del, x, n + 1, all)
      <3>1. At(z, c, o, del, ReassemblySn(t, n % SnModulo), n + 1, all)
        BY <2>7, <2>8, TurnIs
      <3> QED BY <2>2, <2>4, <3>1
    <2>10. x \in RxRecords /\ SameWindow(x, t) /\ x.dar = [t.dar EXCEPT ![s] = NoPdu]
      BY <2>3, <2>4, <2>7, ReassemblySnIs
    <2>11. t.dar \in [Sns -> GoodPdus \cup {NoPdu}]
      BY <2>7, RxFields
    <2>12. SameWindow(x, r)
      BY <2>3, <2>10 DEF Ran, SameWindow
    <2>13. ASSUME NEW j \in U .. (n + 1) - 1 PROVE x.dar[j % SnModulo] = NoPdu
      <3>1. j \in Nat /\ (j = n \/ j \in U .. n - 1)
        BY <2>1, <2>2
      <3>2. j % SnModulo \in Sns
        BY <3>1, SuccNumber
      <3>3. CASE j = n
        BY <2>2, <2>3, <2>10, <2>11, <3>3
      <3>4. CASE j \in U .. n - 1
        <4>1. t.dar[j % SnModulo] = NoPdu
          BY <2>3, <3>4 DEF Ran
        <4> QED BY <2>3, <2>10, <2>11, <3>2, <4>1
      <3> QED BY <3>1, <3>3, <3>4
    <2>14. ASSUME NEW y \in Sns, \A j \in U .. (n + 1) - 1 : y # j % SnModulo PROVE x.dar[y] = r.dar[y]
      <3>1. n \in U .. (n + 1) - 1 /\ \A j \in U .. n - 1 : j \in U .. (n + 1) - 1
        BY <2>1, <2>2
      <3>2. y # s /\ \A j \in U .. n - 1 : y # j % SnModulo
        BY <2>2, <2>14, <3>1
      <3>3. t.dar[y] = r.dar[y]
        BY <2>3, <3>2 DEF Ran
      <3> QED BY <2>3, <2>10, <2>11, <3>2, <3>3
    <2>15. Ran(z, c, o, del, r, U, n + 1, all, x)
      BY <2>9, <2>10, <2>12, <2>13, <2>14 DEF Ran
    <2> QED BY <2>1, <2>2, <2>15
  <1> HIDE DEF T
  <1>10. g \in T
    <2>1. g \in 0 .. g
      BY <1>2
    <2> QED BY <1>2, <1>8, <1>9, <2>1, InductionTo
  <1>11. Ran(z, c, o, del, r, U, U + g, all, f[g])
    BY <1>10 DEF T
  <1> QED BY <1>1, <1>2, <1>7, <1>11

-----------------------------------------------------------------------------
(* The receiver, with the PDU numbers its sequence numbers stand for. *)

\* The buffer holds PDUs from PDU U to PDU K - 1.
Held(z, c, o, r, U, K) ==
    \A sn \in Sns : r.dar[sn] # NoPdu =>
       \E n \in U .. K - 1 : sn = n % SnModulo /\ IsPdu(z, c, o, r.dar[sn], n)

\* VR(UR) is the number of PDU U and VR(UH) that of PDU H.
RxAt(z, c, o, del, r, U, H, full) ==
    /\ r \in RxRecords /\ U \in Nat /\ H \in Nat
    /\ U <= H /\ H <= U + r.win
    /\ r.ur = U % SnModulo /\ r.uh = H % SnModulo
    /\ Held(z, c, o, r, U, H)
    /\ At(z, c, o, del, r, U, full)

\* A slot of the buffer holds its PDU, or nothing.
LEMMA SlotIs ==
    ASSUME NEW z, NEW c, NEW o, NEW r, NEW U \in Nat, NEW K \in Nat, K <= U + SnModulo,
           Held(z, c, o, r, U, K), NEW n \in U .. U + SnModulo - 1
    PROVE  /\ r.dar[n % SnModulo] = NoPdu \/ IsPdu(z, c, o, r.dar[n % SnModulo], n)
           /\ n >= K => r.dar[n % SnModulo] = NoPdu
  <1> SUFFICES ASSUME r.dar[n % SnModulo] # NoPdu
               PROVE  IsPdu(z, c, o, r.dar[n % SnModulo], n) /\ ~(n >= K)
    OBVIOUS
  <1>1. SnModulo \in Nat \ {0} /\ n \in Nat
    BY Modulus
  <1>2. n % SnModulo \in Sns
    BY <1>1, SuccNumber
  <1>3. PICK j \in U .. K - 1 : n % SnModulo = j % SnModulo /\ IsPdu(z, c, o, r.dar[n % SnModulo], j)
    BY <1>2 DEF Held
  <1>4. j \in Nat /\ j < n + SnModulo /\ n < j + SnModulo /\ j < K
    BY <1>1
  <1>5. j = n
    <2>1. CASE j <= n
      BY <1>1, <1>3, <1>4, <2>1, SameNumber
    <2>2. CASE n <= j
      BY <1>1, <1>3, <1>4, <2>2, SameNumber
    <2> QED BY <1>1, <1>4, <2>1, <2>2
  <1> QED BY <1>1, <1>3, <1>4, <1>5

\* Two slots of the buffer.
LEMMA SlotsDiffer ==
    ASSUME NEW a \in Nat, NEW b \in Nat, a < b, b < a + SnModulo
    PROVE  a % SnModulo # b % SnModulo
  BY SameNumber

\* The window moves up from PDU U to PDU V.
Advanced(z, c, o, del, r, V, K, all, t) ==
    /\ t \in RxRecords /\ SameWindow(t, r)
    /\ Held(z, c, o, t, V, K)
    /\ At(z, c, o, del, t, V, all)
    /\ \A j \in V .. K - 1 : t.dar[j % SnModulo] = r.dar[j % SnModulo]

\* rlc_um_try_reassembly moves the window up.
LEMMA AdvanceTo ==
    ASSUME NEW z, NEW c, NEW o, NEW v \in Nat, Cuts(z, c, o, v),
           NEW r \in RxRecords, NEW del \in Seq(Seq(Byte)), NEW full,
           NEW U \in Nat, NEW K \in Nat, K <= v, K <= U + SnModulo, Held(z, c, o, r, U, K),
           r.uh = K % SnModulo, At(z, c, o, del, r, U, full),
           NEW V \in U .. K, V - U < SnModulo,
           NEW all, all => full /\ \A j \in U .. V - 1 : r.dar[j % SnModulo] # NoPdu
    PROVE  Advanced(z, c, o, del, r, V, K, all, TryReassembly(r, U % SnModulo, V % SnModulo))
  <1>1. PICK M, t : M = SnModulo /\ t = TryReassembly(r, U % SnModulo, V % SnModulo)
    OBVIOUS
  <1>2. M \in Nat \ {0} /\ V \in Nat /\ V <= K /\ U <= V /\ V < U + M /\ K <= U + M
    BY <1>1, Modulus
  <1>3. CASE V = U
    <2>1. t = r
      BY <1>1, <1>3 DEF TryReassembly
    <2>2. At(z, c, o, del, r, U, all)
      BY DEF At, Done
    <2>3. Advanced(z, c, o, del, r, U, K, all, r)
      BY <2>2 DEF Advanced, SameWindow
    <2> QED BY <1>1, <1>3, <2>1, <2>3
  <1>4. CASE V # U
    <2>1. V \in (U + 1) .. v
      BY <1>2, <1>4
    <2>2. ASSUME NEW j \in U .. V - 1
          PROVE  r.dar[j % SnModulo] = NoPdu \/ IsPdu(z, c, o, r.dar[j % SnModulo], j)
      <3>1. j \in U .. U + SnModulo - 1
        BY <1>1, <1>2
      <3> QED BY <3>1, SlotIs
    <2>3. ASSUME NEW j \in (U + 1) .. V - 1 PROVE j % SnModulo # r.uh
      <3>1. j \in Nat /\ j < K /\ K < j + SnModulo
        BY <1>1, <1>2
      <3> QED BY <3>1, SlotsDiffer
    <2>4. Ran(z, c, o, del, r, U, V, all, t)
      BY <1>1, <2>1, <2>2, <2>3, RunIs
    <2>5. ASSUME NEW j \in V .. K - 1 PROVE t.dar[j % SnModulo] = r.dar[j % SnModulo]
      <3>1. j \in Nat
        BY <1>2
      <3>2. j % SnModulo \in Sns
        BY <3>1, SuccNumber
      <3>3. ASSUME NEW k \in U .. V - 1 PROVE j % SnModulo # k % SnModulo
        <4>1. k \in Nat /\ k < j /\ j < k + SnModulo
          BY <1>1, <1>2
        <4> QED BY <3>1, <4>1, SlotsDiffer
      <3> QED BY <2>4, <3>2, <3>3 DEF Ran
    <2>6. Held(z, c, o, t, V, K)
      <3> SUFFICES ASSUME NEW sn \in Sns, t.dar[sn] # NoPdu
                   PROVE  \E n \in V .. K - 1 : sn = n % SnModulo /\ IsPdu(z, c, o, t.dar[sn], n)
        BY DEF Held
      <3>1. \A j \in U .. V - 1 : sn # j % SnModulo
        BY <2>4 DEF Ran
      <3>2. t.dar[sn] = r.dar[sn]
        BY <2>4, <3>1 DEF Ran
      <3>3. PICK n \in U .. K - 1 : sn = n % SnModulo /\ IsPdu(z, c, o, r.dar[sn], n)
        BY <3>2 DEF Held
      <3>4. n \in V .. K - 1
        BY <1>2, <3>1, <3>3
      <3> QED BY <3>2, <3>3, <3>4
    <2>7. Advanced(z, c, o, del, r, V, K, all, t)
      BY <2>4, <2>5, <2>6 DEF Ran, Advanced
    <2> QED BY <1>1, <2>7
  <1> QED BY <1>3, <1>4

\* Fields that the reassembly does not use.
SameBytes(t, r) ==
    t.dar = r.dar /\ t.missing = r.missing /\ t.sdu = r.sdu /\ t.last = r.last /\ t.out = r.out

\* They do not change where the reassembly is.
LEMMA SameBytesAt ==
    ASSUME NEW z, NEW c, NEW o, NEW del, NEW r, NEW t, SameBytes(t, r), NEW n, NEW full,
           At(z, c, o, del, r, n, full)
    PROVE  At(z, c, o, del, t, n, full)
  BY DEF SameBytes, At, Building

\* They do not change what the buffer holds.
LEMMA SameBytesHeld ==
    ASSUME NEW z, NEW c, NEW o, NEW r, NEW t, SameBytes(t, r), NEW U, NEW K, Held(z, c, o, r, U, K)
    PROVE  Held(z, c, o, t, U, K)
  BY DEF SameBytes, Held

\* Less is claimed of what came out.
LEMMA AtLess ==
    ASSUME NEW z, NEW c, NEW o, NEW del, NEW r, NEW n, NEW full, At(z, c, o, del, r, n, full),
           NEW all, all => full
    PROVE  At(z, c, o, del, r, n, all)
  BY DEF At, Done

\* The fields change one at a time.
LEMMA SetFields ==
    ASSUME NEW r \in RxRecords, NEW x \in Sns
    PROVE  /\ LET t == [r EXCEPT !.uh = x]
              IN  /\ t \in RxRecords /\ SameBytes(t, r) /\ t.win = r.win /\ t.ur = r.ur /\ t.uh = x
                  /\ t.ux = r.ux
           /\ LET t == [r EXCEPT !.ur = x]
              IN  /\ t \in RxRecords /\ SameBytes(t, r) /\ t.win = r.win /\ t.uh = r.uh /\ t.ur = x
                  /\ t.ux = r.ux
           /\ LET t == [r EXCEPT !.running = FALSE]
              IN  /\ t \in RxRecords /\ SameBytes(t, r) /\ t.win = r.win /\ t.ur = r.ur /\ t.uh = r.uh
           /\ LET t == [r EXCEPT !.running = TRUE, !.ux = x]
              IN  /\ t \in RxRecords /\ SameBytes(t, r) /\ t.win = r.win /\ t.ur = r.ur /\ t.uh = r.uh
  <1>1. LET t == [r EXCEPT !.uh = x]
        IN  /\ t \in RxRecords /\ SameBytes(t, r) /\ t.win = r.win /\ t.ur = r.ur /\ t.uh = x
            /\ t.ux = r.ux
    BY DEF RxRecords, SameBytes
  <1>2. LET t == [r EXCEPT !.ur = x]
        IN  /\ t \in RxRecords /\ SameBytes(t, r) /\ t.win = r.win /\ t.uh = r.uh /\ t.ur = x
            /\ t.ux = r.ux
    BY DEF RxRecords, SameBytes
  <1>3. LET t == [r EXCEPT !.running = FALSE]
        IN  t \in RxRecords /\ SameBytes(t, r) /\ t.win = r.win /\ t.ur = r.ur /\ t.uh = r.uh
    BY DEF RxRecords, SameBytes
  <1>4. LET t == [r EXCEPT !.running = TRUE, !.ux = x]
        IN  t \in RxRecords /\ SameBytes(t, r) /\ t.win = r.win /\ t.ur = r.ur /\ t.uh = r.uh
    <2>1. PICK y : y = [r EXCEPT !.running = TRUE]
      OBVIOUS
    <2>2. y \in RxRecords /\ SameBytes(y, r) /\ y.win = r.win /\ y.ur = r.ur /\ y.uh = r.uh
      BY <2>1 DEF RxRecords, SameBytes
    <2>3. PICK w : w = [y EXCEPT !.ux = x]
      OBVIOUS
    <2>4. w \in RxRecords /\ SameBytes(w, y) /\ w.win = y.win /\ w.ur = y.ur /\ w.uh = y.uh
      BY <2>2, <2>3 DEF RxRecords, SameBytes
    <2>5. w = [r EXCEPT !.running = TRUE, !.ux = x]
      BY <2>1, <2>3 DEF RxRecords
    <2> QED BY <2>2, <2>4, <2>5 DEF SameBytes
  <1> QED BY <1>1, <1>2, <1>3, <1>4

-----------------------------------------------------------------------------
(* The handlers. *)

\* A window is Window or, on a multicast channel, nothing.
LEMMA WindowSize ==
    ASSUME NEW r \in RxRecords
    PROVE  /\ r.win = 0 \/ r.win = Window
           /\ Window \in Nat \ {0} /\ SnModulo = Window + Window /\ r.win \in Nat
  BY RxFields, Modulus

\* rlc_um_in_reordering_window, of PDU n.
LEMMA InReorderingWindowIs ==
    ASSUME NEW r \in RxRecords, NEW n \in Nat, NEW H \in Nat, r.uh = H % SnModulo,
           n + SnModulo >= H, n < H + Window
    PROVE  InReorderingWindow(r, n % SnModulo) <=> (n < H /\ H <= n + r.win)
  <1>1. /\ r.win = 0 \/ r.win = Window
        /\ Window \in Nat \ {0} /\ SnModulo = Window + Window
    BY WindowSize
  <1>2. n % SnModulo \in Sns /\ r.uh \in Sns
    BY SuccNumber
  <1>3. CASE r.win = 0
    <2>1. 0 .. r.win - 1 = {}
      BY <1>3
    <2> QED BY <1>3, <2>1 DEF InReorderingWindow
  <1>4. CASE r.win = Window /\ n < H
    <2>1. PICK d : d = H - n
      OBVIOUS
    <2>2. d \in 0 .. SnModulo /\ n + d = H /\ d # 0 /\ d \in Nat
      BY <1>1, <1>4, <2>1
    <2>3. Ahead(n % SnModulo, r.uh) = IF d = SnModulo THEN 0 ELSE SnModulo - d
      <3>1. Ahead(n % SnModulo, (n + d) % SnModulo)
              = IF d = 0 \/ d = SnModulo THEN 0 ELSE SnModulo - d
        BY <2>2, NumberBefore
      <3> QED BY <2>2, <3>1
    <2>4. InReorderingWindow(r, n % SnModulo) <=> Ahead(n % SnModulo, r.uh) >= Window
      BY <1>2, <1>4, ReorderingWindowIs
    <2>5. PICK W, a : W = Window /\ a = Ahead(n % SnModulo, r.uh)
      OBVIOUS
    <2>6. W \in Nat \ {0} /\ d \in 0 .. W + W /\ a = (IF d = W + W THEN 0 ELSE (W + W) - d)
      BY <1>1, <2>2, <2>3, <2>5
    <2>7. a >= W <=> d <= W
      BY <2>6
    <2>8. H <= n + W <=> d <= W
      BY <2>1, <2>2, <2>6
    <2> QED BY <1>4, <2>4, <2>5, <2>7, <2>8
  <1>5. CASE r.win = Window /\ n >= H
    <2>1. PICK d : d = n - H
      OBVIOUS
    <2>2. d \in 0 .. SnModulo - 1 /\ H + d = n /\ d < Window
      BY <1>1, <1>5, <2>1
    <2>3. Ahead(n % SnModulo, r.uh) = d
      BY <2>2, NumberAfter
    <2>4. InReorderingWindow(r, n % SnModulo) <=> Ahead(n % SnModulo, r.uh) >= Window
      BY <1>2, <1>5, ReorderingWindowIs
    <2>5. ~(d >= Window) /\ ~(n < H)
      BY <1>1, <1>5, <2>2
    <2> QED BY <2>3, <2>4, <2>5
  <1> QED BY <1>1, <1>3, <1>4, <1>5

\* The number a window before that of PDU V + win.
LEMMA BottomIs ==
    ASSUME NEW r \in RxRecords, NEW V \in Nat, r.uh = (V + r.win) % SnModulo
    PROVE  WindowBottom(r) = V % SnModulo
  <1>1. /\ r.win = 0 \/ r.win = Window
        /\ Window \in Nat \ {0} /\ SnModulo = Window + Window
    BY WindowSize
  <1>2. PICK M, W, b, h : M = SnModulo /\ W = Window /\ b = V % SnModulo /\ h = r.uh
    OBVIOUS
  <1>3. W \in Nat \ {0} /\ M = W + W /\ b \in 0 .. M - 1
    <2>1. b \in Sns
      BY <1>2, SuccNumber
    <2> QED BY <1>1, <1>2, <2>1, Modulus
  <1>4. \A x \in 0 .. M - 1 : x % M = x /\ (x + M) % M = x
    <2>1. ASSUME NEW x \in 0 .. M - 1 PROVE x % M = x /\ (x + M) % M = x
      <3>1. x + M \in M .. 2 * M - 1 /\ (x + M) - M = x
        BY <1>3
      <3> QED BY <1>2, <1>3, <3>1, SmallMod
    <2> QED BY <2>1
  <1>5. WindowBottom(r) = (h - r.win + M) % M
    BY <1>2 DEF WindowBottom
  <1>6. CASE r.win = 0
    <2>1. V + r.win = V
      BY <1>6
    <2>2. h - r.win + M = b + M
      BY <1>2, <1>3, <1>6, <2>1
    <2> QED BY <1>2, <1>3, <1>4, <1>5, <2>2
  <1>7. CASE r.win = Window
    <2>1. W \in 0 .. SnModulo - 1
      BY <1>2, <1>3
    <2>2. h = IF b + W < M THEN b + W ELSE b + W - M
      BY <1>2, <1>7, <2>1, NumberIs
    <2>3. h - r.win + M = b + M \/ h - r.win + M = b
      BY <1>2, <1>3, <1>7, <2>2
    <2> QED BY <1>2, <1>3, <1>4, <1>5, <2>3
  <1> QED BY <1>1, <1>6, <1>7

\* Where the window is after PDU n was stored: VR(UH), and VR(UR) at least.
TopAfter(H, n) == IF n < H THEN H ELSE n + 1
BottomAfter(U, K, w) == IF K <= U + w THEN U ELSE K - w

WindowFits(W, w, v, U, H, n, K, V) ==
    /\ K \in Nat /\ K <= v /\ K <= U + (W + W) /\ H <= K /\ n + (W + W) >= H
    /\ V \in U .. K /\ V \in Nat /\ V - U < W + W /\ K <= V + w

\* How far the window moves.
LEMMA WindowNumbers ==
    ASSUME NEW W \in Nat \ {0}, NEW w, w = 0 \/ w = W, NEW v \in Nat,
           NEW U \in Nat, NEW H \in Nat, U <= H, H <= U + w, H <= v,
           NEW n \in Nat, U <= n, n < H + W, n < v
    PROVE  WindowFits(W, w, v, U, H, n, TopAfter(H, n), BottomAfter(U, TopAfter(H, n), w))
  <1>1. PICK K, V : K = (IF n < H THEN H ELSE n + 1) /\ V = (IF K <= U + w THEN U ELSE K - w)
    OBVIOUS
  <1>2. K \in Nat /\ K <= v /\ K <= U + (W + W) /\ H <= K /\ n + (W + W) >= H /\ K <= H + W /\ U <= K
    <2>1. CASE n < H
      BY <1>1, <2>1
    <2>2. CASE ~(n < H)
      BY <1>1, <2>2
    <2> QED BY <2>1, <2>2
  <1>3. WindowFits(W, w, v, U, H, n, K, V)
    <2>1. CASE K <= U + w
      BY <1>1, <1>2, <2>1 DEF WindowFits
    <2>2. CASE ~(K <= U + w)
      <3>1. V = K - w
        BY <1>1, <2>2
      <3>2. V > U /\ V <= K /\ V - U < W + W
        BY <1>2, <2>2, <3>1
      <3> QED BY <1>2, <3>1, <3>2 DEF WindowFits
    <2> QED BY <2>1, <2>2
  <1> QED BY <1>1, <1>3 DEF TopAfter, BottomAfter

\* A handler moved the window up to PDU V and PDU K.
Moved(z, c, o, del, r, V, K, all, t) ==
    /\ RxAt(z, c, o, del, t, V, K, all) /\ t.win = r.win
    /\ \A j \in V .. K - 1 : t.dar[j % SnModulo] = r.dar[j % SnModulo]

\* The PDUs from PDU U to PDU V - 1 are in the buffer.
Present(r, U, V) == \A j \in U .. V - 1 : r.dar[j % SnModulo] # NoPdu

\* The window moves up to PDU n, that was stored.
LEMMA MoveWindowTo ==
    ASSUME NEW z, NEW c, NEW o, NEW v \in Nat, Cuts(z, c, o, v),
           NEW r \in RxRecords, NEW del \in Seq(Seq(Byte)), NEW full,
           NEW U \in Nat, NEW H \in Nat, U <= H, H <= U + r.win, H <= v,
           r.ur = U % SnModulo, r.uh = H % SnModulo, At(z, c, o, del, r, U, full),
           NEW n \in Nat, U <= n, n < H + Window, n < v,
           NEW K, K = TopAfter(H, n), Held(z, c, o, r, U, K),
           NEW V, V = BottomAfter(U, K, r.win), NEW all, all => full, all => Present(r, U, V)
    PROVE  V \in U .. K /\ Moved(z, c, o, del, r, V, K, all, MoveWindow(r, n % SnModulo))
  <1>1. PICK M, W, t, s : M = SnModulo /\ W = Window /\ t = MoveWindow(r, n % SnModulo) /\ s = n % SnModulo
    OBVIOUS
  <1>2. /\ r.win = 0 \/ r.win = W
        /\ W \in Nat \ {0} /\ M = W + W /\ r.win \in Nat
    BY <1>1, WindowSize
  <1>3. /\ K \in Nat /\ K <= v /\ K <= U + M /\ V \in U .. K /\ V \in Nat /\ V - U < M /\ K <= V + r.win
        /\ H <= K /\ n + M >= H
    <2>1. PICK w : w = r.win
      OBVIOUS
    <2>2. /\ w = 0 \/ w = W
          /\ W \in Nat \ {0} /\ H <= U + w /\ n < H + W /\ V = BottomAfter(U, K, w)
      BY <1>1, <1>2, <2>1
    <2>3. WindowFits(W, w, v, U, H, n, K, V)
      BY <2>2, WindowNumbers
    <2> QED BY <1>2, <2>1, <2>3 DEF WindowFits
  <1>4. At(z, c, o, del, r, U, all)
    BY AtLess
  <1>5. CASE n < H
    <2>1. K = H /\ V = U
      BY <1>5 DEF TopAfter, BottomAfter
    <2>2. n < H /\ H <= n + r.win
      BY <1>2, <1>5
    <2>3. InReorderingWindow(r, n % SnModulo)
      BY <1>1, <1>3, <2>2, InReorderingWindowIs
    <2>4. t = r
      BY <1>1, <2>3 DEF MoveWindow
    <2>5. RxAt(z, c, o, del, r, V, K, all)
      BY <1>4, <2>1 DEF RxAt
    <2> QED BY <1>1, <1>3, <2>4, <2>5 DEF Moved
  <1>6. CASE ~(n < H)
    <2>1. K = n + 1 /\ Succ(s) = K % SnModulo /\ K % SnModulo \in Sns
      BY <1>1, <1>3, <1>6, SuccNumber DEF TopAfter
    <2>2. PICK r1 : r1 = [r EXCEPT !.uh = Succ(s)]
      OBVIOUS
    <2>3. /\ r1 \in RxRecords /\ SameBytes(r1, r) /\ r1.win = r.win /\ r1.ur = r.ur
          /\ r1.uh = K % SnModulo
      BY <2>1, <2>2, SetFields
    <2>4. ~InReorderingWindow(r, s)
      BY <1>1, <1>3, <1>6, InReorderingWindowIs
    <2>5. InReorderingWindow(r1, r1.ur) <=> K <= U + r.win
      <3>1. U + SnModulo >= K /\ U < K + Window /\ U < K
        BY <1>1, <1>2, <1>3, <2>1
      <3>2. InReorderingWindow(r1, U % SnModulo) <=> (U < K /\ K <= U + r1.win)
        BY <1>3, <2>3, <3>1, InReorderingWindowIs
      <3> QED BY <2>3, <3>1, <3>2
    <2>6. At(z, c, o, del, r1, U, all) /\ Held(z, c, o, r1, U, K) /\ r1.dar = r.dar
      BY <1>4, <2>3, SameBytesAt, SameBytesHeld DEF SameBytes
    <2>7. CASE K <= U + r.win
      <3>1. V = U
        BY <2>7 DEF BottomAfter
      <3>2. t = r1
        BY <1>1, <2>2, <2>4, <2>5, <2>7 DEF MoveWindow
      <3>3. RxAt(z, c, o, del, r1, U, K, all)
        BY <1>3, <2>3, <2>6, <2>7 DEF RxAt
      <3> QED BY <1>1, <1>3, <2>3, <2>6, <3>1, <3>2, <3>3 DEF Moved
    <2>8. CASE ~(K <= U + r.win)
      <3>1. V + r.win = K
        BY <1>2, <1>3, <2>8 DEF BottomAfter
      <3>2. WindowBottom(r1) = V % SnModulo /\ V % SnModulo \in Sns
        <4>1. r1.uh = (V + r1.win) % SnModulo
          BY <2>3, <3>1
        <4>2. WindowBottom(r1) = V % SnModulo
          BY <1>3, <2>3, <4>1, BottomIs
        <4> QED BY <1>3, <4>2, SuccNumber
      <3>3. PICK x : x = TryReassembly(r1, U % SnModulo, V % SnModulo)
        OBVIOUS
      <3>4. t = [x EXCEPT !.ur = V % SnModulo]
        BY <1>1, <2>2, <2>3, <2>4, <2>5, <2>8, <3>2, <3>3 DEF MoveWindow
      <3>5. Advanced(z, c, o, del, r1, V, K, all, x)
        <4>1. all => all /\ \A j \in U .. V - 1 : r1.dar[j % SnModulo] # NoPdu
          BY <2>6 DEF Present
        <4>2. K <= U + SnModulo /\ V - U < SnModulo
          BY <1>1, <1>3
        <4> QED BY <1>3, <2>3, <2>6, <3>3, <4>1, <4>2, AdvanceTo
      <3>6. t \in RxRecords /\ SameBytes(t, x) /\ t.win = x.win /\ t.uh = x.uh /\ t.ur = V % SnModulo
        BY <3>2, <3>4, <3>5, SetFields DEF Advanced
      <3>7. At(z, c, o, del, t, V, all) /\ Held(z, c, o, t, V, K) /\ t.dar = x.dar
        BY <3>5, <3>6, SameBytesAt, SameBytesHeld DEF Advanced, SameBytes
      <3>8. t.win = r.win /\ t.uh = K % SnModulo
        BY <2>3, <3>5, <3>6 DEF Advanced, SameWindow
      <3>9. RxAt(z, c, o, del, t, V, K, all)
        BY <1>3, <3>6, <3>7, <3>8 DEF RxAt
      <3>10. \A j \in V .. K - 1 : t.dar[j % SnModulo] = r.dar[j % SnModulo]
        BY <2>6, <3>5, <3>7 DEF Advanced
      <3> QED BY <1>1, <1>3, <3>8, <3>9, <3>10 DEF Moved
    <2> QED BY <2>7, <2>8
  <1> QED BY <1>5, <1>6

\* VR(UR) moves over the PDUs that are there.
UrMoved(z, c, o, del, r, U, H, n, full, t) ==
    \E V \in U .. H :
       /\ Moved(z, c, o, del, r, V, H, full, t)
       /\ n = U /\ r.dar[n % SnModulo] # NoPdu => t.dar[V % SnModulo] = NoPdu
       /\ ~(n = U /\ r.dar[n % SnModulo] # NoPdu) => V = U /\ t = r

\* The update of VR(UR) when PDU n arrives.
LEMMA MoveUrTo ==
    ASSUME NEW z, NEW c, NEW o, NEW v \in Nat, Cuts(z, c, o, v),
           NEW r, NEW del \in Seq(Seq(Byte)), NEW full, NEW U, NEW H,
           RxAt(z, c, o, del, r, U, H, full), H <= v,
           NEW n \in Nat, r.dar[n % SnModulo] # NoPdu => n \in U .. H - 1
    PROVE  UrMoved(z, c, o, del, r, U, H, n, full, MoveUr(r, n % SnModulo))
  <1>1. PICK M, s, t : M = SnModulo /\ t = MoveUr(r, n % SnModulo) /\ s = n % SnModulo
    OBVIOUS
  <1>2. /\ r \in RxRecords /\ U \in Nat /\ H \in Nat /\ U <= H /\ H <= U + r.win
        /\ r.ur = U % SnModulo /\ r.uh = H % SnModulo
        /\ Held(z, c, o, r, U, H) /\ At(z, c, o, del, r, U, full)
    BY DEF RxAt
  <1>3. M \in Nat \ {0} /\ r.win < M /\ H < U + M /\ H - U \in Nat /\ s \in Sns /\ r.win \in Nat
    <2>1. /\ r.win = 0 \/ r.win = Window
          /\ Window \in Nat \ {0} /\ M = Window + Window
      BY <1>1, <1>2, WindowSize
    <2>2. s \in Sns
      BY <1>1, SuccNumber
    <2> QED BY <1>2, <2>1, <2>2
  <1>4. CASE n = U /\ r.dar[s] # NoPdu
    <2>1. n \in U .. H - 1
      BY <1>1, <1>4
    <2>2. PICK T : T = {k \in 1 .. SnModulo :
                          LET x == (r.ur + k) % SnModulo IN r.dar[x] = NoPdu \/ x = r.uh}
      OBVIOUS
    <2>3. PICK g : g = H - U
      OBVIOUS
    <2>4. g \in 1 .. SnModulo - 1 /\ U + g = H
      BY <1>1, <1>2, <1>3, <2>1, <2>3
    <2>5. ASSUME NEW k \in 0 .. g PROVE (r.ur + k) % SnModulo = (U + k) % SnModulo
      <3>1. k \in 0 .. SnModulo - 1
        BY <1>1, <1>3, <2>4
      <3> QED BY <1>2, <3>1, NumberAfter
    <2>6. T \in SUBSET Nat /\ g \in T
      <3>1. (r.ur + g) % SnModulo = r.uh
        <4>1. g \in 0 .. g
          BY <1>1, <1>3, <2>4
        <4> QED BY <1>2, <2>4, <2>5, <4>1
      <3>2. g \in 1 .. SnModulo
        BY <1>1, <1>3, <2>4
      <3> QED BY <2>2, <3>1, <3>2
    <2>7. PICK run : run = Min(T)
      OBVIOUS
    <2>8. run \in T /\ run <= g /\ \A k \in T : run <= k
      <3>1. \A k \in T : Min(T) \in T /\ Min(T) <= k
        BY <2>6, LeastIs
      <3> QED BY <2>6, <2>7, <3>1
    <2>9. run \in 1 .. g /\ run \in 0 .. g
      BY <2>2, <2>4, <2>8
    <2>10. PICK V : V = U + run
      OBVIOUS
    <2>11. V \in U .. H /\ V \in Nat /\ V - U < SnModulo /\ V # U
      <3>1. U \in Nat /\ H \in Nat /\ g \in Nat /\ run \in Nat /\ run >= 1 /\ run <= g /\ U + g = H
            /\ g < SnModulo /\ SnModulo \in Nat
        BY <1>1, <1>2, <1>3, <2>4, <2>9
      <3> QED BY <2>10, <3>1
    <2>12. AfterRun(r) = V % SnModulo
      <3>1. AfterRun(r) = (r.ur + run) % SnModulo
        BY <2>2, <2>7 DEF AfterRun
      <3> QED BY <2>5, <2>9, <2>10, <3>1
    <2>13. ASSUME NEW j \in U .. V - 1 PROVE r.dar[j % SnModulo] # NoPdu
      <3>1. CASE j = U
        BY <1>1, <1>4, <3>1
      <3>2. CASE j # U
        <4>1. PICK k : k = j - U
          OBVIOUS
        <4>2. k \in 1 .. SnModulo /\ k \in 0 .. g /\ k < run /\ U + k = j
          <5>1. k \in Nat /\ k >= 1 /\ k < run /\ U + k = j /\ run <= g /\ g < SnModulo
                /\ SnModulo \in Nat /\ run \in Nat /\ g \in Nat
            BY <1>1, <1>2, <1>3, <2>4, <2>9, <2>10, <3>2, <4>1
          <5> QED BY <5>1
        <4>3. k \notin T
          BY <2>8, <2>9, <4>2
        <4>4. (r.ur + k) % SnModulo = j % SnModulo
          BY <2>5, <4>2
        <4> QED BY <2>2, <4>2, <4>3, <4>4
      <3> QED BY <3>1, <3>2
    <2>14. PICK r1 : r1 = [r EXCEPT !.ur = V % SnModulo]
      OBVIOUS
    <2>15. /\ r1 \in RxRecords /\ SameBytes(r1, r) /\ r1.win = r.win /\ r1.ur = V % SnModulo
           /\ r1.uh = H % SnModulo
      <3>1. V % SnModulo \in Sns
        BY <2>11, SuccNumber
      <3> QED BY <1>2, <2>14, <3>1, SetFields
    <2>16. At(z, c, o, del, r1, U, full) /\ Held(z, c, o, r1, U, H) /\ r1.dar = r.dar
      BY <1>2, <2>15, SameBytesAt, SameBytesHeld DEF SameBytes
    <2>17. t = TryReassembly(r1, U % SnModulo, V % SnModulo)
      BY <1>1, <1>2, <1>4, <2>12, <2>14 DEF MoveUr
    <2>18. Advanced(z, c, o, del, r1, V, H, full, t)
      <3>1. full => full /\ \A j \in U .. V - 1 : r1.dar[j % SnModulo] # NoPdu
        BY <2>13, <2>16
      <3>2. H <= U + SnModulo /\ V - U < SnModulo
        BY <1>1, <1>2, <1>3, <2>11
      <3> QED BY <1>2, <2>11, <2>15, <2>16, <2>17, <3>1, <3>2, AdvanceTo
    <2>19. RxAt(z, c, o, del, t, V, H, full) /\ t.win = r.win
      <3>1. t.win = r.win /\ t.ur = V % SnModulo /\ t.uh = H % SnModulo
        BY <2>15, <2>18 DEF Advanced, SameWindow
      <3>2. V <= H /\ H <= V + r.win
        BY <1>2, <1>3, <2>11
      <3> QED BY <1>2, <2>11, <2>18, <3>1, <3>2 DEF Advanced, RxAt
    <2>20. Moved(z, c, o, del, r, V, H, full, t)
      BY <2>16, <2>18, <2>19 DEF Moved, Advanced
    <2>21. t.dar[V % SnModulo] = NoPdu
      <3>1. V \in V .. V + SnModulo - 1 /\ H <= V + SnModulo
        BY <1>1, <1>2, <1>3, <2>11
      <3>2. CASE V = H
        <4>1. Held(z, c, o, t, V, H)
          BY <2>18 DEF Advanced
        <4>2. V >= H
          BY <1>2, <3>2
        <4>3. V .. H - 1 = {}
          BY <1>2, <2>11, <4>2
        <4>4. V % SnModulo \in Sns
          BY <2>11, SuccNumber
        <4> QED BY <4>1, <4>3, <4>4 DEF Held
      <3>3. CASE V # H
        <4>1. V \in V .. H - 1
          BY <1>2, <2>11, <3>3
        <4>2. t.dar[V % SnModulo] = r.dar[V % SnModulo]
          BY <2>20, <4>1 DEF Moved
        <4>3. V % SnModulo # r.uh
          <5>1. V < H /\ H < V + SnModulo
            BY <1>1, <1>2, <1>3, <2>11, <4>1
          <5> QED BY <1>2, <2>11, <5>1, SlotsDiffer
        <4>4. (r.ur + run) % SnModulo = V % SnModulo
          BY <2>5, <2>9, <2>10
        <4> QED BY <2>2, <2>8, <4>2, <4>3, <4>4
      <3> QED BY <3>2, <3>3
    <2> QED BY <1>1, <1>4, <2>11, <2>20, <2>21 DEF UrMoved
  <1>5. CASE ~(n = U /\ r.dar[s] # NoPdu)
    <2>1. ~(s = r.ur /\ r.dar[s] # NoPdu)
      <3> SUFFICES ASSUME s = r.ur, r.dar[s] # NoPdu PROVE FALSE
        OBVIOUS
      <3>1. n \in U .. H - 1 /\ n # U
        BY <1>1, <1>5
      <3>2. U < n /\ n < U + SnModulo
        BY <1>1, <1>2, <1>3, <3>1
      <3> QED BY <1>1, <1>2, <3>2, SlotsDiffer
    <2>2. t = r
      BY <1>1, <2>1 DEF MoveUr
    <2>3. Moved(z, c, o, del, r, U, H, full, t) /\ U \in U .. H
      BY <1>2, <2>2 DEF Moved
    <2> QED BY <1>1, <1>5, <2>2, <2>3 DEF UrMoved
  <1> QED BY <1>4, <1>5

\* What the timers change is not used by the reassembly.
LEMMA SameAt ==
    ASSUME NEW z, NEW c, NEW o, NEW del, NEW r, NEW U, NEW H, NEW full,
           RxAt(z, c, o, del, r, U, H, full),
           NEW t \in RxRecords, SameBytes(t, r), t.win = r.win, t.ur = r.ur, t.uh = r.uh
    PROVE  RxAt(z, c, o, del, t, U, H, full)
  <1>1. At(z, c, o, del, t, U, full) /\ Held(z, c, o, t, U, H)
    BY SameBytesAt, SameBytesHeld DEF RxAt
  <1> QED BY <1>1 DEF RxAt

\* Stopping t-Reordering.
LEMMA StopTimerAt ==
    ASSUME NEW z, NEW c, NEW o, NEW del, NEW r, NEW U, NEW H, NEW full,
           RxAt(z, c, o, del, r, U, H, full)
    PROVE  RxAt(z, c, o, del, StopTimer(r), U, H, full) /\ StopTimer(r).win = r.win /\ StopTimer(r).dar = r.dar
  <1>1. r \in RxRecords
    BY DEF RxAt
  <1>2. PICK t : t = [r EXCEPT !.running = FALSE]
    OBVIOUS
  <1>3. t \in RxRecords /\ SameBytes(t, r) /\ t.win = r.win /\ t.ur = r.ur /\ t.uh = r.uh
    <2>1. r.ur \in Sns
      BY <1>1, RxFields
    <2> QED BY <1>1, <1>2, <2>1, SetFields
  <1>4. RxAt(z, c, o, del, t, U, H, full) /\ t.dar = r.dar
    BY <1>3, SameAt DEF SameBytes
  <1>5. StopTimer(r) = t \/ StopTimer(r) = r
    BY <1>2 DEF StopTimer
  <1> QED BY <1>3, <1>4, <1>5

\* Starting t-Reordering.
LEMMA StartTimerAt ==
    ASSUME NEW z, NEW c, NEW o, NEW del, NEW r, NEW U, NEW H, NEW full,
           RxAt(z, c, o, del, r, U, H, full)
    PROVE  RxAt(z, c, o, del, StartTimer(r), U, H, full) /\ StartTimer(r).win = r.win
           /\ StartTimer(r).dar = r.dar
  <1>1. r \in RxRecords /\ r.uh \in Sns
    BY RxFields DEF RxAt
  <1>2. PICK t : t = [r EXCEPT !.running = TRUE, !.ux = r.uh]
    OBVIOUS
  <1>3. t \in RxRecords /\ SameBytes(t, r) /\ t.win = r.win /\ t.ur = r.ur /\ t.uh = r.uh
    BY <1>1, <1>2, SetFields
  <1>4. RxAt(z, c, o, del, t, U, H, full) /\ t.dar = r.dar
    BY <1>3, SameAt DEF SameBytes
  <1>5. StartTimer(r) = t \/ StartTimer(r) = r
    BY <1>2 DEF StartTimer
  <1> QED BY <1>3, <1>4, <1>5

\* A PDU that is not below VR(UR) is discarded only when the buffer has it.
LEMMA DiscardedIs ==
    ASSUME NEW r \in RxRecords, NEW U \in Nat, NEW H \in Nat, U <= H, H <= U + r.win,
           r.ur = U % SnModulo, r.uh = H % SnModulo,
           NEW n \in Nat, U <= n, n < H + Window, Discarded(r, n % SnModulo)
    PROVE  r.dar[n % SnModulo] # NoPdu
  <1>1. PICK W, M, w, uh, s, h : /\ W = Window /\ M = SnModulo /\ w = r.win /\ uh = r.uh
                                 /\ s = CMod((n % SnModulo) - (r.uh - r.win))
                                 /\ h = CMod(r.ur - (r.uh - r.win))
    OBVIOUS
  <1>2. /\ w = 0 \/ w = W
        /\ W \in Nat \ {0} /\ M = W + W /\ H <= U + w
    BY <1>1, WindowSize
  <1>3. n % SnModulo \in Sns /\ r.ur \in Sns /\ uh \in Sns /\ Sns = 0 .. M - 1
    BY <1>1, SuccNumber, Modulus
  <1>4. CMod((r.uh - r.win) - (r.uh - r.win)) = 0
    <2>1. (r.uh - r.win) - (r.uh - r.win) = 0 /\ 0 \in 0 .. SnModulo - 1 /\ 0 >= 0
      BY <1>1, <1>2, <1>3
    <2> QED BY <2>1, SmallMod DEF CMod
  <1>5. s \in Int /\ h \in Int /\ (s < 0 \/ s >= h)
    <2>1. CASE w = 0
      <3>1. U = H /\ r.ur = r.uh
        BY <1>1, <1>2, <2>1
      <3>2. h = 0
        <4>1. r.ur - (r.uh - r.win) = (r.uh - r.win) - (r.uh - r.win)
          <5>1. r.ur = uh /\ r.uh = uh /\ r.win = 0 /\ uh \in Int
            BY <1>1, <1>2, <1>3, <2>1, <3>1
          <5>2. uh - (uh - 0) = (uh - 0) - (uh - 0)
            BY <5>1
          <5> QED BY <5>1, <5>2
        <4> QED BY <1>1, <1>4, <4>1
      <3>3. s \in Int
        <4>1. PICK x, y : x = (n % SnModulo) - (r.uh - r.win) /\ y = n % SnModulo
          OBVIOUS
        <4>2. x \in Int /\ -x \in Int
          <5>1. x = y - (uh - w) /\ w = 0
            BY <1>1, <2>1, <4>1
          <5>2. y \in Sns /\ uh \in Sns
            BY <1>3, <4>1
          <5>3. y \in Int /\ uh \in Int
            BY <1>2, <1>3, <5>2
          <5> QED BY <5>1, <5>3
        <4>3. x % SnModulo \in Sns /\ (-x) % SnModulo \in Sns
          BY <4>2, SmallMod
        <4>4. PICK a, b : a = x % SnModulo /\ b = (-x) % SnModulo
          OBVIOUS
        <4>5. a \in Int /\ -b \in Int
          BY <1>2, <1>3, <4>3, <4>4
        <4>6. s = a \/ s = -b
          BY <1>1, <4>1, <4>4 DEF CMod
        <4> QED BY <4>5, <4>6
      <3> QED BY <3>2, <3>3
    <2>2. CASE w = W
      <3>1. PICK e : e = H - U
        OBVIOUS
      <3>2. e \in 0 .. W /\ e \in 0 .. SnModulo /\ U + e = H /\ e # SnModulo
        BY <1>1, <1>2, <2>2, <3>1
      <3>3. PICK a, b : a = Ahead(r.ur, uh) /\ b = Ahead(n % SnModulo, uh)
        OBVIOUS
      <3>4. a = IF e = 0 THEN 0 ELSE M - e
        <4>1. Ahead(U % SnModulo, (U + e) % SnModulo)
                = IF e = 0 \/ e = SnModulo THEN 0 ELSE SnModulo - e
          BY <3>2, NumberBefore
        <4> QED BY <1>1, <3>2, <3>3, <4>1
      <3>5. /\ h \in Int /\ (a >= W => h = a - W) /\ (r.ur = uh => h = W)
        <4>1. h = CMod(r.ur - (uh - Window))
          BY <1>1, <2>2
        <4> QED BY <1>1, <1>3, <3>3, <4>1, CModIs
      <3>6. h = W - e
        <4>1. CASE e = 0
          <5>1. U = H
            BY <3>2, <4>1
          <5> QED BY <1>1, <1>2, <3>5, <4>1, <5>1
        <4>2. CASE e # 0
          BY <1>2, <3>2, <3>4, <3>5, <4>2
        <4> QED BY <4>1, <4>2
      <3>7. /\ s \in Int /\ (b >= W => s = b - W) /\ (b < W => s < 0 \/ s = b + W)
        <4>1. s = CMod((n % SnModulo) - (uh - Window))
          BY <1>1, <2>2
        <4> QED BY <1>1, <1>3, <3>3, <4>1, CModIs
      <3>8. CASE n < H
        <4>1. PICK d : d = H - n
          OBVIOUS
        <4>2. d \in 1 .. e /\ d \in 0 .. SnModulo /\ n + d = H /\ d # SnModulo /\ d # 0
          BY <1>1, <1>2, <3>1, <3>2, <3>8, <4>1
        <4>3. b = M - d
          <5>1. Ahead(n % SnModulo, (n + d) % SnModulo)
                  = IF d = 0 \/ d = SnModulo THEN 0 ELSE SnModulo - d
            BY <4>2, NumberBefore
          <5> QED BY <1>1, <3>3, <4>2, <5>1
        <4> QED BY <1>2, <3>2, <3>6, <3>7, <4>2, <4>3
      <3>9. CASE ~(n < H)
        <4>1. PICK d : d = n - H
          OBVIOUS
        <4>2. d \in 0 .. SnModulo - 1 /\ H + d = n /\ d < W /\ d \in Nat
          BY <1>1, <1>2, <3>9, <4>1
        <4>3. b = d
          BY <1>1, <3>3, <4>2, NumberAfter
        <4> QED BY <1>2, <3>2, <3>6, <3>7, <4>2, <4>3
      <3> QED BY <3>8, <3>9
    <2> QED BY <1>2, <2>1, <2>2
  <1>6. InWindow(r, r.uh - r.win, n % SnModulo, r.ur)
          = CASE 0 > s -> -2
              [] 0 <= s /\ h < s -> -1
              [] 0 < s /\ s < h -> 0
              [] 0 = s /\ s < h -> 1
              [] 0 < s /\ s = h -> 2
              [] 0 = s /\ s = h -> 3
    BY <1>1, <1>4 DEF InWindow
  <1>7. InWindow(r, r.uh - r.win, n % SnModulo, r.ur) \notin {0, 1}
    BY <1>5, <1>6
  <1> QED BY <1>7 DEF Discarded

\* A PDU that is not discarded is not below VR(UR).
LEMMA NotDiscardedIs ==
    ASSUME NEW r \in RxRecords, NEW U \in Nat, NEW H \in Nat, U <= H, H <= U + r.win,
           r.ur = U % SnModulo, r.uh = H % SnModulo,
           NEW n \in Nat, H <= n + Window, r.win = 0 => U <= n, ~Discarded(r, n % SnModulo)
    PROVE  U <= n
  <1> SUFFICES ASSUME n < U PROVE FALSE
    OBVIOUS
  <1>1. PICK W, M, s : W = Window /\ M = SnModulo /\ s = n % SnModulo
    OBVIOUS
  <1>2. r.win = W /\ W \in Nat \ {0} /\ M = W + W
    BY <1>1, WindowSize
  <1>3. s \in Sns /\ r.ur \in Sns /\ r.uh \in Sns
    BY <1>1, SuccNumber
  <1>4. Ahead(r.uh, r.ur) = H - U
    <2>1. PICK e : e = H - U
      OBVIOUS
    <2>2. e \in 0 .. SnModulo - 1 /\ U + e = H
      BY <1>1, <1>2, <2>1
    <2> QED BY <2>1, <2>2, NumberAfter
  <1>5. Ahead(s, r.uh) < Window \/ Ahead(s, r.ur) < Ahead(r.uh, r.ur)
    <2>1. Ahead(r.uh, r.ur) <= Window
      BY <1>1, <1>2, <1>4
    <2> QED BY <1>1, <1>2, <1>3, <2>1, KeptIs
  <1>6. ASSUME NEW X \in Nat, n < X, X <= n + Window PROVE Ahead(s, X % SnModulo) >= Window
    <2>1. PICK d : d = X - n
      OBVIOUS
    <2>2. d \in 0 .. SnModulo /\ n + d = X /\ d # 0 /\ d # SnModulo /\ d <= W
      BY <1>1, <1>2, <1>6, <2>1
    <2>3. Ahead(n % SnModulo, (n + d) % SnModulo) = IF d = 0 \/ d = SnModulo THEN 0 ELSE SnModulo - d
      BY <2>2, NumberBefore
    <2>4. Ahead(s, X % SnModulo) = M - d
      BY <1>1, <2>2, <2>3
    <2> QED BY <1>1, <1>2, <2>2, <2>4
  <1>7. n < H /\ U <= n + Window
    BY <1>1, <1>2
  <1>8. Ahead(s, r.uh) >= Window /\ Ahead(s, r.ur) >= Window
    BY <1>6, <1>7
  <1>9. Ahead(s, r.uh) \in Int /\ Ahead(s, r.ur) \in Int
    <2>1. Ahead(s, r.uh) \in Sns /\ Ahead(s, r.ur) \in Sns
      BY <1>3, AheadIs
    <2>2. \A x \in Sns : x \in Int
      BY <1>1, <1>2, Modulus
    <2> QED BY <2>1, <2>2
  <1>10. PICK a, b : a = Ahead(s, r.uh) /\ b = Ahead(s, r.ur)
    OBVIOUS
  <1>11. a \in Int /\ b \in Int /\ a >= W /\ b >= W /\ (a < W \/ b < H - U) /\ H <= U + W
    BY <1>1, <1>2, <1>4, <1>5, <1>8, <1>9, <1>10
  <1> QED BY <1>2, <1>11

\* PDU n is in the buffer.
PduStored(z, c, o, del, r, U, n, K, full, t) ==
    /\ t \in RxRecords /\ t.win = r.win /\ t.ur = r.ur /\ t.uh = r.uh
    /\ At(z, c, o, del, t, U, full) /\ Held(z, c, o, t, U, K)
    /\ t.dar[n % SnModulo] # NoPdu
    /\ \A x \in Sns \ {n % SnModulo} : t.dar[x] = r.dar[x]

\* rlc_um_store_pdu_in_dar_buffer of a PDU that is not behind the window.
LEMMA StoredIs ==
    ASSUME NEW z, NEW c, NEW o, NEW del, NEW r, NEW full, NEW U, NEW H,
           RxAt(z, c, o, del, r, U, H, full),
           NEW n \in Nat, U <= n, NEW K, K = TopAfter(H, n),
           NEW pdu, IsPdu(z, c, o, pdu, n)
    PROVE  PduStored(z, c, o, del, r, U, n, K, full, [r EXCEPT !.dar[n % SnModulo] = pdu])
  <1>1. PICK s, t, dar : s = n % SnModulo /\ dar = [r.dar EXCEPT ![s] = pdu] /\ t = [r EXCEPT !.dar = dar]
    OBVIOUS
  <1>2. r \in RxRecords /\ U \in Nat /\ H \in Nat /\ U <= H
    BY DEF RxAt
  <1>3. s \in Sns /\ pdu \in GoodPdus /\ pdu # NoPdu
    <2>1. s \in Sns
      BY <1>1, SuccNumber
    <2> QED BY <2>1, NoPduAssumption DEF IsPdu, GoodPdus
  <1>4. r.dar \in [Sns -> GoodPdus \cup {NoPdu}]
    BY <1>2, RxFields
  <1>5. /\ dar \in [Sns -> GoodPdus \cup {NoPdu}] /\ dar[s] = pdu
        /\ \A x \in Sns \ {s} : dar[x] = r.dar[x]
    BY <1>1, <1>3, <1>4
  <1>6. /\ t \in RxRecords /\ t.win = r.win /\ t.ur = r.ur /\ t.uh = r.uh /\ t.dar = dar
        /\ t.missing = r.missing /\ t.sdu = r.sdu /\ t.last = r.last /\ t.out = r.out
    BY <1>1, <1>2, <1>5 DEF RxRecords
  <1>7. [r EXCEPT !.dar[s] = pdu] = t
    BY <1>1, <1>2 DEF RxRecords
  <1>8. At(z, c, o, del, t, U, full)
    BY <1>6 DEF RxAt, At, Building
  <1>9. Held(z, c, o, t, U, K)
    <2> SUFFICES ASSUME NEW x \in Sns, t.dar[x] # NoPdu
                 PROVE  \E j \in U .. K - 1 : x = j % SnModulo /\ IsPdu(z, c, o, t.dar[x], j)
      BY DEF Held
    <2>1. K \in Nat /\ H <= K /\ n < K
      BY <1>2 DEF TopAfter
    <2>2. CASE x = s
      <3>1. n \in U .. K - 1
        BY <1>2, <2>1
      <3> QED BY <1>1, <1>5, <1>6, <2>2, <3>1
    <2>3. CASE x # s
      <3>1. t.dar[x] = r.dar[x]
        BY <1>5, <1>6, <2>3
      <3>2. PICK j \in U .. H - 1 : x = j % SnModulo /\ IsPdu(z, c, o, r.dar[x], j)
        BY <3>1 DEF RxAt, Held
      <3>3. j \in U .. K - 1
        BY <1>2, <2>1
      <3> QED BY <3>1, <3>2, <3>3
    <2> QED BY <2>2, <2>3
  <1>10. PduStored(z, c, o, del, r, U, n, K, full, t)
    BY <1>1, <1>3, <1>5, <1>6, <1>8, <1>9 DEF PduStored
  <1> QED BY <1>1, <1>7, <1>10

\* What the receiver is after PDU n arrived.
Received(z, c, o, del, r, n, V, K, all, t) ==
    /\ RxAt(z, c, o, del, t, V, K, all) /\ t.win = r.win
    /\ all => t.dar[V % SnModulo] = NoPdu
    /\ \A j \in V .. K - 1 : (j = n \/ r.dar[j % SnModulo] # NoPdu) => t.dar[j % SnModulo] # NoPdu

\* A PDU that is discarded changes nothing, and its number was seen before.
LEMMA DiscardedTo ==
    ASSUME NEW z, NEW c, NEW o, NEW del, NEW r, NEW full, NEW U, NEW H,
           RxAt(z, c, o, del, r, U, H, full),
           NEW n \in Nat, n < H + Window, Discarded(r, n % SnModulo), r.win = 0 => U <= n,
           NEW all, all => full /\ r.dar[U % SnModulo] = NoPdu
    PROVE  U \in U .. TopAfter(H, n) /\ Received(z, c, o, del, r, n, U, TopAfter(H, n), all, r)
  <1>1. /\ r \in RxRecords /\ U \in Nat /\ H \in Nat /\ U <= H /\ H <= U + r.win
        /\ r.ur = U % SnModulo /\ r.uh = H % SnModulo
        /\ Held(z, c, o, r, U, H) /\ At(z, c, o, del, r, U, full)
    BY DEF RxAt
  <1>2. PICK w, W, M : w = r.win /\ W = Window /\ M = SnModulo
    OBVIOUS
  <1>3. (w = 0 \/ w = W) /\ W \in Nat \ {0} /\ M = W + W /\ H <= U + w /\ n < H + W
    BY <1>1, <1>2, WindowSize
  <1>4. U <= n => r.dar[n % SnModulo] # NoPdu
    BY <1>1, DiscardedIs
  <1>5. n < H
    <2> SUFFICES ASSUME n >= H PROVE FALSE
      BY <1>1
    <2>1. U <= n /\ n \in U .. U + SnModulo - 1 /\ H <= U + SnModulo
      BY <1>1, <1>2, <1>3
    <2>2. U \in Nat /\ H \in Nat /\ Held(z, c, o, r, U, H)
      BY <1>1
    <2>3. n >= H => r.dar[n % SnModulo] = NoPdu
      BY <2>1, <2>2, SlotIs
    <2> QED BY <1>4, <2>1, <2>3
  <1>6. TopAfter(H, n) = H /\ U \in U .. H
    BY <1>1, <1>5 DEF TopAfter
  <1>7. RxAt(z, c, o, del, r, U, H, all)
    <2>1. At(z, c, o, del, r, U, all)
      BY <1>1, AtLess
    <2> QED BY <2>1 DEF RxAt
  <1>8. ASSUME NEW j \in U .. H - 1, j = n \/ r.dar[j % SnModulo] # NoPdu
        PROVE  r.dar[j % SnModulo] # NoPdu
    <2>1. U <= j
      BY <1>1
    <2> QED BY <1>4, <1>8, <2>1
  <1>9. Received(z, c, o, del, r, n, U, H, all, r)
    BY <1>7, <1>8 DEF Received
  <1> QED BY <1>6, <1>9

\* rlc_um_receive_process_dar: the window moves, and what it passes comes out.
LEMMA ReceiveTo ==
    ASSUME NEW z, NEW c, NEW o, NEW v \in Nat, Cuts(z, c, o, v),
           NEW r, NEW del \in Seq(Seq(Byte)), NEW full, NEW U, NEW H,
           RxAt(z, c, o, del, r, U, H, full), H <= v,
           NEW n \in Nat, n < v, H <= n + Window, n < H + Window, r.win = 0 => U <= n,
           NEW pdu, IsPdu(z, c, o, pdu, n),
           NEW all, all => /\ full /\ r.dar[U % SnModulo] = NoPdu
                           /\ n < U + Window /\ (r.win = 0 => n = U)
    PROVE  \E V \in U .. TopAfter(H, n) :
              Received(z, c, o, del, r, n, V, TopAfter(H, n), all, ReceiveProcessDar(r, pdu))
  <1>1. /\ r \in RxRecords /\ U \in Nat /\ H \in Nat /\ U <= H /\ H <= U + r.win
        /\ r.ur = U % SnModulo /\ r.uh = H % SnModulo
        /\ Held(z, c, o, r, U, H) /\ At(z, c, o, del, r, U, full)
    BY DEF RxAt
  <1>2. PICK w, W, M, s, K, t : /\ w = r.win /\ W = Window /\ M = SnModulo /\ s = n % SnModulo
                                /\ K = TopAfter(H, n) /\ t = ReceiveProcessDar(r, pdu)
    OBVIOUS
  <1>3. /\ w = 0 \/ w = W
        /\ W \in Nat \ {0} /\ M = W + W /\ H <= U + w /\ n < H + W /\ H <= n + W
        /\ s \in Sns /\ pdu.sn = s
    BY <1>1, <1>2, WindowSize, SuccNumber DEF IsPdu
  <1>4. CASE Discarded(r, s)
    <2>1. t = r
      BY <1>2, <1>3, <1>4 DEF ReceiveProcessDar
    <2>2. U \in U .. K /\ Received(z, c, o, del, r, n, U, K, all, r)
      BY <1>2, <1>4, DiscardedTo
    <2> QED BY <1>2, <2>1, <2>2
  <1>5. CASE ~Discarded(r, s)
    <2>1. U <= n
      BY <1>1, <1>2, <1>5, NotDiscardedIs
    <2>2. K \in Nat /\ H <= K /\ n < K /\ K <= v /\ (n < H => K = H) /\ (n >= H => K = n + 1)
      BY <1>1, <1>2 DEF TopAfter
    <2>3. PICK r1 : r1 = [r EXCEPT !.dar[s] = pdu]
      OBVIOUS
    <2>4. /\ r1 \in RxRecords /\ r1.win = r.win /\ r1.ur = r.ur /\ r1.uh = r.uh
          /\ At(z, c, o, del, r1, U, full) /\ Held(z, c, o, r1, U, K)
          /\ r1.dar[s] # NoPdu
          /\ \A x \in Sns \ {s} : r1.dar[x] = r.dar[x]
      <3>1. PduStored(z, c, o, del, r, U, n, K, full, [r EXCEPT !.dar[n % SnModulo] = pdu])
        BY <1>2, <2>1, StoredIs
      <3>2. PduStored(z, c, o, del, r, U, n, K, full, r1)
        BY <1>2, <2>3, <3>1
      <3> QED BY <1>2, <3>2 DEF PduStored
    <2>5. PICK V1, r2 : V1 = BottomAfter(U, K, r.win) /\ r2 = MoveWindow(r1, s)
      OBVIOUS
    <2>6. all => (w = W => V1 = U) /\ (w = 0 => n = U /\ H = U /\ K = U + 1 /\ V1 = K)
      <3> SUFFICES ASSUME all PROVE (w = W => V1 = U) /\ (w = 0 => n = U /\ H = U /\ K = U + 1 /\ V1 = K)
        OBVIOUS
      <3>1. n < U + W /\ (w = 0 => n = U) /\ V1 = IF K <= U + w THEN U ELSE K - w
        BY <1>2, <2>5 DEF BottomAfter
      <3>2. CASE w = W
        <4>1. K <= U + W
          BY <1>1, <1>3, <2>2, <3>1, <3>2
        <4> QED BY <1>3, <3>1, <3>2, <4>1
      <3>3. CASE w = 0
        <4>1. n = U /\ H = U /\ K = U + 1
          BY <1>1, <1>3, <2>2, <3>1, <3>3
        <4>2. ~(K <= U + w) /\ K - w = K
          BY <1>1, <2>2, <3>3, <4>1
        <4> QED BY <1>3, <3>1, <3>3, <4>1, <4>2
      <3> QED BY <1>3, <3>2, <3>3
    <2>7. (all => full) /\ (all => Present(r1, U, V1))
      <3> SUFFICES ASSUME all, NEW j \in U .. V1 - 1 PROVE r1.dar[j % SnModulo] # NoPdu
        BY DEF Present
      <3>1. CASE w = W
        <4>1. V1 = U
          BY <2>6, <3>1
        <4> QED BY <1>1, <4>1
      <3>2. CASE w = 0
        <4>1. n = U /\ V1 = U + 1
          BY <2>6, <3>2
        <4>2. j = n
          BY <1>1, <4>1
        <4> QED BY <1>2, <2>4, <4>2
      <3> QED BY <1>3, <3>1, <3>2
    <2>8. V1 \in U .. K /\ Moved(z, c, o, del, r1, V1, K, all, r2)
      <3>1. /\ U \in Nat /\ H \in Nat /\ U <= H /\ H <= U + r1.win
            /\ r1.ur = U % SnModulo /\ r1.uh = H % SnModulo /\ V1 = BottomAfter(U, K, r1.win)
        BY <1>1, <2>4, <2>5
      <3>2. V1 \in U .. K /\ Moved(z, c, o, del, r1, V1, K, all, MoveWindow(r1, n % SnModulo))
        <4>1. K = TopAfter(H, n) /\ H <= v /\ n < v /\ U <= n /\ n < H + Window
          BY <1>2, <2>1
        <4>2. r1 \in RxRecords /\ At(z, c, o, del, r1, U, full) /\ Held(z, c, o, r1, U, K)
          BY <2>4
        <4> QED BY <2>7, <3>1, <4>1, <4>2, MoveWindowTo
      <3> QED BY <1>2, <2>5, <3>2
    <2>9. /\ RxAt(z, c, o, del, r2, V1, K, all) /\ r2.win = r.win /\ V1 \in Nat
          /\ \A j \in V1 .. K - 1 : r2.dar[j % SnModulo] = r1.dar[j % SnModulo]
      BY <1>1, <2>4, <2>8 DEF Moved
    <2>10. r2.dar[s] # NoPdu => n \in V1 .. K - 1
      <3> SUFFICES ASSUME r2.dar[s] # NoPdu PROVE n \in V1 .. K - 1
        OBVIOUS
      <3>1. PICK j \in V1 .. K - 1 : s = j % SnModulo
        BY <1>3, <2>9 DEF RxAt, Held
      <3>2. /\ j \in Nat /\ n \in Nat /\ U \in Nat /\ M \in Nat /\ M = SnModulo /\ K \in Nat
            /\ j < K /\ n < K /\ U <= j /\ U <= n /\ K <= U + M
        <4>1. K <= U + M
          BY <1>1, <1>3, <2>1, <2>2
        <4>2. U \in Nat /\ M \in Nat /\ M = SnModulo /\ K \in Nat /\ n < K /\ U <= n
          BY <1>1, <1>2, <1>3, <2>1, <2>2
        <4>3. V1 \in Nat /\ U <= V1
          BY <2>8, <2>9, <4>2
        <4>4. j \in Nat /\ j < K /\ V1 <= j
          BY <4>2, <4>3
        <4> QED BY <4>1, <4>2, <4>3, <4>4
      <3>3. j = n
        <4>1. CASE j <= n
          <5>1. n < j + SnModulo
            BY <3>2
          <5> QED BY <1>2, <3>1, <3>2, <4>1, <5>1, SameNumber
        <4>2. CASE n <= j
          <5>1. j < n + SnModulo
            BY <3>2
          <5> QED BY <1>2, <3>1, <3>2, <4>2, <5>1, SameNumber
        <4> QED BY <3>2, <4>1, <4>2
      <3> QED BY <3>1, <3>3
    <2>11. PICK r3 : r3 = MoveUr(r2, s)
      OBVIOUS
    <2>12. PICK V \in V1 .. K :
              /\ Moved(z, c, o, del, r2, V, K, all, r3)
              /\ n = V1 /\ r2.dar[s] # NoPdu => r3.dar[V % SnModulo] = NoPdu
              /\ ~(n = V1 /\ r2.dar[s] # NoPdu) => V = V1 /\ r3 = r2
      <3>1. r2.dar[n % SnModulo] # NoPdu => n \in V1 .. K - 1
        BY <1>2, <2>10
      <3>2. UrMoved(z, c, o, del, r2, V1, K, n, all, MoveUr(r2, n % SnModulo))
        <4>1. K <= v /\ RxAt(z, c, o, del, r2, V1, K, all)
          BY <2>2, <2>9
        <4> QED BY <3>1, <4>1, MoveUrTo
      <3> QED BY <1>2, <2>11, <3>2 DEF UrMoved
    <2>13. /\ RxAt(z, c, o, del, r3, V, K, all) /\ r3.win = r.win /\ V \in Nat
           /\ \A j \in V .. K - 1 : r3.dar[j % SnModulo] = r1.dar[j % SnModulo]
      <3>1. \A j \in V .. K - 1 : j \in V1 .. K - 1
        BY <2>2, <2>9, <2>12
      <3> QED BY <2>2, <2>9, <2>12, <3>1 DEF Moved
    <2>14. /\ RxAt(z, c, o, del, t, V, K, all) /\ t.win = r.win /\ t.dar = r3.dar
      <3>1. t = StartTimer(StopTimer(r3))
        BY <1>2, <1>3, <1>5, <2>3, <2>5, <2>11 DEF ReceiveProcessDar
      <3>2. PICK r4 : r4 = StopTimer(r3)
        OBVIOUS
      <3>3. RxAt(z, c, o, del, r4, V, K, all) /\ r4.win = r3.win /\ r4.dar = r3.dar
        BY <2>13, <3>2, StopTimerAt
      <3>4. RxAt(z, c, o, del, StartTimer(r4), V, K, all) /\ StartTimer(r4).win = r4.win
            /\ StartTimer(r4).dar = r4.dar
        BY <3>3, StartTimerAt
      <3> QED BY <2>13, <3>1, <3>2, <3>3, <3>4
    <2>15. ASSUME NEW j \in V .. K - 1, j = n \/ r.dar[j % SnModulo] # NoPdu
           PROVE  t.dar[j % SnModulo] # NoPdu
      <3>1. t.dar[j % SnModulo] = r1.dar[j % SnModulo] /\ j \in Nat
        BY <2>2, <2>13, <2>14
      <3>2. j % SnModulo \in Sns
        BY <3>1, SuccNumber
      <3>3. CASE j % SnModulo = s
        BY <2>4, <3>1, <3>3
      <3>4. CASE j % SnModulo # s
        <4>1. j # n
          BY <1>2, <3>4
        <4> QED BY <2>4, <2>15, <3>1, <3>2, <3>4, <4>1
      <3> QED BY <3>3, <3>4
    <2>16. ASSUME all PROVE t.dar[V % SnModulo] = NoPdu
      <3>1. CASE w = 0
        <4>1. V = K
          BY <2>2, <2>6, <2>12, <2>16, <3>1
        <4>2. K .. K - 1 = {}
          BY <2>2
        <4>3. K % SnModulo \in Sns
          BY <2>2, SuccNumber
        <4> QED BY <2>13, <2>14, <4>1, <4>2, <4>3 DEF RxAt, Held
      <3>2. CASE w = W /\ n = U
        <4>1. V1 = U /\ n \in V1 .. K - 1
          BY <1>1, <2>2, <2>6, <2>16, <3>2
        <4>2. r2.dar[s] # NoPdu
          BY <1>2, <2>4, <2>9, <4>1
        <4> QED BY <2>12, <2>14, <3>2, <4>1, <4>2
      <3>3. CASE w = W /\ n # U
        <4>1. V1 = U /\ V = U /\ U < n
          BY <1>1, <2>1, <2>6, <2>12, <2>16, <3>3
        <4>2. U \in V .. K - 1
          BY <1>1, <2>2, <4>1
        <4>3. r3.dar[U % SnModulo] = r1.dar[U % SnModulo]
          BY <2>13, <4>2
        <4>4. U % SnModulo \in Sns \ {s}
          <5>1. n < U + SnModulo
            BY <1>1, <1>2, <1>3, <2>16
          <5>2. U % SnModulo # n % SnModulo
            BY <1>1, <4>1, <5>1, SlotsDiffer
          <5> QED BY <1>1, <1>2, <5>2, SuccNumber
        <4> QED BY <2>4, <2>14, <2>16, <4>1, <4>3, <4>4
      <3> QED BY <1>3, <3>1, <3>2, <3>3
    <2>17. Received(z, c, o, del, r, n, V, K, all, t)
      BY <2>14, <2>15, <2>16 DEF Received
    <2>18. V \in U .. K
      BY <1>1, <2>2, <2>8, <2>12
    <2> QED BY <1>2, <2>17, <2>18
  <1> QED BY <1>4, <1>5

\* What the receiver is after t-Reordering expired.
TimedOut(z, c, o, del, r, U, H, t) ==
    \E V \in U .. H : RxAt(z, c, o, del, t, V, H, FALSE) /\ t.win = r.win

\* rlc_um_check_timer_dar_time_out: the window moves over the PDUs that did not arrive.
LEMMA TimeOutTo ==
    ASSUME NEW z, NEW c, NEW o, NEW v \in Nat, Cuts(z, c, o, v),
           NEW r, NEW del \in Seq(Seq(Byte)), NEW full, NEW U, NEW H,
           RxAt(z, c, o, del, r, U, H, full), H <= v, r.running, TimerOK(r)
    PROVE  TimedOut(z, c, o, del, r, U, H, TimerDarTimeOut(r))
  <1>1. /\ r \in RxRecords /\ U \in Nat /\ H \in Nat /\ U <= H /\ H <= U + r.win
        /\ Held(z, c, o, r, U, H) /\ At(z, c, o, del, r, U, full)
    BY DEF RxAt
  <1>2. r.ur = U % SnModulo /\ r.uh = H % SnModulo
    BY DEF RxAt
  <1>3. PICK M, W, g, a : M = SnModulo /\ W = Window /\ g = H - U /\ a = Ahead(r.ux, r.ur)
    OBVIOUS
  <1>4. W \in Nat \ {0} /\ M = W + W /\ M \in Nat /\ r.win = W /\ r.win \in Nat
    BY <1>1, <1>3, Modulus DEF TimerOK
  <1>5. r.ur \in Sns /\ r.ux \in Sns /\ r.uh \in Sns
    BY <1>1, RxFields
  <1>6. g \in 0 .. SnModulo - 1 /\ U + g = H /\ g <= W
    BY <1>1, <1>3, <1>4
  <1>7. Ahead(r.uh, r.ur) = g
    <2>1. Ahead((U + g) % SnModulo, U % SnModulo) = g
      BY <1>1, <1>6, NumberAfter
    <2> QED BY <1>2, <1>6, <2>1
  <1>8. a \in 0 .. SnModulo - 1 /\ a <= g
    <2>1. a \in Sns
      BY <1>3, <1>5, AheadIs
    <2>2. a \in 0 .. SnModulo - 1
      BY <2>1, Modulus
    <2> QED BY <1>3, <1>7, <2>2 DEF TimerOK
  <1>9. PICK X, e : X = U + a /\ e = H - X
    OBVIOUS
  <1>10. X \in Nat /\ X \in U .. H /\ e \in 0 .. SnModulo - 1 /\ X + e = H /\ e \in Nat /\ e < SnModulo
    <2>1. M \in Nat /\ SnModulo = M /\ g < M
      BY <1>3, <1>4, <1>6
    <2> QED BY <1>1, <1>6, <1>8, <1>9, <2>1
  <1>11. r.ux = X % SnModulo
    <2>1. (r.ur + Ahead(r.ux, r.ur)) % SnModulo = r.ux
      BY <1>5, ReachIs
    <2>2. ((U % SnModulo) + a) % SnModulo = (U + a) % SnModulo
      BY <1>1, <1>8, NumberAfter
    <2> QED BY <1>2, <1>3, <1>9, <2>1, <2>2
  <1>12. \A k \in 0 .. SnModulo - 1 : (r.ux + k) % SnModulo = (X + k) % SnModulo
    BY <1>10, <1>11, NumberAfter
  <1> DEFINE T == {k \in 0 .. SnModulo : r.dar[(r.ux + k) % SnModulo] = NoPdu}
  <1>13. T \in SUBSET Nat
    BY <1>3, <1>4
  <1>14. e \in T
    <2>1. H \in U .. U + SnModulo - 1 /\ H <= U + SnModulo /\ H >= H
      BY <1>1, <1>3, <1>4, <1>6
    <2>2. r.dar[H % SnModulo] = NoPdu
      BY <1>1, <2>1, SlotIs
    <2>3. (r.ux + e) % SnModulo = H % SnModulo
      BY <1>10, <1>12
    <2>4. e \in 0 .. SnModulo
      BY <1>3, <1>4, <1>10
    <2> QED BY <2>2, <2>3, <2>4
  <1>15. PICK run : run = Min(T)
    OBVIOUS
  <1>16. run \in Nat /\ run <= e
    <2>1. run \in T /\ run <= e
      <3> HIDE DEF T
      <3> QED BY <1>13, <1>14, <1>15, LeastIs
    <2> QED BY <1>13, <2>1
  <1>17. PICK V : V = X + run
    OBVIOUS
  <1>18. V \in Nat /\ V \in U .. H /\ V - U < SnModulo /\ run \in 0 .. SnModulo - 1
    <2>1. M \in Nat /\ SnModulo = M /\ g < M
      BY <1>3, <1>4, <1>6
    <2>2. U \in Nat /\ H \in Nat /\ X \in Nat /\ U <= X /\ H = U + g /\ H = X + e /\ e \in Nat /\ g \in Nat
      BY <1>1, <1>6, <1>10, <2>1
    <2>3. V = X + run /\ run \in Nat /\ run <= e
      BY <1>16, <1>17
    <2>4. e < M
      BY <1>10, <2>1
    <2> QED BY <2>1, <2>2, <2>3, <2>4
  <1>19. (r.ux + run) % SnModulo = V % SnModulo /\ V % SnModulo \in Sns
    BY <1>12, <1>17, <1>18, SuccNumber
  <1>20. PICK r1, x, r2, no : /\ r1 = [r EXCEPT !.ur = V % SnModulo]
                              /\ x = TryReassembly(r1, U % SnModulo, V % SnModulo)
                              /\ r2 = [x EXCEPT !.running = FALSE] /\ no = FALSE
    OBVIOUS
  <1>21. TimerDarTimeOut(r) = StartTimer(r2)
    BY <1>2, <1>15, <1>19, <1>20 DEF TimerDarTimeOut
  <1> HIDE DEF T
  <1>22. /\ r1 \in RxRecords /\ SameBytes(r1, r) /\ r1.win = r.win /\ r1.ur = V % SnModulo
         /\ r1.uh = H % SnModulo
    BY <1>1, <1>2, <1>19, <1>20, SetFields
  <1>23. At(z, c, o, del, r1, U, full) /\ Held(z, c, o, r1, U, H)
    BY <1>1, <1>22, SameBytesAt, SameBytesHeld
  <1>24. Advanced(z, c, o, del, r1, V, H, no, x)
    <2>1. no => full /\ \A j \in U .. V - 1 : r1.dar[j % SnModulo] # NoPdu
      BY <1>20
    <2>2. H <= U + SnModulo
      BY <1>1, <1>3, <1>4
    <2>3. r1 \in RxRecords /\ r1.uh = H % SnModulo /\ U \in Nat /\ H \in Nat
      BY <1>1, <1>22
    <2>4. Advanced(z, c, o, del, r1, V, H, no, TryReassembly(r1, U % SnModulo, V % SnModulo))
      BY <1>18, <1>23, <2>1, <2>2, <2>3, AdvanceTo
    <2> QED BY <1>20, <2>4
  <1>25. /\ x \in RxRecords /\ x.win = r.win /\ x.ur = V % SnModulo /\ x.uh = H % SnModulo
         /\ Held(z, c, o, x, V, H) /\ At(z, c, o, del, x, V, no)
    BY <1>22, <1>24 DEF Advanced, SameWindow
  <1>26. RxAt(z, c, o, del, x, V, H, no)
    <2>1. V <= H /\ H <= V + x.win
      BY <1>1, <1>4, <1>18, <1>25
    <2> QED BY <1>1, <1>18, <1>25, <2>1 DEF RxAt
  <1>27. RxAt(z, c, o, del, r2, V, H, no) /\ r2.win = r.win
    <2>1. r2 \in RxRecords /\ SameBytes(r2, x) /\ r2.win = x.win /\ r2.ur = x.ur /\ r2.uh = x.uh
      BY <1>5, <1>20, <1>25, SetFields
    <2> QED BY <1>25, <1>26, <2>1, SameAt
  <1>28. RxAt(z, c, o, del, StartTimer(r2), V, H, no) /\ StartTimer(r2).win = r.win
    BY <1>27, StartTimerAt
  <1> QED BY <1>18, <1>20, <1>21, <1>28 DEF TimedOut

-----------------------------------------------------------------------------
(* More SDUs and more cuts change nothing of the PDUs there are. *)

Grown(z, c, o, v, z1, c1, o1) ==
    /\ z1 \in Sizes /\ Len(z) <= Len(z1) /\ \A k \in 1 .. Len(z) : z1[k] = z[k]
    /\ \A n \in 0 .. v : c1[n] = c[n] /\ o1[n] = o[n]

\* A PDU carries the same bytes.
LEMMA PduKept ==
    ASSUME NEW z, NEW c, NEW o, NEW v \in Nat, Cuts(z, c, o, v),
           NEW z1, NEW c1, NEW o1, Grown(z, c, o, v, z1, c1, o1),
           NEW n \in 0 .. v - 1, NEW p, IsPdu(z, c, o, p, n)
    PROVE  IsPdu(z1, c1, o1, p, n)
  <1>1. n \in 0 .. v /\ n + 1 \in 0 .. v
    OBVIOUS
  <1>2. c1[n] = c[n] /\ o1[n] = o[n] /\ c1[n + 1] = c[n + 1] /\ o1[n + 1] = o[n + 1]
    BY <1>1 DEF Grown
  <1>3. Count(c1, o1, n) = Count(c, o, n)
    BY <1>2 DEF Count
  <1>4. ASSUME NEW i \in 1 .. Count(c, o, n) PROVE PieceOf(z1, c1, o1, n, i) = PieceOf(z, c, o, n, i)
    <2>1. PICK k : k = c[n] + i - 1
      OBVIOUS
    <2>2. k \in 1 .. Len(z)
      BY <2>1, PiecesAre
    <2>3. z1[k] = z[k]
      BY <2>2 DEF Grown
    <2>4. EndOf(z1, c1, o1, n, k) = EndOf(z, c, o, n, k)
      BY <1>2, <2>3 DEF EndOf
    <2>5. StartOf(o1, n, i) = StartOf(o, n, i)
      BY <1>2 DEF StartOf
    <2> QED BY <1>2, <2>1, <2>4, <2>5 DEF PieceOf
  <1> QED BY <1>2, <1>3, <1>4 DEF IsPdu

\* What came out and the SDU in construction are the same.
LEMMA AtKept ==
    ASSUME NEW z, NEW c, NEW o, NEW v \in Nat, Cuts(z, c, o, v),
           NEW z1, NEW c1, NEW o1, Grown(z, c, o, v, z1, c1, o1),
           NEW n \in 0 .. v, NEW del, NEW r, NEW full, At(z, c, o, del, r, n, full)
    PROVE  At(z1, c1, o1, del, r, n, full)
  <1>1. c1[n] = c[n] /\ o1[n] = o[n]
    BY DEF Grown
  <1>2. c[n] \in Nat /\ c[n] <= Len(z) + 1 /\ Len(z) \in Nat
    <2>1. c[n] \in 1 .. Len(z) + 1 /\ z \in Seq(Nat \ {0})
      BY DEF Cuts, Sizes
    <2>2. Len(z) \in Nat
      BY <2>1
    <2> QED BY <2>1, <2>2
  <1>3. Building(c1, o1, r, n)
    BY <1>1 DEF At, Building
  <1>4. PICK done, top : done = del \o r.out /\ top = c[n]
    OBVIOUS
  <1>5. Done(z, done, top, full)
    BY <1>4 DEF At
  <1>6. ASSUME NEW i \in 1 .. Len(done) PROVE done[i] = Whole(z1, IdOf(done[i]))
    <2>1. PICK k : k = IdOf(done[i])
      OBVIOUS
    <2>2. k \in 1 .. top - 1 /\ done[i] = Whole(z, k)
      BY <1>5, <2>1 DEF Done
    <2>3. k \in 1 .. Len(z)
      BY <1>2, <1>4, <2>2
    <2>4. z1[k] = z[k]
      BY <2>3 DEF Grown
    <2> QED BY <2>1, <2>2, <2>4 DEF Whole
  <1>7. Done(z1, done, top, full)
    BY <1>5, <1>6 DEF Done
  <1> QED BY <1>1, <1>3, <1>4, <1>7 DEF At

\* So is the whole receiver.
LEMMA RxKept ==
    ASSUME NEW z, NEW c, NEW o, NEW v \in Nat, Cuts(z, c, o, v),
           NEW z1, NEW c1, NEW o1, Grown(z, c, o, v, z1, c1, o1),
           NEW del, NEW r, NEW U, NEW H, NEW full, RxAt(z, c, o, del, r, U, H, full), H <= v
    PROVE  RxAt(z1, c1, o1, del, r, U, H, full)
  <1>1. U \in Nat /\ H \in Nat /\ U <= H
    BY DEF RxAt
  <1>2. U \in 0 .. v
    BY <1>1
  <1>3. At(z1, c1, o1, del, r, U, full)
    BY <1>2, AtKept DEF RxAt
  <1>4. Held(z1, c1, o1, r, U, H)
    <2> SUFFICES ASSUME NEW sn \in Sns, r.dar[sn] # NoPdu
                 PROVE  \E n \in U .. H - 1 : sn = n % SnModulo /\ IsPdu(z1, c1, o1, r.dar[sn], n)
      BY DEF Held
    <2>1. PICK n \in U .. H - 1 : sn = n % SnModulo /\ IsPdu(z, c, o, r.dar[sn], n)
      BY DEF RxAt, Held
    <2>2. n \in 0 .. v - 1
      BY <1>1
    <2>3. IsPdu(z1, c1, o1, r.dar[sn], n)
      BY <2>1, <2>2, PduKept
    <2> QED BY <2>1, <2>3
  <1> QED BY <1>3, <1>4 DEF RxAt

\* A handler ends: what came out is delivered.
LEMMA HandledAt ==
    ASSUME NEW z, NEW c, NEW o, NEW del \in Seq(Seq(Byte)), NEW r, NEW U, NEW H, NEW full,
           RxAt(z, c, o, del, r, U, H, full)
    PROVE  /\ RxAt(z, c, o, del \o r.out, [r EXCEPT !.out = <<>>], U, H, full)
           /\ [r EXCEPT !.out = <<>>].dar = r.dar
  <1>1. PICK empty : empty \in Seq(Seq(Byte)) /\ empty = <<>>
    <2>1. <<>> \in Seq(Seq(Byte))
      OBVIOUS
    <2> QED BY <2>1, Zenon
  <1>2. PICK t, out : t = [r EXCEPT !.out = empty] /\ out = del \o r.out
    OBVIOUS
  <1>3. r \in RxRecords
    BY DEF RxAt
  <1>4. r.out \in Seq(Seq(Byte))
    BY <1>3, RxFields
  <1>5. /\ t \in RxRecords /\ t.out = empty /\ t.win = r.win /\ t.ur = r.ur /\ t.uh = r.uh
        /\ t.dar = r.dar /\ t.missing = r.missing /\ t.sdu = r.sdu /\ t.last = r.last
    BY <1>1, <1>2, <1>3 DEF RxRecords
  <1>6. out \o t.out = del \o r.out
    <2>1. out \in Seq(Seq(Byte))
      BY <1>2, <1>4
    <2>2. out \o <<>> = out
      BY <2>1
    <2> QED BY <1>1, <1>2, <1>5, <2>2
  <1>7. At(z, c, o, out, t, U, full)
    BY <1>5, <1>6 DEF RxAt, At, Building
  <1>8. Held(z, c, o, t, U, H)
    BY <1>5 DEF RxAt, Held
  <1>9. RxAt(z, c, o, out, t, U, H, full)
    BY <1>5, <1>7, <1>8 DEF RxAt
  <1> QED BY <1>1, <1>2, <1>5, <1>9

-----------------------------------------------------------------------------
(* The transmitting side makes the next cut. *)

\* The list holds the last SDUs; only the first one may have been started.
Listed(z, s) ==
    /\ Len(s) <= Len(z)
    /\ \A i \in 1 .. Len(s) : /\ s[i].id = Len(z) - Len(s) + i /\ s[i].size = z[s[i].id]
                              /\ i > 1 => s[i].remaining = s[i].size
\* Where the next PDU starts.
IdAt(z, s) == Len(z) - Len(s) + 1
OffAt(s) == IF s = <<>> THEN 0 ELSE s[1].size - s[1].remaining

\* The list after i - 1 SDUs and w bytes of the next one.
CutAt(z, i, w, s) ==
    /\ Listed(z, s)
    /\ IdAt(z, s) = IdAt(z, input_sdus) + IF Left[i] = w THEN i ELSE i - 1
    /\ OffAt(s) = IF Left[i] = w THEN 0 ELSE w + (input_sdus[i].size - input_sdus[i].remaining)

\* The list that rlc_um_segment_5 leaves.
LEMMA ListAfter ==
    ASSUME SdusOK, NEW i \in 1 .. Len(input_sdus), NEW w \in 1 .. Left[i], NEW z \in Sizes,
           Listed(z, input_sdus), NEW s,
           s = IF Left[i] = w THEN AfterFill(i, 0) ELSE AfterFill(i - 1, w)
    PROVE  CutAt(z, i, w, s)
  <1>1. PICK n, l : n = Len(input_sdus) /\ l = Len(z)
    OBVIOUS
  <1>2. n \in Nat /\ l \in Nat /\ i \in 1 .. n /\ n <= l /\ i \in Nat
    <2>1. n \in Nat
      BY <1>1, LeftIs
    <2>2. l \in Nat
      BY <1>1 DEF Sizes
    <2> QED BY <1>1, <2>1, <2>2 DEF Listed
  <1>3. \A k \in 1 .. n : /\ input_sdus[k].id = l - n + k /\ input_sdus[k].size = z[input_sdus[k].id]
                          /\ k > 1 => input_sdus[k].remaining = input_sdus[k].size
    BY <1>1 DEF Listed
  <1>4. \A k \in 1 .. n : input_sdus[k].size \in Int /\ input_sdus[k].remaining \in Int
                          /\ Left[k] = input_sdus[k].remaining
    BY <1>1, SduIs
  <1>5. CASE Left[i] = w
    <2>1. PICK m : m = n - i
      OBVIOUS
    <2>2. m \in Nat /\ n - m = i
      BY <1>2, <2>1
    <2>3. s \in Seq(SduRecords) /\ Len(s) = m /\ \A k \in 1 .. m : s[k] = input_sdus[i + k]
      <3>1. s = AfterFill(i, 0) /\ m = Len(input_sdus) - i
        BY <1>1, <1>5, <2>1
      <3>2. RestIs(s, m, i)
        BY <3>1, WholeRest
      <3> QED BY <3>2 DEF RestIs
    <2>4. \A k \in 1 .. m : i + k \in 1 .. n /\ i + k > 1 /\ l - n + (i + k) = l - m + k
      BY <1>2, <2>2
    <2>5. Listed(z, s)
      <3>1. m <= l
        BY <1>2, <2>2
      <3>2. ASSUME NEW k \in 1 .. m
            PROVE  s[k].id = l - m + k /\ s[k].size = z[s[k].id] /\ s[k].remaining = s[k].size
        BY <1>3, <2>3, <2>4
      <3> QED BY <1>1, <2>3, <3>1, <3>2 DEF Listed
    <2>6. IdAt(z, s) = IdAt(z, input_sdus) + i
      <3>1. IdAt(z, s) = l - m + 1 /\ IdAt(z, input_sdus) = l - n + 1
        BY <1>1, <2>3 DEF IdAt
      <3>2. l - m + 1 = (l - n + 1) + i
        BY <1>2, <2>2
      <3> QED BY <3>1, <3>2
    <2>7. OffAt(s) = 0
      <3>1. CASE s = <<>>
        BY <3>1 DEF OffAt
      <3>2. CASE s # <<>>
        <4>1. 1 \in 1 .. m
          BY <2>2, <2>3, <3>2
        <4>2. s[1] = input_sdus[i + 1] /\ i + 1 \in 1 .. n /\ i + 1 > 1
          BY <2>3, <2>4, <4>1
        <4>3. s[1].remaining = s[1].size /\ s[1].size \in Int
          BY <1>3, <1>4, <4>2
        <4> QED BY <3>2, <4>3 DEF OffAt
      <3> QED BY <3>1, <3>2
    <2> QED BY <1>5, <2>5, <2>6, <2>7 DEF CutAt
  <1>6. CASE Left[i] # w
    <2>1. PICK m : m = n - i + 1
      OBVIOUS
    <2>2. m \in Nat \ {0} /\ n - m = i - 1 /\ 1 \in 1 .. m
      BY <1>2, <2>1
    <2>3. /\ s \in Seq(SduRecords) /\ Len(s) = m
          /\ s[1].id = input_sdus[i].id /\ s[1].size = input_sdus[i].size
          /\ s[1].remaining = Left[i] - w
          /\ \A k \in 2 .. m : s[k] = input_sdus[(i - 1) + k]
      <3>1. s = AfterFill(i - 1, w) /\ m = Len(input_sdus) - i + 1 /\ w # Left[i]
        BY <1>1, <1>6, <2>1
      <3>2. StartedRest(s, m, i, w)
        BY <3>1, PartRest
      <3> QED BY <3>2 DEF StartedRest
    <2>4. \A k \in 2 .. m : (i - 1) + k \in 1 .. n /\ (i - 1) + k > 1 /\ l - n + ((i - 1) + k) = l - m + k
      BY <1>2, <2>2
    <2>5. Listed(z, s)
      <3>1. m <= l
        BY <1>2, <2>2
      <3>2. ASSUME NEW k \in 1 .. m
            PROVE  /\ s[k].id = l - m + k /\ s[k].size = z[s[k].id]
                   /\ k > 1 => s[k].remaining = s[k].size
        <4>1. CASE k = 1
          <5>1. l - n + i = l - m + 1
            BY <1>2, <2>2
          <5>2. input_sdus[i].id = l - n + i /\ input_sdus[i].size = z[input_sdus[i].id] /\ ~(k > 1)
            BY <1>2, <1>3, <4>1
          <5> QED BY <2>3, <4>1, <5>1, <5>2
        <4>2. CASE k \in 2 .. m
          BY <1>3, <2>3, <2>4, <4>2
        <4> QED BY <2>2, <4>1, <4>2
      <3> QED BY <1>1, <2>3, <3>1, <3>2 DEF Listed
    <2>6. IdAt(z, s) = IdAt(z, input_sdus) + (i - 1)
      <3>1. IdAt(z, s) = l - m + 1 /\ IdAt(z, input_sdus) = l - n + 1
        BY <1>1, <2>3 DEF IdAt
      <3>2. l - m + 1 = (l - n + 1) + (i - 1)
        BY <1>2, <2>2
      <3> QED BY <3>1, <3>2
    <2>7. OffAt(s) = w + (input_sdus[i].size - input_sdus[i].remaining)
      <3>1. s # <<>>
        BY <2>2, <2>3
      <3>2. OffAt(s) = input_sdus[i].size - (Left[i] - w)
        BY <2>3, <3>1 DEF OffAt
      <3>3. PICK a, b : a = input_sdus[i].size /\ b = input_sdus[i].remaining
        OBVIOUS
      <3>4. a \in Int /\ b \in Int /\ Left[i] = b /\ w \in Int
        BY <1>2, <1>4, <3>3
      <3>5. a - (b - w) = w + (a - b)
        BY <3>4
      <3> QED BY <3>2, <3>3, <3>4, <3>5
    <2> QED BY <1>6, <2>5, <2>6, <2>7 DEF CutAt
  <1> QED BY <1>5, <1>6

\* Where the next PDU starts is a place in the stream.
LEMMA PlaceIs ==
    ASSUME SdusOK, NEW z \in Sizes, Listed(z, input_sdus)
    PROVE  /\ IdAt(z, input_sdus) \in 1 .. Len(z) + 1 /\ OffAt(input_sdus) \in Nat
           /\ OffAt(input_sdus) > 0 =>
                 IdAt(z, input_sdus) <= Len(z) /\ OffAt(input_sdus) < z[IdAt(z, input_sdus)]
  <1>1. PICK n, l : n = Len(input_sdus) /\ l = Len(z)
    OBVIOUS
  <1>2. n \in Nat /\ l \in Nat /\ n <= l
    <2>1. n \in Nat
      BY <1>1, LeftIs
    <2>2. l \in Nat
      BY <1>1 DEF Sizes
    <2> QED BY <1>1, <2>1, <2>2 DEF Listed
  <1>3. IdAt(z, input_sdus) = l - n + 1
    BY <1>1 DEF IdAt
  <1>4. CASE input_sdus = <<>>
    <2>1. OffAt(input_sdus) = 0
      BY <1>4 DEF OffAt
    <2> QED BY <1>1, <1>2, <1>3, <2>1
  <1>5. CASE input_sdus # <<>>
    <2>1. 1 \in 1 .. n /\ n # 0
      <3>1. input_sdus \in Seq(SduRecords)
        BY DEF SdusOK
      <3> QED BY <1>1, <1>2, <1>5, <3>1
    <2>2. PICK a, b : a = input_sdus[1].size /\ b = input_sdus[1].remaining
      OBVIOUS
    <2>3. a \in Nat /\ b \in Nat \ {0} /\ b <= a
      BY <1>1, <2>1, <2>2, SduIs
    <2>4. a = z[l - n + 1]
      BY <1>1, <2>1, <2>2 DEF Listed
    <2>5. OffAt(input_sdus) = a - b
      BY <1>5, <2>2 DEF OffAt
    <2>6. a - b \in Nat /\ a - b < a
      BY <2>3
    <2> QED BY <1>1, <1>2, <1>3, <2>1, <2>4, <2>5, <2>6
  <1> QED BY <1>4, <1>5

\* One more cut.
NextCut(z, c, o, v, s, c1, o1) ==
    /\ Cuts(z, c1, o1, v + 1) /\ Grown(z, c, o, v, z, c1, o1)
    /\ c1[v + 1] = IdAt(z, s) /\ o1[v + 1] = OffAt(s)

\* SDU i of the list, with its place in the stream, and the cuts around it.
Placed(z, s, i, w, l, n, a, b, size, C, D, x, y) ==
    /\ l = Len(z) /\ n = Len(input_sdus) /\ C = IdAt(z, input_sdus) /\ D = IdAt(z, s)
    /\ x = OffAt(input_sdus) /\ y = OffAt(s)
    /\ size = input_sdus[i].size /\ b = input_sdus[i].remaining /\ b = Left[i]
    /\ input_sdus[i].id = C + i - 1
Spaced(z, i, w, l, n, a, b, size, C, D, x, y) ==
    /\ l \in Nat /\ n \in Nat /\ a \in Nat /\ b \in Nat /\ size \in Nat
    /\ C \in Nat /\ D \in Nat /\ x \in Nat /\ y \in Nat /\ w \in Nat /\ i \in Nat
    /\ n <= l /\ i >= 1 /\ i <= n /\ C = l - n + 1
    /\ b <= size /\ a = size - b /\ w <= b /\ w >= 1 /\ size = z[C + i - 1]
    /\ w = b => D = C + i /\ y = 0
    /\ w # b => D = C + i - 1 /\ y = w + a
    /\ i = 1 => a = x
    /\ i # 1 => a = 0

\* The numbers of an SDU of the list.
LEMMA PlaceOf ==
    ASSUME SdusOK, NEW z \in Sizes, Listed(z, input_sdus), NEW i \in 1 .. Len(input_sdus),
           NEW w \in 1 .. Left[i], NEW s, CutAt(z, i, w, s)
    PROVE  \E l, n, a, b, size, C, D, x, y : Placed(z, s, i, w, l, n, a, b, size, C, D, x, y)
                                                /\ Spaced(z, i, w, l, n, a, b, size, C, D, x, y)
  <1>1. PICK l, n, a, b, size, C, D, x, y :
              /\ l = Len(z) /\ n = Len(input_sdus)
              /\ C = IdAt(z, input_sdus) /\ D = IdAt(z, s)
              /\ x = OffAt(input_sdus) /\ y = OffAt(s)
              /\ size = input_sdus[i].size /\ b = input_sdus[i].remaining
              /\ a = size - b
    OBVIOUS
  <1>2. n \in Nat /\ l \in Nat /\ n <= l /\ i \in 1 .. n
    <2>1. n \in Nat
      BY <1>1, LeftIs
    <2>2. l \in Nat
      BY <1>1 DEF Sizes
    <2> QED BY <1>1, <2>1, <2>2 DEF Listed
  <1>3. C = l - n + 1 /\ C \in Nat
    BY <1>1, <1>2 DEF IdAt
  <1>4. size \in Nat /\ b \in Nat /\ b <= size /\ b = Left[i]
    BY <1>1, SduIs
  <1>5. a \in Nat /\ w <= b /\ w >= 1 /\ w \in Nat
    BY <1>1, <1>4
  <1>6. input_sdus[i].id = l - n + i /\ size = z[input_sdus[i].id] /\ (i > 1 => b = size)
    BY <1>1, <1>2 DEF Listed
  <1>7. l - n + i = C + i - 1
    BY <1>2, <1>3
  <1>8. input_sdus[i].id = C + i - 1 /\ size = z[C + i - 1]
    BY <1>6, <1>7
  <1>9. (w = b => D = C + i /\ y = 0) /\ (w # b => D = C + i - 1 /\ y = w + a)
    <2>1. /\ D = C + IF b = w THEN i ELSE i - 1
          /\ y = IF b = w THEN 0 ELSE w + (size - b)
      BY <1>1, <1>4 DEF CutAt
    <2>2. C + (i - 1) = C + i - 1
      BY <1>2, <1>3
    <2> QED BY <1>1, <2>1, <2>2
  <1>10. D \in Nat /\ y \in Nat
    <2>1. C + i \in Nat /\ C + i - 1 \in Nat /\ w + a \in Nat
      BY <1>2, <1>3, <1>5
    <2> QED BY <1>9, <2>1
  <1>11. x \in Nat
    BY <1>1, PlaceIs
  <1>12. i = 1 => a = x
    <2> SUFFICES ASSUME i = 1 PROVE a = x
      OBVIOUS
    <2>1. input_sdus # <<>>
      <3>1. input_sdus \in Seq(SduRecords) /\ n # 0
        BY <1>2 DEF SdusOK
      <3> QED BY <1>1, <3>1
    <2> QED BY <1>1, <2>1 DEF OffAt
  <1>13. i # 1 => a = 0
    BY <1>1, <1>2, <1>4, <1>6
  <1>14. Placed(z, s, i, w, l, n, a, b, size, C, D, x, y)
    BY <1>1, <1>4, <1>8 DEF Placed
  <1>15. i \in Nat /\ i >= 1 /\ i <= n
    BY <1>2
  <1>16. Spaced(z, i, w, l, n, a, b, size, C, D, x, y)
    BY <1>1, <1>2, <1>3, <1>4, <1>5, <1>8, <1>9, <1>10, <1>11, <1>12, <1>13, <1>15 DEF Spaced
  <1> QED BY <1>14, <1>16

\* A cut inside an SDU.
Inside(l, size, C, D, x, y) == D \in 1 .. l + 1 /\ D <= l /\ y < size /\ (C < D \/ (C = D /\ x < y))

\* Such a cut is a place in the stream, after the cut before it.
LEMMA CutInside ==
    ASSUME NEW l \in Nat, NEW n \in Nat, NEW a \in Nat, NEW b \in Nat, NEW size \in Nat, NEW C \in Nat,
           NEW D, NEW x \in Nat, NEW y, NEW w \in Nat, NEW i \in Nat,
           n <= l, i >= 1, i <= n, C = l - n + 1, b <= size, a = size - b, w <= b, w >= 1, w # b,
           D = C + i - 1, y = w + a, i = 1 => a = x
    PROVE  Inside(l, size, C, D, x, y)
  BY DEF Inside

Put(f, k, d) == [f EXCEPT ![k] = d]

IsPut(f, k, d, g) == g \in [Nat -> Nat] /\ g[k] = d /\ \A j \in Nat : j # k => g[j] = f[j]

\* One more value of a function.
LEMMA SetAt ==
    ASSUME NEW f \in [Nat -> Nat], NEW k \in Nat, NEW d \in Nat
    PROVE  IsPut(f, k, d, Put(f, k, d))
  BY DEF Put, IsPut

\* The next cut is a place in the stream, after the last one.
LEMMA CutIs ==
    ASSUME SdusOK, NEW z, NEW c, NEW o, NEW v \in Nat, Cuts(z, c, o, v), Listed(z, input_sdus),
           c[v] = IdAt(z, input_sdus), o[v] = OffAt(input_sdus),
           NEW i \in 1 .. Len(input_sdus), NEW w \in 1 .. Left[i], NEW s, CutAt(z, i, w, s),
           NEW c1, c1 = Put(c, v + 1, IdAt(z, s)), NEW o1, o1 = Put(o, v + 1, OffAt(s))
    PROVE  NextCut(z, c, o, v, s, c1, o1)
  <1>1. /\ z \in Sizes /\ c \in [Nat -> Nat] /\ o \in [Nat -> Nat] /\ c[0] = 1 /\ o[0] = 0
    BY DEF Cuts
  <1>2. PICK l, n, a, b, size, C, D, x, y : /\ Placed(z, s, i, w, l, n, a, b, size, C, D, x, y)
                                            /\ Spaced(z, i, w, l, n, a, b, size, C, D, x, y)
    BY <1>1, PlaceOf
  <1>3. /\ l = Len(z) /\ C = IdAt(z, input_sdus) /\ D = IdAt(z, s)
        /\ x = OffAt(input_sdus) /\ y = OffAt(s) /\ D \in Nat /\ y \in Nat
    BY <1>2 DEF Placed, Spaced
  <1>4. IsPut(c, v + 1, D, c1) /\ IsPut(o, v + 1, y, o1) /\ v + 1 \in Nat
    <2>1. c1 = Put(c, v + 1, D) /\ o1 = Put(o, v + 1, y) /\ v + 1 \in Nat
      BY <1>3
    <2>2. D \in Nat /\ y \in Nat
      BY <1>3
    <2>3. PICK k \in Nat : k = v + 1
      BY <2>1
    <2>4. IsPut(c, k, D, Put(c, k, D)) /\ IsPut(o, k, y, Put(o, k, y))
      BY <1>1, <2>2, SetAt
    <2> QED BY <2>1, <2>3, <2>4
  <1>5. c1 \in [Nat -> Nat] /\ o1 \in [Nat -> Nat] /\ c1[v + 1] = D /\ o1[v + 1] = y /\ v + 1 \in Nat
    BY <1>4 DEF IsPut
  <1>6. \A k \in 0 .. v : k \in Nat /\ c1[k] = c[k] /\ o1[k] = o[k]
    <2>1. \A k \in 0 .. v : k \in Nat /\ k # v + 1
      OBVIOUS
    <2> QED BY <1>4, <2>1 DEF IsPut
  <1>7. /\ l \in Nat /\ n \in Nat /\ a \in Nat /\ b \in Nat /\ size \in Nat
        /\ C \in Nat /\ D \in Nat /\ x \in Nat /\ y \in Nat /\ w \in Nat /\ i \in Nat
        /\ n <= l /\ i >= 1 /\ i <= n /\ C = l - n + 1 /\ b <= size /\ a = size - b /\ w <= b /\ w >= 1
    BY <1>2 DEF Spaced
  <1>8. D \in 1 .. l + 1 /\ (y > 0 => D <= l /\ y < z[D])
    <2>1. CASE w = b
      <3>1. D = C + i /\ y = 0
        BY <1>2, <2>1 DEF Spaced
      <3> QED BY <1>7, <3>1
    <2>2. CASE w # b
      <3>1. D = C + i - 1 /\ y = w + a /\ z[D] = size
        BY <1>2, <2>2 DEF Spaced
      <3>2. i = 1 => a = x
        BY <1>2 DEF Spaced
      <3>3. Inside(l, size, C, D, x, y)
        <4>1. D = C + i - 1 /\ y = w + a /\ (i = 1 => a = x)
          BY <3>1, <3>2
        <4> QED BY <1>7, <2>2, <4>1, CutInside
      <3>4. D \in 1 .. l + 1 /\ D <= l /\ y < size
        BY <3>3 DEF Inside
      <3> QED BY <3>1, <3>4
    <2> QED BY <2>1, <2>2
  <1>9. C < D \/ (C = D /\ x < y)
    <2>1. CASE w = b
      <3>1. D = C + i /\ y = 0
        BY <1>2, <2>1 DEF Spaced
      <3> QED BY <1>7, <3>1
    <2>2. CASE w # b
      <3>1. D = C + i - 1 /\ y = w + a /\ (i = 1 => a = x)
        BY <1>2, <2>2 DEF Spaced
      <3>2. Inside(l, size, C, D, x, y)
        BY <1>7, <2>2, <3>1, CutInside
      <3> QED BY <3>2 DEF Inside
    <2> QED BY <2>1, <2>2
  <1>10. ASSUME NEW k \in 0 .. v + 1
         PROVE  c1[k] \in 1 .. Len(z) + 1 /\ (o1[k] > 0 => c1[k] <= Len(z) /\ o1[k] < z[c1[k]])
    <2>1. CASE k = v + 1
      BY <1>5, <1>8, <1>3, <2>1
    <2>2. CASE k # v + 1
      <3>1. k \in 0 .. v
        BY <2>2
      <3>2. c[k] \in 1 .. Len(z) + 1 /\ (o[k] > 0 => c[k] <= Len(z) /\ o[k] < z[c[k]])
        BY <3>1 DEF Cuts
      <3> QED BY <1>6, <3>1, <3>2
    <2> QED BY <2>1, <2>2
  <1>11. ASSUME NEW k \in 0 .. (v + 1) - 1
         PROVE  c1[k] < c1[k + 1] \/ (c1[k] = c1[k + 1] /\ o1[k] < o1[k + 1])
    <2>1. CASE k = v
      <3>1. v \in 0 .. v
        OBVIOUS
      <3>2. c1[v] = C /\ o1[v] = x
        BY <1>6, <1>3, <3>1
      <3> QED BY <1>5, <1>9, <2>1, <3>2
    <2>2. CASE k # v
      <3>1. k \in 0 .. v - 1 /\ k \in 0 .. v /\ k + 1 \in 0 .. v
        BY <2>2
      <3>2. c[k] < c[k + 1] \/ (c[k] = c[k + 1] /\ o[k] < o[k + 1])
        BY <3>1 DEF Cuts
      <3> QED BY <1>6, <3>1, <3>2
    <2> QED BY <2>1, <2>2
  <1>12. c1[0] = 1 /\ o1[0] = 0
    <2>1. 0 \in 0 .. v
      OBVIOUS
    <2> QED BY <1>1, <1>6, <2>1
  <1>13. Cuts(z, c1, o1, v + 1)
    BY <1>1, <1>5, <1>10, <1>11, <1>12 DEF Cuts
  <1>14. Grown(z, c, o, v, z, c1, o1)
    <2>1. Len(z) <= Len(z)
      BY <1>7, <1>3
    <2> QED BY <1>1, <1>6, <2>1 DEF Grown
  <1> QED BY <1>5, <1>13, <1>14, <1>3 DEF NextCut

\* An SDU of the list: its number, its size and where its next byte is.
SduHas(z, j, C, x, size, b) ==
    /\ input_sdus[j].size = size /\ input_sdus[j].remaining = b /\ Left[j] = b
    /\ b <= size /\ input_sdus[j].id = C + j - 1 /\ z[C + j - 1] = size
    /\ size - b = IF j = 1 THEN x ELSE 0

\* Its numbers.
LEMMA SduAt ==
    ASSUME SdusOK, NEW z, Listed(z, input_sdus), z \in Sizes, NEW j \in 1 .. Len(input_sdus),
           NEW C, C = IdAt(z, input_sdus), NEW x, x = OffAt(input_sdus)
    PROVE  \E size, b \in Nat : SduHas(z, j, C, x, size, b)
  <1>1. PICK l, n, size, b : /\ l = Len(z) /\ n = Len(input_sdus)
                             /\ size = input_sdus[j].size /\ b = input_sdus[j].remaining
    OBVIOUS
  <1>2. n \in Nat /\ l \in Nat /\ n <= l /\ j \in 1 .. n
    <2>1. n \in Nat
      BY <1>1, LeftIs
    <2>2. l \in Nat
      BY <1>1 DEF Sizes
    <2> QED BY <1>1, <2>1, <2>2 DEF Listed
  <1>3. C = l - n + 1 /\ C \in Nat
    BY <1>1, <1>2 DEF IdAt
  <1>4. size \in Nat /\ b \in Nat /\ b <= size /\ b = Left[j]
    BY <1>1, SduIs
  <1>5. input_sdus[j].id = l - n + j /\ size = z[input_sdus[j].id] /\ (j > 1 => b = size)
    BY <1>1, <1>2 DEF Listed
  <1>6. l - n + j = C + j - 1
    BY <1>2, <1>3
  <1>7. size - b = IF j = 1 THEN x ELSE 0
    <2>1. CASE j = 1
      <3>1. input_sdus # <<>>
        <4>1. input_sdus \in Seq(SduRecords) /\ n # 0
          BY <1>2 DEF SdusOK
        <4> QED BY <1>1, <4>1
      <3> QED BY <1>1, <2>1, <3>1 DEF OffAt
    <2>2. CASE j # 1
      BY <1>2, <1>4, <1>5, <2>2
    <2> QED BY <2>1, <2>2
  <1>8. SduHas(z, j, C, x, size, b)
    BY <1>1, <1>4, <1>5, <1>6, <1>7 DEF SduHas
  <1> QED BY <1>4, <1>8

\* The PDU that is sent carries the bytes between the last two cuts.
LEMMA NewPdu ==
    ASSUME SdusOK, NEW z, NEW c, NEW o, NEW v \in Nat, z \in Sizes, Listed(z, input_sdus),
           c[v] = IdAt(z, input_sdus), o[v] = OffAt(input_sdus),
           NEW i \in 1 .. Len(input_sdus), NEW w \in 1 .. Left[i], NEW s, CutAt(z, i, w, s),
           NEW c1, NEW o1, NextCut(z, c, o, v, s, c1, o1),
           NEW p, p \in GoodPdus, p.n = v, p.sn = v % SnModulo, Carries(p, i, w)
    PROVE  IsPdu(z, c1, o1, p, v)
  <1>1. PICK l, n, a, b, size, C, D, x, y : /\ Placed(z, s, i, w, l, n, a, b, size, C, D, x, y)
                                            /\ Spaced(z, i, w, l, n, a, b, size, C, D, x, y)
    BY PlaceOf
  <1>2. /\ C = IdAt(z, input_sdus) /\ D = IdAt(z, s) /\ x = OffAt(input_sdus) /\ y = OffAt(s)
        /\ b = Left[i] /\ size = input_sdus[i].size /\ b = input_sdus[i].remaining /\ n = Len(input_sdus)
    BY <1>1 DEF Placed
  <1>3. c1[v] = C /\ o1[v] = x /\ c1[v + 1] = D /\ o1[v + 1] = y
    <2>1. v \in 0 .. v
      OBVIOUS
    <2>2. c1[v] = c[v] /\ o1[v] = o[v]
      BY <2>1 DEF NextCut, Grown
    <2> QED BY <1>2, <2>2 DEF NextCut
  <1>4. /\ n \in Nat /\ a \in Nat /\ b \in Nat /\ size \in Nat
        /\ C \in Nat /\ D \in Nat /\ x \in Nat /\ y \in Nat /\ w \in Nat /\ i \in Nat
        /\ i >= 1 /\ i <= n /\ a = size - b /\ b <= size /\ w <= b /\ w >= 1
        /\ w = b => D = C + i /\ y = 0
        /\ w # b => D = C + i - 1 /\ y = w + a
        /\ i = 1 => a = x
        /\ i # 1 => a = 0
    BY <1>1 DEF Spaced
  <1>5. p.starts <=> x = 0
    <2>1. 1 \in 1 .. Len(input_sdus)
      BY <1>2, <1>4
    <2>2. PICK e, f \in Nat : SduHas(z, 1, C, x, e, f)
      BY <1>2, <2>1, SduAt
    <2>3. input_sdus[1].size = e /\ input_sdus[1].remaining = f /\ f <= e
      BY <2>2 DEF SduHas
    <2>4. e - f = x
      BY <2>2 DEF SduHas
    <2>5. f = e <=> x = 0
      BY <2>3, <2>4
    <2> QED BY <2>3, <2>5 DEF Carries
  <1>6. p.ends <=> y = 0
    <2>1. b = w <=> y = 0
      BY <1>4
    <2> QED BY <1>2, <2>1 DEF Carries
  <1>7. Count(c1, o1, v) = i
    <2>1. Count(c1, o1, v) = D - C + IF y = 0 THEN 0 ELSE 1
      BY <1>3 DEF Count
    <2>2. CASE w = b
      BY <1>4, <2>1, <2>2
    <2>3. CASE w # b
      <3>1. y # 0 /\ D - C + 1 = i
        BY <1>4, <2>3
      <3> QED BY <2>1, <3>1
    <2> QED BY <2>2, <2>3
  <1>8. ASSUME NEW j \in 1 .. i PROVE p.pieces[j] = PieceOf(z, c1, o1, v, j)
    <2>1. j \in 1 .. Len(input_sdus) /\ j \in Nat /\ j >= 1 /\ j <= i
      BY <1>2, <1>4
    <2>2. PICK e, f \in Nat : SduHas(z, j, C, x, e, f)
      BY <1>2, <2>1, SduAt
    <2>3. /\ input_sdus[j].size = e /\ input_sdus[j].remaining = f /\ Left[j] = f
          /\ f <= e /\ input_sdus[j].id = C + j - 1 /\ z[C + j - 1] = e
          /\ e - f = IF j = 1 THEN x ELSE 0
      BY <2>2 DEF SduHas
    <2>4. PICK k, g : k = C + j - 1 /\ g = e - f
      OBVIOUS
    <2>5. StartOf(o1, v, j) = g
      BY <1>3, <2>3, <2>4 DEF StartOf
    <2>6. EndOf(z, c1, o1, v, k) = IF k = D THEN y ELSE e
      BY <1>3, <2>3, <2>4 DEF EndOf
    <2>7. PieceOf(z, c1, o1, v, j) = SduBytes(k, g + 1, (IF k = D THEN y ELSE e) - g)
      BY <1>3, <2>4, <2>5, <2>6 DEF PieceOf
    <2>8. p.pieces[j] = SduBytes(k, g + 1, IF j = i THEN w ELSE f)
      BY <2>3, <2>4 DEF Carries, NextBytes
    <2>9. (IF k = D THEN y ELSE e) - g = IF j = i THEN w ELSE f
      <3>1. CASE j = i
        <4>1. e = size /\ f = b
          BY <1>2, <2>3, <3>1
        <4>2. g = a
          BY <1>4, <2>4, <4>1
        <4>3. CASE w = b
          <5>1. k # D /\ e - g = w
            BY <1>4, <2>1, <2>4, <3>1, <4>1, <4>2, <4>3
          <5> QED BY <3>1, <5>1
        <4>4. CASE w # b
          <5>1. k = D /\ y - g = w
            BY <1>4, <2>1, <2>4, <3>1, <4>2, <4>4
          <5> QED BY <3>1, <5>1
        <4> QED BY <4>3, <4>4
      <3>2. CASE j # i
        <4>1. k # D /\ e - g = f
          BY <1>4, <2>1, <2>3, <2>4, <3>2
        <4> QED BY <3>2, <4>1
      <3> QED BY <3>1, <3>2
    <2> QED BY <2>7, <2>8, <2>9
  <1>9. Len(p.pieces) = i
    BY DEF Carries
  <1> QED BY <1>3, <1>5, <1>6, <1>7, <1>8, <1>9 DEF IsPdu

\* The list and the stream after one more SDU.
OneMore(z, s, z1, s1) ==
    /\ z1 \in Sizes /\ Len(z1) = Len(z) + 1 /\ \A k \in 1 .. Len(z) : z1[k] = z[k]
    /\ Listed(z1, s1) /\ IdAt(z1, s1) = IdAt(z, s) /\ OffAt(s1) = OffAt(s)

\* rlc_um_data_req appends to both.
LEMMA ListGrows ==
    ASSUME NEW z, NEW s \in Seq(SduRecords), Listed(z, s), z \in Sizes, NEW e \in Nat \ {0},
           NEW new \in SduRecords, new.id = Len(z) + 1, new.size = e, new.remaining = e,
           NEW z1, z1 = Append(z, e), NEW s1, s1 = Append(s, new)
    PROVE  OneMore(z, s, z1, s1)
  <1>1. PICK S : S = Nat \ {0}
    OBVIOUS
  <1>2. z \in Seq(S) /\ e \in S
    BY <1>1 DEF Sizes
  <1>3. PICK l, n : l = Len(z) /\ n = Len(s)
    OBVIOUS
  <1>4. l \in Nat /\ n \in Nat /\ n <= l
    <2>1. l \in Nat
      BY <1>2, <1>3
    <2>2. n \in Nat
      BY <1>3
    <2> QED BY <1>3, <2>1, <2>2 DEF Listed
  <1>5. z1 \in Seq(S) /\ Len(z1) = l + 1 /\ z1[l + 1] = e /\ \A k \in 1 .. l : z1[k] = z[k]
    BY <1>2, <1>3, AppendIs
  <1>6. s1 \in Seq(SduRecords) /\ Len(s1) = n + 1 /\ s1[n + 1] = new /\ \A k \in 1 .. n : s1[k] = s[k]
    BY <1>3, AppendIs
  <1>7. \A k \in 1 .. n : /\ s[k].id = l - n + k /\ s[k].size = z[s[k].id]
                          /\ k > 1 => s[k].remaining = s[k].size
    BY <1>3 DEF Listed
  <1>8. ASSUME NEW k \in 1 .. n + 1
        PROVE  /\ s1[k].id = (l + 1) - (n + 1) + k /\ s1[k].size = z1[s1[k].id]
               /\ k > 1 => s1[k].remaining = s1[k].size
    <2>1. CASE k = n + 1
      <3>1. (l + 1) - (n + 1) + k = l + 1
        BY <1>4, <2>1
      <3>2. s1[k] = new /\ new.id = l + 1
        BY <1>3, <1>6, <2>1
      <3> QED BY <1>5, <3>1, <3>2
    <2>2. CASE k # n + 1
      <3>1. k \in 1 .. n /\ (l + 1) - (n + 1) + k = l - n + k /\ l - n + k \in 1 .. l
        BY <1>4, <2>2
      <3>2. z1[l - n + k] = z[l - n + k]
        BY <1>5, <3>1
      <3> QED BY <1>6, <1>7, <3>1, <3>2
    <2> QED BY <2>1, <2>2
  <1>9. Listed(z1, s1)
    <2>1. n + 1 <= l + 1
      BY <1>4
    <2> QED BY <1>5, <1>6, <1>8, <2>1 DEF Listed
  <1>10. IdAt(z1, s1) = IdAt(z, s)
    <2>1. l + 1 - (n + 1) + 1 = l - n + 1
      BY <1>4
    <2> QED BY <1>3, <1>5, <1>6, <2>1 DEF IdAt
  <1>11. OffAt(s1) = OffAt(s)
    <2>1. s1 # <<>>
      BY <1>4, <1>6
    <2>2. CASE s = <<>>
      <3>1. n = 0
        BY <1>3, <2>2
      <3>2. s1[1] = new
        BY <1>6, <3>1
      <3>3. OffAt(s1) = e - e
        BY <2>1, <3>2 DEF OffAt
      <3>4. e - e = 0
        OBVIOUS
      <3> QED BY <2>2, <3>3, <3>4 DEF OffAt
    <2>3. CASE s # <<>>
      <3>1. 1 \in 1 .. n
        BY <1>3, <1>4, <2>3
      <3> QED BY <1>6, <2>1, <2>3, <3>1 DEF OffAt
    <2> QED BY <2>2, <2>3
  <1>12. z1 \in Sizes
    BY <1>1, <1>5 DEF Sizes
  <1> QED BY <1>3, <1>5, <1>9, <1>10, <1>11, <1>12 DEF OneMore

-----------------------------------------------------------------------------
(* The bearer. *)

\* What was handed over and sent: the list of SDUs s, the cuts up to PDU v, the PDUs a in the air.
Sent(z, s, c, o, v, a) ==
    /\ Listed(z, s) /\ Cuts(z, c, o, v) /\ c[v] = IdAt(z, s) /\ o[v] = OffAt(s)
    /\ \A m \in a : v <= m.n + Window /\ IsPdu(z, c, o, m, m.n)
\* PDU U has not arrived, and no PDU after it is lost.
NoGap(a, r, U, v) ==
    /\ r.dar[U % SnModulo] = NoPdu
    /\ \A k \in U .. v - 1 : (\E m \in a : m.n = k) \/ r.dar[k % SnModulo] # NoPdu
\* What arrived and came out.
Arrived(z, c, o, v, a, del, r, H, lost) ==
    \E U \in Nat : RxAt(z, c, o, del, r, U, H, ~lost) /\ (~lost => NoGap(a, r, U, v))
Stream(z, s, v, a, del, r, H, lost) ==
    \E c, o : Sent(z, s, c, o, v, a) /\ Arrived(z, c, o, v, a, del, r, H, lost)
StreamInv == Stream(sdu_sizes, input_sdus, vt_us, air, delivered, rx, seen, lossy)

\* The invariant of the next state.
LEMMA StreamNext ==
    ASSUME Stream(sdu_sizes', input_sdus', vt_us', air', delivered', rx', seen', lossy')
    PROVE  StreamInv'
  BY DEF StreamInv, Stream, Sent, Arrived, NoGap, Listed, Cuts, Sizes, IdAt, OffAt, IsPdu, GoodPdus,
         Pdus, Sns, Count, PieceOf, SduBytes, StartOf, EndOf, RxAt, RxRecords, Window, Held, At,
         Building, Succ, Done, Byte, Whole, IdOf

\* One more SDU.
LEMMA StreamDataReq ==
    ASSUME UmInv, StreamInv, NEW size \in UmSduSizes, UpperDataReq(size)
    PROVE  StreamInv'
  <1>1. PICK c, o : /\ Sent(sdu_sizes, input_sdus, c, o, vt_us, air)
                    /\ Arrived(sdu_sizes, c, o, vt_us, air, delivered, rx, seen, lossy)
    BY DEF StreamInv, Stream
  <1>2. PICK new : new = [id |-> Len(sdu_sizes) + 1, size |-> size, remaining |-> size]
    OBVIOUS
  <1>3. PICK z, s, v, a, z1, s1 : /\ z = sdu_sizes /\ s = input_sdus /\ v = vt_us /\ a = air
                                  /\ z1 = Append(z, size) /\ s1 = Append(s, new)
    OBVIOUS
  <1>4. /\ sdu_sizes' = z1 /\ input_sdus' = s1 /\ vt_us' = v /\ air' = a
        /\ UNCHANGED <<delivered, rx, seen, lossy>>
    BY <1>2, <1>3 DEF UpperDataReq, UmDataReq
  <1>5. /\ s \in Seq(SduRecords) /\ v \in Nat /\ size \in Nat \ {0} /\ size \in Nat
        /\ seen \in Nat /\ seen <= v
    BY <1>3, UmTxAssumption DEF UmInv, SegmentInv, SduInv, SdusOK, LinkInv, AirOK
  <1>6. Listed(z, s) /\ Cuts(z, c, o, v) /\ c[v] = IdAt(z, s) /\ o[v] = OffAt(s) /\ z \in Sizes
    BY <1>1, <1>3 DEF Sent, Cuts
  <1>7. new \in SduRecords /\ new.id = Len(z) + 1 /\ new.size = size /\ new.remaining = size
    <2>1. Len(z) + 1 \in Nat
      BY <1>6 DEF Sizes
    <2> QED BY <1>2, <1>3, <1>5, <2>1 DEF SduRecords
  <1>8. /\ z1 \in Sizes /\ Len(z1) = Len(z) + 1 /\ \A k \in 1 .. Len(z) : z1[k] = z[k]
        /\ Listed(z1, s1) /\ IdAt(z1, s1) = IdAt(z, s) /\ OffAt(s1) = OffAt(s)
    <2>1. OneMore(z, s, z1, s1)
      BY <1>3, <1>5, <1>6, <1>7, ListGrows
    <2> QED BY <2>1 DEF OneMore
  <1>9. Len(z) \in Nat
    BY <1>6 DEF Sizes
  <1>10. Grown(z, c, o, v, z1, c, o)
    BY <1>8, <1>9 DEF Grown
  <1>11. Cuts(z1, c, o, v)
    <2>1. ASSUME NEW n \in 0 .. v
          PROVE  c[n] \in 1 .. Len(z1) + 1 /\ (o[n] > 0 => c[n] <= Len(z1) /\ o[n] < z1[c[n]])
      <3>1. c[n] \in 1 .. Len(z) + 1 /\ (o[n] > 0 => c[n] <= Len(z) /\ o[n] < z[c[n]])
        BY <1>6 DEF Cuts
      <3>2. PICK k, l : k = c[n] /\ l = Len(z)
        OBVIOUS
      <3>3. l \in Nat /\ k \in 1 .. l + 1 /\ Len(z1) = l + 1 /\ k \in Nat
        BY <1>8, <1>9, <3>1, <3>2
      <3>4. k \in 1 .. (l + 1) + 1 /\ (k <= l => k <= l + 1 /\ k \in 1 .. l)
        BY <3>3
      <3>5. o[n] > 0 => k <= l /\ o[n] < z[k]
        BY <3>1, <3>2
      <3>6. k <= l => z1[k] = z[k]
        BY <1>8, <3>2, <3>4
      <3> QED BY <3>2, <3>3, <3>4, <3>5, <3>6
    <2> QED BY <1>6, <1>8, <2>1 DEF Cuts
  <1>12. ASSUME NEW m \in a PROVE v <= m.n + Window /\ IsPdu(z1, c, o, m, m.n)
    <2>1. v <= m.n + Window /\ IsPdu(z, c, o, m, m.n)
      BY <1>1, <1>3 DEF Sent
    <2>2. m.n \in Nat /\ m.n < v
      BY <1>3 DEF UmInv, LinkInv, AirOK, GoodPdus, Pdus
    <2>3. m.n \in 0 .. v - 1
      BY <1>5, <2>2
    <2> QED BY <1>5, <1>6, <1>10, <2>1, <2>3, PduKept
  <1>13. Sent(z1, s1, c, o, v, a)
    BY <1>6, <1>8, <1>11, <1>12 DEF Sent
  <1>14. Arrived(z1, c, o, v, a, delivered, rx, seen, lossy)
    <2>1. PICK U \in Nat : /\ RxAt(z, c, o, delivered, rx, U, seen, ~lossy)
                           /\ ~lossy => NoGap(a, rx, U, v)
      BY <1>1, <1>3 DEF Arrived
    <2>2. RxAt(z1, c, o, delivered, rx, U, seen, ~lossy)
      BY <1>5, <1>6, <1>10, <2>1, RxKept
    <2> QED BY <2>1, <2>2 DEF Arrived
  <1> QED BY <1>4, <1>13, <1>14, StreamNext DEF Stream

\* One more PDU.
LEMMA StreamGrant ==
    ASSUME ShortSn, UmInv, StreamInv, NEW grant \in UmGrants, MacGrant(grant)
    PROVE  StreamInv'
  <1>1. PICK c, o : /\ Sent(sdu_sizes, input_sdus, c, o, vt_us, air)
                    /\ Arrived(sdu_sizes, c, o, vt_us, air, delivered, rx, seen, lossy)
    BY DEF StreamInv, Stream
  <1>2. UmSegment(grant) /\ WithinWindow /\ UNCHANGED <<rx, delivered, seen, lossy>>
    BY DEF MacGrant
  <1>3. /\ SduInv /\ SdusOK /\ vt_us \in Nat /\ seen \in Nat /\ seen <= vt_us
        /\ \A m \in air : m.n \in Nat /\ m.n < vt_us
    BY DEF UmInv, SegmentInv, SduInv, LinkInv, AirOK, GoodPdus, Pdus
  <1>4. PICK p \in GoodPdus :
           /\ p.n = vt_us /\ p.sn = vt_us % SnModulo /\ air' = air \cup {p}
           /\ \E i \in 1 .. Len(input_sdus) : \E w \in 1 .. Left[i] :
                 /\ ShortSn => Carries(p, i, w)
                 /\ input_sdus' = IF Left[i] = w THEN AfterFill(i, 0) ELSE AfterFill(i - 1, w)
    BY <1>2, <1>3, SegmentSdus
  <1>5. PICK i \in 1 .. Len(input_sdus) : \E w \in 1 .. Left[i] :
                 /\ ShortSn => Carries(p, i, w)
                 /\ input_sdus' = IF Left[i] = w THEN AfterFill(i, 0) ELSE AfterFill(i - 1, w)
    BY <1>4
  <1>6. PICK w \in 1 .. Left[i] :
                 /\ ShortSn => Carries(p, i, w)
                 /\ input_sdus' = IF Left[i] = w THEN AfterFill(i, 0) ELSE AfterFill(i - 1, w)
    BY <1>5
  <1>7. PICK z, v, a, s1 : z = sdu_sizes /\ v = vt_us /\ a = air /\ s1 = input_sdus'
    OBVIOUS
  <1>8. PICK c1, o1 : c1 = Put(c, v + 1, IdAt(z, s1)) /\ o1 = Put(o, v + 1, OffAt(s1))
    OBVIOUS
  <1>9. /\ Listed(z, input_sdus) /\ Cuts(z, c, o, v) /\ c[v] = IdAt(z, input_sdus)
        /\ o[v] = OffAt(input_sdus) /\ z \in Sizes /\ v \in Nat
    BY <1>1, <1>3, <1>7 DEF Sent, Cuts
  <1>10. CutAt(z, i, w, s1)
    BY <1>3, <1>6, <1>7, <1>9, ListAfter
  <1>11. NextCut(z, c, o, v, s1, c1, o1)
    BY <1>3, <1>8, <1>9, <1>10, CutIs
  <1>12. IsPdu(z, c1, o1, p, v)
    <2>1. Carries(p, i, w) /\ p.n = v /\ p.sn = v % SnModulo
      BY <1>4, <1>6, <1>7
    <2> QED BY <1>3, <1>9, <1>10, <1>11, <2>1, NewPdu
  <1>13. sdu_sizes' = z /\ vt_us' = v + 1 /\ air' = a \cup {p} /\ p.n = v
    BY <1>2, <1>3, <1>4, <1>7, SegmentSdus DEF UmSegment
  <1>14. Grown(z, c, o, v, z, c1, o1) /\ Cuts(z, c1, o1, v + 1)
    BY <1>11 DEF NextCut
  <1>15. ASSUME NEW m \in a \cup {p} PROVE v + 1 <= m.n + Window /\ IsPdu(z, c1, o1, m, m.n)
    <2>1. Window \in Nat \ {0}
      BY Modulus
    <2>2. CASE m = p
      BY <1>9, <1>12, <1>13, <2>1, <2>2
    <2>3. CASE m \in a
      <3>1. m.n \in Nat /\ m.n < v /\ v < m.n + Window
        BY <1>2, <1>3, <1>7, <2>3 DEF WithinWindow
      <3>2. m.n \in 0 .. v - 1 /\ v + 1 <= m.n + Window
        BY <1>9, <2>1, <3>1
      <3>3. IsPdu(z, c, o, m, m.n)
        BY <1>1, <1>7, <2>3 DEF Sent
      <3>4. IsPdu(z, c1, o1, m, m.n)
        BY <1>9, <1>14, <3>2, <3>3, PduKept
      <3> QED BY <3>2, <3>4
    <2> QED BY <2>2, <2>3
  <1>16. Sent(z, s1, c1, o1, v + 1, a \cup {p})
    <2>1. Listed(z, s1)
      BY <1>10 DEF CutAt
    <2> QED BY <1>11, <1>15, <2>1 DEF Sent, NextCut
  <1>17. Arrived(z, c1, o1, v + 1, a \cup {p}, delivered, rx, seen, lossy)
    <2>1. PICK U \in Nat : /\ RxAt(z, c, o, delivered, rx, U, seen, ~lossy)
                           /\ ~lossy => NoGap(a, rx, U, v)
      BY <1>1, <1>7 DEF Arrived
    <2>2. RxAt(z, c1, o1, delivered, rx, U, seen, ~lossy)
      BY <1>3, <1>7, <1>9, <1>14, <2>1, RxKept
    <2>3. ASSUME ~lossy PROVE NoGap(a \cup {p}, rx, U, v + 1)
      <3>1. NoGap(a, rx, U, v)
        BY <2>1, <2>3
      <3>2. ASSUME NEW k \in U .. (v + 1) - 1
            PROVE  (\E m \in a \cup {p} : m.n = k) \/ rx.dar[k % SnModulo] # NoPdu
        <4>1. CASE k = v
          BY <1>13, <4>1
        <4>2. CASE k # v
          <5>1. k \in U .. v - 1
            BY <1>9, <4>2
          <5> QED BY <3>1, <5>1 DEF NoGap
        <4> QED BY <4>1, <4>2
      <3> QED BY <3>1, <3>2 DEF NoGap
    <2> QED BY <2>1, <2>2, <2>3 DEF Arrived
  <1>18. Stream(z, s1, v + 1, a \cup {p}, delivered, rx, seen, lossy)
    BY <1>16, <1>17 DEF Stream
  <1> QED BY <1>2, <1>7, <1>13, <1>18, StreamNext

\* What comes out comes after what came out before.
Extended == \E x \in Seq(Seq(Byte)) : delivered' = delivered \o x

\* The end of a handler, in the stream.
LEMMA HandledStream ==
    ASSUME NEW z, NEW c, NEW o, NEW t, NEW V, NEW K, NEW full, RxAt(z, c, o, delivered, t, V, K, full),
           Handled(t), delivered \in Seq(Seq(Byte))
    PROVE  RxAt(z, c, o, delivered', rx', V, K, full) /\ rx'.dar = t.dar /\ Extended
  <1>1. PICK d, r : d = delivered \o t.out /\ r = [t EXCEPT !.out = <<>>]
    OBVIOUS
  <1>2. delivered' = d /\ rx' = r
    BY <1>1 DEF Handled
  <1>3. RxAt(z, c, o, d, r, V, K, full) /\ r.dar = t.dar
    BY <1>1, HandledAt
  <1>4. t.out \in Seq(Seq(Byte))
    <2>1. t \in RxRecords
      BY DEF RxAt
    <2> QED BY <2>1, RxFields
  <1>5. Extended
    BY <1>1, <1>2, <1>4 DEF Extended
  <1> QED BY <1>2, <1>3, <1>5

\* Nothing is known to have been there.
LEMMA RxLess ==
    ASSUME NEW z, NEW c, NEW o, NEW del, NEW r, NEW U, NEW H, NEW full, RxAt(z, c, o, del, r, U, H, full),
           NEW all, all => full
    PROVE  RxAt(z, c, o, del, r, U, H, all)
  <1>1. At(z, c, o, del, r, U, all)
    BY AtLess DEF RxAt
  <1> QED BY <1>1 DEF RxAt

\* A PDU is lost.
LEMMA StreamLose ==
    ASSUME StreamInv, NEW m \in air, Lose(m)
    PROVE  StreamInv'
  <1>1. PICK c, o : /\ Sent(sdu_sizes, input_sdus, c, o, vt_us, air)
                    /\ Arrived(sdu_sizes, c, o, vt_us, air, delivered, rx, seen, lossy)
    BY DEF StreamInv, Stream
  <1>2. /\ air' = air \ {m} /\ lossy' = TRUE
        /\ UNCHANGED <<sdu_sizes, input_sdus, vt_us, delivered, rx, seen>>
    BY DEF Lose
  <1>3. Sent(sdu_sizes, input_sdus, c, o, vt_us, air')
    BY <1>1, <1>2 DEF Sent
  <1>4. Arrived(sdu_sizes, c, o, vt_us, air', delivered, rx, seen, lossy')
    <2>1. PICK U \in Nat : RxAt(sdu_sizes, c, o, delivered, rx, U, seen, ~lossy)
      BY <1>1 DEF Arrived
    <2>2. RxAt(sdu_sizes, c, o, delivered, rx, U, seen, ~lossy')
      BY <1>2, <2>1, RxLess
    <2> QED BY <1>2, <2>2 DEF Arrived
  <1>5. Stream(sdu_sizes, input_sdus, vt_us, air', delivered, rx, seen, lossy')
    BY <1>3, <1>4 DEF Stream
  <1> QED BY <1>2, <1>5, StreamNext

\* t-Reordering expires.
LEMMA StreamExpires ==
    ASSUME UmInv, StreamInv, ReorderingExpires
    PROVE  StreamInv' /\ Extended
  <1>1. PICK c, o : /\ Sent(sdu_sizes, input_sdus, c, o, vt_us, air)
                    /\ Arrived(sdu_sizes, c, o, vt_us, air, delivered, rx, seen, lossy)
    BY DEF StreamInv, Stream
  <1>2. PICK t : t = TimerDarTimeOut(rx)
    OBVIOUS
  <1>3. /\ rx.running /\ Handled(t) /\ lossy' = TRUE
        /\ UNCHANGED <<sdu_sizes, input_sdus, vt_us, air, seen>>
    BY <1>2 DEF ReorderingExpires, umTxVars
  <1>4. vt_us \in Nat /\ seen <= vt_us /\ delivered \in Seq(Seq(Byte)) /\ TimerOK(rx)
    BY DEF UmInv, LinkInv, AirOK, RxOK, OutOK
  <1>5. PICK U \in Nat : RxAt(sdu_sizes, c, o, delivered, rx, U, seen, ~lossy)
    BY <1>1 DEF Arrived
  <1>6. Cuts(sdu_sizes, c, o, vt_us)
    BY <1>1 DEF Sent
  <1>7. TimedOut(sdu_sizes, c, o, delivered, rx, U, seen, t)
    BY <1>2, <1>3, <1>4, <1>5, <1>6, TimeOutTo
  <1>8. PICK V \in U .. seen : RxAt(sdu_sizes, c, o, delivered, t, V, seen, FALSE)
    BY <1>7 DEF TimedOut
  <1>9. RxAt(sdu_sizes, c, o, delivered', rx', V, seen, FALSE) /\ Extended
    BY <1>3, <1>4, <1>8, HandledStream
  <1>10. RxAt(sdu_sizes, c, o, delivered', rx', V, seen, ~lossy')
    BY <1>3, <1>9, RxLess
  <1>11. V \in Nat
    BY <1>9 DEF RxAt
  <1>12. Arrived(sdu_sizes, c, o, vt_us, air, delivered', rx', seen, lossy')
    BY <1>3, <1>10, <1>11 DEF Arrived
  <1>13. Stream(sdu_sizes, input_sdus, vt_us, air, delivered', rx', seen, lossy')
    BY <1>1, <1>12 DEF Stream
  <1> QED BY <1>3, <1>9, <1>13, StreamNext

\* Where a PDU that arrives is in the window, when nothing was lost.
LEMMA NoGapPlace ==
    ASSUME UmInv, NEW m \in air, InOrder(m),
           \A p \in air : vt_us <= p.n + Window,
           NEW U \in Nat, U <= seen, seen <= U + rx.win, NoGap(air, rx, U, vt_us)
    PROVE  m.n < U + Window /\ (rx.win = 0 => m.n = U)
  <1>1. PICK v, H, n, W : v = vt_us /\ H = seen /\ n = m.n /\ W = Window
    OBVIOUS
  <1>2. v \in Nat /\ H \in Nat /\ n \in Nat /\ n < v /\ W \in Nat \ {0}
    BY <1>1, Modulus DEF UmInv, LinkInv, AirOK, GoodPdus, Pdus
  <1>3. ASSUME U < v PROVE \E p \in air : p.n = U
    <2>1. U \in U .. v - 1
      BY <1>2, <1>3
    <2> QED BY <1>1, <2>1 DEF NoGap
  <1>4. n < U + W
    <2>1. CASE U < v
      <3>1. v <= U + W
        BY <1>1, <1>3, <2>1
      <3> QED BY <1>2, <3>1
    <2>2. CASE ~(U < v)
      BY <1>2, <2>2
    <2> QED BY <2>1, <2>2
  <1>5. ASSUME rx.win = 0 PROVE n = U
    <2>1. U = H
      BY <1>1, <1>2, <1>5
    <2>2. H <= n
      BY <1>1, <1>5 DEF UmInv, LinkInv, OrderOK
    <2>3. U < v
      BY <1>2, <2>1, <2>2
    <2>4. n <= U
      BY <1>1, <1>3, <1>5, <2>3 DEF InOrder
    <2> QED BY <1>2, <2>1, <2>2, <2>4
  <1> QED BY <1>1, <1>4, <1>5

\* A PDU arrives.
LEMMA StreamArrive ==
    ASSUME UmInv, StreamInv, NEW m \in air, NEW stays \in BOOLEAN, Arrive(m, stays)
    PROVE  StreamInv' /\ Extended
  <1>1. PICK c, o : /\ Sent(sdu_sizes, input_sdus, c, o, vt_us, air)
                    /\ Arrived(sdu_sizes, c, o, vt_us, air, delivered, rx, seen, lossy)
    BY DEF StreamInv, Stream
  <1>2. PICK t, z, v, H, n, W, K, all : /\ t = ReceiveProcessDar(rx, m) /\ z = sdu_sizes /\ v = vt_us
                                        /\ H = seen /\ n = m.n /\ W = Window /\ K = TopAfter(H, n)
                                        /\ all = ~lossy
    OBVIOUS
  <1>3. /\ InOrder(m) /\ Handled(t) /\ (air' = air \/ air' = air \ {m})
        /\ UNCHANGED <<sdu_sizes, input_sdus, vt_us, lossy>>
    BY <1>2 DEF Arrive
  <1>4. /\ v \in Nat /\ H \in Nat /\ n \in Nat /\ n < v /\ W \in Nat \ {0} /\ H <= v /\ v <= H + W
        /\ delivered \in Seq(Seq(Byte))
    BY <1>2, Modulus DEF UmInv, LinkInv, AirOK, GoodPdus, Pdus, OutOK
  <1>5. seen' = K
    <2>1. seen' = IF H >= n + 1 THEN H ELSE n + 1
      <3>1. n + 1 \in Int /\ H \in Int
        BY <1>4
      <3>2. seen' = Max({H, n + 1})
        BY <1>2 DEF Arrive
      <3> QED BY <3>1, <3>2, MaxOfTwo
    <2> QED BY <1>2, <1>4, <2>1 DEF TopAfter
  <1>6. /\ Cuts(z, c, o, v) /\ v <= n + W /\ IsPdu(z, c, o, m, n)
        /\ \A p \in air : vt_us <= p.n + Window
    BY <1>1, <1>2 DEF Sent
  <1>7. PICK U \in Nat : RxAt(z, c, o, delivered, rx, U, H, all) /\ (all => NoGap(air, rx, U, v))
    BY <1>1, <1>2 DEF Arrived
  <1>8. U <= H /\ H <= U + rx.win /\ Held(z, c, o, rx, U, H)
    BY <1>7 DEF RxAt
  <1>9. rx.win = 0 => U <= n
    <2>1. rx.win = 0 => H <= n
      BY <1>2 DEF UmInv, LinkInv, OrderOK
    <2> QED BY <1>4, <1>8, <2>1
  <1>10. all => rx.dar[U % SnModulo] = NoPdu /\ n < U + Window /\ (rx.win = 0 => n = U)
    <2> SUFFICES ASSUME all PROVE rx.dar[U % SnModulo] = NoPdu /\ n < U + Window /\ (rx.win = 0 => n = U)
      OBVIOUS
    <2>1. NoGap(air, rx, U, vt_us) /\ U <= seen /\ seen <= U + rx.win
      BY <1>2, <1>7, <1>8
    <2>2. m.n < U + Window /\ (rx.win = 0 => m.n = U)
      BY <1>3, <1>6, <2>1, NoGapPlace
    <2> QED BY <1>2, <2>1, <2>2 DEF NoGap
  <1>11. H <= n + Window /\ n < H + Window
    BY <1>2, <1>4, <1>6
  <1>12. PICK V \in U .. K : Received(z, c, o, delivered, rx, n, V, K, all, t)
    <2>1. \E V \in U .. TopAfter(H, n) :
              Received(z, c, o, delivered, rx, n, V, TopAfter(H, n), all, ReceiveProcessDar(rx, m))
      BY <1>4, <1>6, <1>7, <1>9, <1>10, <1>11, ReceiveTo
    <2> QED BY <1>2, <2>1
  <1>13. /\ RxAt(z, c, o, delivered, t, V, K, all) /\ (all => t.dar[V % SnModulo] = NoPdu)
         /\ \A j \in V .. K - 1 : (j = n \/ rx.dar[j % SnModulo] # NoPdu) => t.dar[j % SnModulo] # NoPdu
    BY <1>12 DEF Received
  <1>14. RxAt(z, c, o, delivered', rx', V, K, all) /\ rx'.dar = t.dar /\ Extended
    BY <1>3, <1>4, <1>13, HandledStream
  <1>15. V \in Nat /\ K \in Nat /\ H <= K /\ n < K
    BY <1>2, <1>4, <1>14 DEF RxAt, TopAfter
  <1>16. ASSUME all PROVE NoGap(air', rx', V, v)
    <2>1. rx'.dar[V % SnModulo] = NoPdu
      BY <1>13, <1>14, <1>16
    <2>2. ASSUME NEW k \in V .. v - 1
          PROVE  (\E p \in air' : p.n = k) \/ rx'.dar[k % SnModulo] # NoPdu
      <3>1. k \in Nat /\ V <= k /\ k < v /\ U <= k
        BY <1>4, <1>12, <1>15
      <3>2. k \in U .. v - 1
        BY <1>4, <3>1
      <3>3. (\E p \in air : p.n = k) \/ rx.dar[k % SnModulo] # NoPdu
        BY <1>7, <1>16, <3>2 DEF NoGap
      <3>4. CASE k = n
        <4>1. k \in V .. K - 1
          BY <1>15, <3>1, <3>4
        <4> QED BY <1>13, <1>14, <3>4, <4>1
      <3>5. CASE rx.dar[k % SnModulo] # NoPdu
        <4>1. /\ rx.win \in Nat /\ rx.win <= W /\ SnModulo = W + W
          <5>1. rx \in RxRecords
            BY <1>7 DEF RxAt
          <5> QED BY <1>2, <1>4, <5>1, WindowSize
        <4>2. k \in U .. U + SnModulo - 1 /\ H <= U + SnModulo
          BY <1>4, <1>8, <3>1, <4>1
        <4>3. k >= H => rx.dar[k % SnModulo] = NoPdu
          <5>1. U \in Nat /\ H \in Nat /\ H <= U + SnModulo /\ Held(z, c, o, rx, U, H)
            BY <1>4, <1>8, <4>2
          <5> QED BY <4>2, <5>1, SlotIs
        <4>4. k \in V .. K - 1
          BY <1>4, <1>15, <3>1, <3>5, <4>3
        <4> QED BY <1>13, <1>14, <3>5, <4>4
      <3>6. CASE k # n /\ \E p \in air : p.n = k
        BY <1>2, <1>3, <3>6
      <3> QED BY <3>3, <3>4, <3>5, <3>6
    <2> QED BY <2>1, <2>2 DEF NoGap
  <1>17. Arrived(z, c, o, v, air', delivered', rx', K, lossy)
    BY <1>2, <1>14, <1>15, <1>16 DEF Arrived
  <1>18. Sent(z, input_sdus, c, o, v, air')
    <2>1. \A p \in air' : p \in air
      BY <1>3
    <2> QED BY <1>1, <1>2, <2>1 DEF Sent
  <1>19. Stream(z, input_sdus, v, air', delivered', rx', K, lossy)
    BY <1>17, <1>18 DEF Stream
  <1> QED BY <1>2, <1>3, <1>5, <1>14, <1>19, StreamNext

\* Nothing was handed over at first.
LEMMA StreamInit == ASSUME UmInit PROVE StreamInv
  <1>1. /\ vt_us = 0 /\ seen = 0 /\ air = {} /\ delivered = <<>> /\ lossy = FALSE
        /\ sdu_sizes = <<>> /\ input_sdus = <<>>
    BY DEF UmInit, UmTxInit, UmRxInit
  <1>2. /\ rx.ur = 0 /\ rx.uh = 0 /\ rx.dar = [sn \in Sns |-> NoPdu] /\ rx.missing = FALSE
        /\ rx.sdu = <<>> /\ rx.last = SnModulo - 1 /\ rx.out = <<>>
    BY DEF UmInit, UmRxInit
  <1>3. rx \in RxRecords /\ rx.win \in Nat
    <2>1. rx \in RxRecords
      BY UmInvInit DEF UmInv, LinkInv, RxOK
    <2> QED BY <2>1, WindowSize
  <1>4. PICK none, z, del, c, o : /\ none = 0 /\ z = <<>> /\ del = <<>>
                                  /\ c = [n \in Nat |-> 1] /\ o = [n \in Nat |-> 0]
    OBVIOUS
  <1>5. /\ c \in [Nat -> Nat] /\ o \in [Nat -> Nat] /\ \A n \in Nat : c[n] = 1 /\ o[n] = 0
        /\ none \in Nat /\ none \in 0 .. none
    BY <1>4
  <1>6. z \in Sizes /\ Len(z) = 0 /\ del \in Seq(Seq(Byte)) /\ Len(del) = 0 /\ del \o del = del
    <2>1. <<>> \in Seq(Nat \ {0}) /\ Len(<<>>) = 0
      OBVIOUS
    <2>2. <<>> \in Seq(Seq(Byte)) /\ <<>> \o <<>> = <<>>
      OBVIOUS
    <2> QED BY <1>4, <2>1, <2>2 DEF Sizes
  <1>7. Cuts(z, c, o, none)
    <2>1. ASSUME NEW n \in 0 .. none
          PROVE  c[n] \in 1 .. Len(z) + 1 /\ (o[n] > 0 => c[n] <= Len(z) /\ o[n] < z[c[n]])
      <3>1. n \in Nat
        BY <1>5
      <3>2. c[n] = 1 /\ o[n] = 0
        BY <1>5, <3>1
      <3>3. 1 \in 1 .. Len(z) + 1 /\ ~(0 > 0)
        BY <1>6
      <3> QED BY <3>2, <3>3
    <2>2. 0 .. none - 1 = {}
      BY <1>4
    <2>3. c[0] = 1 /\ o[0] = 0
      BY <1>5
    <2> QED BY <1>5, <1>6, <2>1, <2>2, <2>3 DEF Cuts
  <1>8. Sent(z, z, c, o, none, {})
    <2>1. Listed(z, z)
      <3>1. 1 .. Len(z) = {} /\ Len(z) <= Len(z)
        BY <1>6
      <3> QED BY <3>1 DEF Listed
    <2>2. IdAt(z, z) = 1 /\ OffAt(z) = 0
      <3>1. 0 - 0 + 1 = 1
        OBVIOUS
      <3> QED BY <1>4, <1>6, <3>1 DEF IdAt, OffAt
    <2> QED BY <1>5, <1>7, <2>1, <2>2 DEF Sent
  <1>9. 0 % SnModulo = 0 /\ Succ(SnModulo - 1) = 0 /\ 0 \in Sns
    <2>1. SnModulo \in Nat \ {0} /\ 0 \in Sns /\ SnModulo - 1 \in Sns /\ (SnModulo - 1) + 1 = SnModulo
      BY Modulus
    <2>2. 0 % SnModulo = 0
      BY <2>1, SmallMod
    <2>3. Succ(SnModulo - 1) = 0
      BY <2>1, SuccIs
    <2> QED BY <2>1, <2>2, <2>3
  <1>10. \A sn \in Sns : rx.dar[sn] = NoPdu
    BY <1>2
  <1>11. At(z, c, o, del, rx, none, TRUE)
    <2>1. SduBytes(1, 1, 0) = <<>>
      <3>1. 1 \in Nat /\ 0 \in Nat
        OBVIOUS
      <3> QED BY <3>1, FirstBytesAre, Zenon
    <2>2. c[none] = 1 /\ o[none] = 0
      BY <1>5
    <2>3. Building(c, o, rx, none)
      BY <1>2, <2>1, <2>2 DEF Building
    <2>4. Done(z, del, 1, TRUE)
      <3>1. 1 .. Len(del) = {} /\ Len(del) = 1 - 1
        BY <1>6
      <3> QED BY <1>6, <3>1 DEF Done
    <2>5. del \o rx.out = del
      BY <1>2, <1>4, <1>6
    <2> QED BY <1>2, <1>4, <1>9, <2>2, <2>3, <2>4, <2>5 DEF At
  <1>12. RxAt(z, c, o, del, rx, none, none, TRUE)
    <2>1. Held(z, c, o, rx, none, none)
      BY <1>10 DEF Held
    <2>2. none <= none /\ none <= none + rx.win
      BY <1>3, <1>4
    <2>3. rx.ur = none % SnModulo /\ rx.uh = none % SnModulo
      BY <1>2, <1>4, <1>9
    <2> QED BY <1>3, <1>5, <1>11, <2>1, <2>2, <2>3 DEF RxAt
  <1>13. NoGap({}, rx, none, none)
    <2>1. none .. none - 1 = {}
      BY <1>4
    <2>2. rx.dar[none % SnModulo] = NoPdu
      BY <1>4, <1>9, <1>10
    <2> QED BY <2>1, <2>2 DEF NoGap
  <1>14. Arrived(z, c, o, none, {}, del, rx, none, FALSE)
    <2>1. RxAt(z, c, o, del, rx, none, none, ~FALSE)
      BY <1>12, RxLess
    <2> QED BY <1>5, <1>13, <2>1 DEF Arrived
  <1>15. Stream(z, z, none, {}, del, rx, none, FALSE)
    BY <1>8, <1>14 DEF Stream
  <1>16. sdu_sizes = z /\ input_sdus = z /\ delivered = del /\ vt_us = none /\ seen = none
    BY <1>1, <1>4
  <1> QED BY <1>1, <1>15, <1>16 DEF StreamInv

\* The steps of the bearer.
LEMMA StreamStep ==
    ASSUME ShortSn, UmInv, StreamInv, [UmNext]_umVars
    PROVE  StreamInv' /\ (delivered' = delivered \/ Extended)
  <1>1. ASSUME NEW size \in UmSduSizes, UpperDataReq(size) PROVE StreamInv' /\ delivered' = delivered
    <2>1. StreamInv'
      BY <1>1, StreamDataReq
    <2> QED BY <1>1, <2>1 DEF UpperDataReq
  <1>2. ASSUME NEW grant \in UmGrants, MacGrant(grant) PROVE StreamInv' /\ delivered' = delivered
    <2>1. StreamInv'
      BY <1>2, StreamGrant
    <2> QED BY <1>2, <2>1 DEF MacGrant
  <1>3. ASSUME NEW m \in air, Lose(m) PROVE StreamInv' /\ delivered' = delivered
    <2>1. StreamInv'
      BY <1>3, StreamLose
    <2> QED BY <1>3, <2>1 DEF Lose
  <1>4. ASSUME NEW m \in air, NEW stays \in BOOLEAN, Arrive(m, stays) PROVE StreamInv' /\ Extended
    BY <1>4, StreamArrive
  <1>5. ASSUME ReorderingExpires PROVE StreamInv' /\ Extended
    BY <1>5, StreamExpires
  <1>6. ASSUME UNCHANGED umVars PROVE StreamInv' /\ delivered' = delivered
    <2>1. UNCHANGED <<sdu_sizes, input_sdus, vt_us, air, delivered, rx, seen, lossy>>
      BY <1>6 DEF umVars, umTxVars
    <2>2. Stream(sdu_sizes', input_sdus', vt_us', air', delivered', rx', seen', lossy')
      BY <2>1 DEF StreamInv
    <2> QED BY <2>1, <2>2, StreamNext
  <1> QED BY <1>1, <1>2, <1>3, <1>4, <1>5, <1>6 DEF UmNext

-----------------------------------------------------------------------------
(* What comes out. *)

\* The bytes of a whole SDU name it.
LEMMA NumberOf ==
    ASSUME sdu_sizes \in Sizes, NEW k \in 1 .. Len(sdu_sizes)
    PROVE  SduNumber(Whole(sdu_sizes, k)) = k
  <1>1. DOMAIN sdu_sizes = 1 .. Len(sdu_sizes)
    BY DEF Sizes
  <1>2. PICK b, same : b = Whole(sdu_sizes, k) /\ same = {j \in DOMAIN sdu_sizes : b = Whole(sdu_sizes, j)}
    OBVIOUS
  <1>3. \A j \in DOMAIN sdu_sizes : IdOf(Whole(sdu_sizes, j)) = j
    BY <1>1, WholeIs
  <1>4. k \in same /\ \A j \in same : j = k
    BY <1>1, <1>2, <1>3
  <1>5. (CHOOSE j \in same : TRUE) = k
    BY <1>4
  <1>6. SduNumber(b) = IF same = {} THEN 0 ELSE CHOOSE j \in same : TRUE
    BY <1>2 DEF SduNumber, Whole
  <1> QED BY <1>2, <1>4, <1>5, <1>6

\* The numbers of SDUs.
Numbers(d) == [i \in 1 .. Len(d) |-> IdOf(d[i])]
OutIs ==
    /\ delivered \in Seq(Seq(Byte)) /\ sdu_sizes \in Sizes
    /\ [i \in DOMAIN delivered |-> SduNumber(delivered[i])] = Numbers(delivered)
    /\ \A i \in 1 .. Len(delivered) : IdOf(delivered[i]) \in 1 .. Len(sdu_sizes)
    /\ \A i, j \in 1 .. Len(delivered) : i < j => IdOf(delivered[i]) < IdOf(delivered[j])

\* What came out is whole.
LEMMA DoneIs ==
    ASSUME UmInv, NEW c, NEW o, NEW U, NEW full, Cuts(sdu_sizes, c, o, vt_us),
           RxAt(sdu_sizes, c, o, delivered, rx, U, seen, full)
    PROVE  Done(sdu_sizes, delivered, c[U], full) /\ c[U] \in 1 .. Len(sdu_sizes) + 1
  <1>1. Done(sdu_sizes, delivered \o rx.out, c[U], full) /\ U \in Nat /\ U <= seen
    BY DEF RxAt, At
  <1>2. delivered \in Seq(Seq(Byte)) /\ rx.out = <<>> /\ seen \in Nat /\ vt_us \in Nat /\ seen <= vt_us
    BY DEF UmInv, LinkInv, OutOK, RxOK, AirOK
  <1>3. delivered \o rx.out = delivered
    BY <1>2
  <1>4. U \in 0 .. vt_us
    BY <1>1, <1>2
  <1> QED BY <1>1, <1>3, <1>4 DEF Cuts

\* The numbers of what came out are those of its bytes.
LEMMA OutCorrect == ASSUME UmInv, StreamInv PROVE OutIs
  <1>1. PICK c, o : /\ Sent(sdu_sizes, input_sdus, c, o, vt_us, air)
                    /\ Arrived(sdu_sizes, c, o, vt_us, air, delivered, rx, seen, lossy)
    BY DEF StreamInv, Stream
  <1>2. PICK U \in Nat : RxAt(sdu_sizes, c, o, delivered, rx, U, seen, ~lossy)
    BY <1>1 DEF Arrived
  <1>3. Cuts(sdu_sizes, c, o, vt_us) /\ sdu_sizes \in Sizes
    BY <1>1 DEF Sent, Cuts
  <1>4. PICK top, full : top = c[U] /\ full = ~lossy
    OBVIOUS
  <1>5. Done(sdu_sizes, delivered, top, full) /\ top \in 1 .. Len(sdu_sizes) + 1
    BY <1>2, <1>3, <1>4, DoneIs
  <1>6. Len(sdu_sizes) \in Nat
    BY <1>3 DEF Sizes
  <1>7. delivered \in Seq(Seq(Byte)) /\ DOMAIN delivered = 1 .. Len(delivered)
    BY <1>5 DEF Done
  <1>8. ASSUME NEW i \in 1 .. Len(delivered)
        PROVE  IdOf(delivered[i]) \in 1 .. Len(sdu_sizes) /\ SduNumber(delivered[i]) = IdOf(delivered[i])
    <2>1. PICK k : k = IdOf(delivered[i])
      OBVIOUS
    <2>2. k \in 1 .. top - 1 /\ delivered[i] = Whole(sdu_sizes, k)
      BY <1>5, <2>1 DEF Done
    <2>3. k \in 1 .. Len(sdu_sizes)
      BY <1>5, <1>6, <2>2
    <2>4. SduNumber(Whole(sdu_sizes, k)) = k
      BY <1>3, <2>3, NumberOf
    <2> QED BY <2>1, <2>2, <2>3, <2>4
  <1>9. [i \in DOMAIN delivered |-> SduNumber(delivered[i])] = Numbers(delivered)
    BY <1>7, <1>8 DEF Numbers
  <1> QED BY <1>3, <1>5, <1>7, <1>8, <1>9 DEF OutIs, Done

\* Everything has come out once everything has arrived.
LEMMA NothingLost == ASSUME UmInv, StreamInv PROVE ReorderingLosesNothing
  <1> SUFFICES ASSUME ~lossy, air = {}, input_sdus = <<>>
               PROVE  [i \in DOMAIN delivered |-> SduNumber(delivered[i])] = [i \in DOMAIN sdu_sizes |-> i]
    BY DEF ReorderingLosesNothing
  <1>1. PICK c, o : /\ Sent(sdu_sizes, input_sdus, c, o, vt_us, air)
                    /\ Arrived(sdu_sizes, c, o, vt_us, air, delivered, rx, seen, lossy)
    BY DEF StreamInv, Stream
  <1>2. PICK U \in Nat : /\ RxAt(sdu_sizes, c, o, delivered, rx, U, seen, ~lossy)
                         /\ NoGap(air, rx, U, vt_us)
    BY <1>1 DEF Arrived
  <1>3. Cuts(sdu_sizes, c, o, vt_us) /\ sdu_sizes \in Sizes /\ c[vt_us] = IdAt(sdu_sizes, input_sdus)
    BY <1>1 DEF Sent, Cuts
  <1>4. U = vt_us
    <2>1. U <= seen /\ seen \in Nat /\ seen <= vt_us /\ vt_us \in Nat
      BY <1>2 DEF RxAt, UmInv, LinkInv, AirOK
    <2>2. ~(U < vt_us)
      <3> SUFFICES ASSUME U < vt_us PROVE FALSE
        OBVIOUS
      <3>1. U \in U .. vt_us - 1
        BY <2>1
      <3> QED BY <1>2, <3>1 DEF NoGap
    <2> QED BY <2>1, <2>2
  <1>5. PICK l, full : l = Len(sdu_sizes) /\ full = ~lossy
    OBVIOUS
  <1>6. l \in Nat /\ DOMAIN sdu_sizes = 1 .. l
    BY <1>3, <1>5 DEF Sizes
  <1>7. c[U] = l + 1
    <2>1. IdAt(sdu_sizes, <<>>) = l - 0 + 1
      <3>1. Len(<<>>) = 0
        OBVIOUS
      <3> QED BY <1>5, <3>1 DEF IdAt
    <2>2. l - 0 + 1 = l + 1
      BY <1>6
    <2> QED BY <1>3, <1>4, <2>1, <2>2
  <1>8. Done(sdu_sizes, delivered, l + 1, full) /\ full
    <2>1. Done(sdu_sizes, delivered, c[U], full)
      BY <1>2, <1>3, <1>5, DoneIs
    <2> QED BY <1>5, <1>7, <2>1
  <1>9. Len(delivered) = l /\ \A i \in 1 .. l : IdOf(delivered[i]) = i
    <2>1. (l + 1) - 1 = l
      BY <1>6
    <2> QED BY <1>8, <2>1 DEF Done
  <1>10. [i \in DOMAIN delivered |-> SduNumber(delivered[i])] = Numbers(delivered)
    BY OutCorrect DEF OutIs
  <1> QED BY <1>6, <1>9, <1>10 DEF Numbers

StreamAll == UmInv /\ StreamInv

(***************************************************************************)
(* With the 5-bit header, for every modulus, grants and sizes of the SDUs: *)
(* when MAC lost nothing and t-Reordering never expired, every SDU has     *)
(* come out once every PDU has arrived, whatever HARQ repeated or          *)
(* reordered.                                                              *)
(***************************************************************************)
THEOREM UmLosesNothing == ASSUME ShortSn PROVE UmSpec => []ReorderingLosesNothing
  <1>1. UmInit => StreamAll
    BY UmInvInit, StreamInit DEF StreamAll
  <1>2. StreamAll /\ [UmNext]_umVars => StreamAll'
    BY UmInvStep, StreamStep DEF StreamAll
  <1>3. StreamAll => ReorderingLosesNothing
    BY NothingLost DEF StreamAll
  <1> QED BY <1>1, <1>2, <1>3, PTL DEF UmSpec

\* One list of numbers starts with another one.
LEMMA NumbersExtend ==
    ASSUME NEW d \in Seq(Seq(Byte)), NEW x \in Seq(Seq(Byte)), NEW e, e = d \o x
    PROVE  UmService!IsPrefix(Numbers(d), Numbers(e))
  <1>1. PICK l, k : l = Len(d) /\ k = Len(e)
    OBVIOUS
  <1>2. /\ e \in Seq(Seq(Byte)) /\ l \in Nat /\ k \in Nat /\ l <= k
        /\ \A i \in 1 .. l : e[i] = d[i]
    <2>1. e \in Seq(Seq(Byte)) /\ Len(e) = Len(d) + Len(x)
          /\ \A i \in 1 .. Len(d) + Len(x) : e[i] = IF i <= Len(d) THEN d[i] ELSE x[i - Len(d)]
      BY ConcatProperties
    <2>2. l \in Nat /\ Len(x) \in Nat /\ k = l + Len(x)
      BY <1>1, <2>1
    <2>3. ASSUME NEW i \in 1 .. l PROVE e[i] = d[i]
      <3>1. i \in 1 .. Len(d) + Len(x) /\ i <= Len(d)
        BY <1>1, <2>2
      <3> QED BY <2>1, <3>1
    <2>4. k \in Nat /\ l <= k
      BY <2>2
    <2> QED BY <2>1, <2>2, <2>3, <2>4
  <1>3. PICK s, t : s = Numbers(d) /\ t = Numbers(e)
    OBVIOUS
  <1>4. /\ s = [i \in 1 .. l |-> IdOf(d[i])] /\ t = [i \in 1 .. k |-> IdOf(e[i])]
    BY <1>1, <1>3 DEF Numbers
  <1>5. Len(s) = l /\ Len(t) = k
    BY <1>2, <1>4
  <1>6. \A i \in 1 .. l : s[i] = t[i]
    <2>1. \A i \in 1 .. l : i \in 1 .. k
      BY <1>2
    <2> QED BY <1>2, <1>4, <2>1
  <1>7. SubSeq(s, 1, l) = SubSeq(t, 1, l)
    BY <1>2, <1>6
  <1> QED BY <1>2, <1>3, <1>5, <1>7 DEF UmService!IsPrefix

\* The numbers of what came out, in the next state.
LEMMA OutNext ==
    ASSUME OutIs'
    PROVE  /\ delivered' \in Seq(Seq(Byte))
           /\ [i \in DOMAIN delivered |-> SduNumber(delivered[i])]' = Numbers(delivered')
           /\ \A i \in 1 .. Len(delivered') : IdOf(delivered'[i]) \in 1 .. Len(sdu_sizes')
           /\ \A i, j \in 1 .. Len(delivered') : i < j => IdOf(delivered'[i]) < IdOf(delivered'[j])
  BY DEF OutIs, Numbers, IdOf, Byte

\* A step of the bearer is a step of the service.
LEMMA ServiceStep ==
    ASSUME ShortSn, StreamAll, OutIs, OutIs', [UmNext]_umVars
    PROVE  [UmService!UmServiceNext]_(UmService!umServiceVars)
  <1>1. PICK out, out1 : /\ out = [i \in DOMAIN delivered |-> SduNumber(delivered[i])]
                         /\ out1 = [i \in DOMAIN delivered |-> SduNumber(delivered[i])]'
    OBVIOUS
  <1>2. out = Numbers(delivered) /\ delivered \in Seq(Seq(Byte)) /\ sdu_sizes \in Sizes
    BY <1>1 DEF OutIs
  <1>3. /\ delivered' \in Seq(Seq(Byte)) /\ out1 = Numbers(delivered')
        /\ \A i \in 1 .. Len(delivered') : IdOf(delivered'[i]) \in 1 .. Len(sdu_sizes')
        /\ \A i, j \in 1 .. Len(delivered') : i < j => IdOf(delivered'[i]) < IdOf(delivered'[j])
    BY <1>1, OutNext
  <1>4. ASSUME NEW size \in UmSduSizes, UpperDataReq(size) PROVE UmService!AcceptSdu
    <2>1. sdu_sizes' = Append(sdu_sizes, size) /\ delivered' = delivered
      BY <1>4 DEF UpperDataReq, UmDataReq
    <2>2. Len(sdu_sizes') = Len(sdu_sizes) + 1
      BY <1>2, <2>1 DEF Sizes
    <2>3. out1 = out
      BY <1>2, <1>3, <2>1
    <2> QED BY <1>1, <2>2, <2>3 DEF UmService!AcceptSdu
  <1>5. ASSUME sdu_sizes' = sdu_sizes, delivered' = delivered PROVE UNCHANGED UmService!umServiceVars
    <2>1. out1 = out
      BY <1>2, <1>3, <1>5
    <2> QED BY <1>1, <1>5, <2>1 DEF UmService!umServiceVars
  <1>6. ASSUME sdu_sizes' = sdu_sizes, Extended PROVE UmService!DeliverSdus
    <2>1. PICK x \in Seq(Seq(Byte)) : delivered' = delivered \o x
      BY <1>6 DEF Extended
    <2>2. UmService!IsPrefix(out, out1)
      BY <1>2, <1>3, <2>1, NumbersExtend
    <2>3. DOMAIN out1 = 1 .. Len(delivered') /\ \A i \in DOMAIN out1 : out1[i] = IdOf(delivered'[i])
      BY <1>3 DEF Numbers
    <2>4. UmService!Rising(out1)
      <3>1. ASSUME NEW i \in DOMAIN out1, NEW j \in DOMAIN out1, i < j PROVE out1[i] < out1[j]
        <4>1. i \in 1 .. Len(delivered') /\ j \in 1 .. Len(delivered')
          BY <2>3
        <4>2. IdOf(delivered'[i]) < IdOf(delivered'[j])
          BY <1>3, <3>1, <4>1
        <4> QED BY <2>3, <4>2
      <3> QED BY <3>1 DEF UmService!Rising
    <2>5. \A i \in DOMAIN out1 : out1[i] \in 1 .. Len(sdu_sizes)
      BY <1>3, <1>6, <2>3
    <2> QED BY <1>1, <1>6, <2>2, <2>4, <2>5 DEF UmService!DeliverSdus
  <1>7. CASE \E size \in UmSduSizes : UpperDataReq(size)
    BY <1>4, <1>7 DEF UmService!UmServiceNext
  <1>8. CASE ~\E size \in UmSduSizes : UpperDataReq(size)
    <2>1. sdu_sizes' = sdu_sizes
      BY <1>8 DEF UmNext, MacGrant, UmSegment, Lose, Arrive, ReorderingExpires, umTxVars, umVars
    <2>2. delivered' = delivered \/ Extended
      BY StreamStep DEF StreamAll
    <2> QED BY <1>5, <1>6, <2>1, <2>2 DEF UmService!UmServiceNext
  <1> QED BY <1>7, <1>8

(***************************************************************************)
(* With the 5-bit header, for every modulus, grants and sizes of the SDUs: *)
(* the bearer implements the abstract service.  What rlc_um_send_sdu       *)
(* passes on are SDUs that were handed over, byte for byte, in order, none *)
(* twice, whatever HARQ loses, repeats or reorders and whenever            *)
(* t-Reordering expires.                                                   *)
(***************************************************************************)
THEOREM UmImplementsService == ASSUME ShortSn PROVE UmSpec => ImplementsUmService
  <1>1. UmInit => StreamAll
    BY UmInvInit, StreamInit DEF StreamAll
  <1>2. StreamAll /\ [UmNext]_umVars => StreamAll'
    BY UmInvStep, StreamStep DEF StreamAll
  <1>3. StreamAll => OutIs
    BY OutCorrect DEF StreamAll
  <1>4. UmInit => UmService!UmServiceInit
    <2> SUFFICES ASSUME UmInit PROVE UmService!UmServiceInit
      OBVIOUS
    <2>1. sdu_sizes = <<>> /\ delivered = <<>>
      BY DEF UmInit, UmTxInit, UmRxInit
    <2>2. OutIs
      BY <1>1, <1>3
    <2>3. Len(<<>>) = 0
      OBVIOUS
    <2>4. Numbers(delivered) = <<>>
      BY <2>1, <2>3 DEF Numbers
    <2> QED BY <2>1, <2>2, <2>3, <2>4 DEF OutIs, UmService!UmServiceInit
  <1>5. StreamAll /\ OutIs /\ OutIs' /\ [UmNext]_umVars
           => [UmService!UmServiceNext]_(UmService!umServiceVars)
    BY ServiceStep
  <1> QED BY <1>1, <1>2, <1>3, <1>4, <1>5, PTL DEF UmSpec, ImplementsUmService, UmService!UmServiceSpec
=============================================================================
