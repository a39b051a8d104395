---------------------------- MODULE RlcAmTxProof -----------------------------
(***************************************************************************)
(* Proofs about the transmitting side: its type invariant, the window      *)
(* invariant, the action property that no held PDU is overwritten, and     *)
(* that the totals cover what is pending, for every window size, every     *)
(* configuration and every STATUS PDU a peer may send.                     *)
(***************************************************************************)
EXTENDS RlcAmTx, Recursion, FiniteSetTheorems, SequenceTheorems

-----------------------------------------------------------------------------
(* Smallest and largest numbers of a set. *)

\* The Max of a set of naturals with a bound is its largest element.
LEMMA MaxOfBounded ==
    ASSUME NEW T \in SUBSET Nat, T # {}, NEW n \in Nat, \A x \in T : x <= n
    PROVE  Max(T) \in T /\ \A x \in T : x <= Max(T)
  <1> DEFINE D == {n - x : x \in T}
  <1>1. \A x \in T : n - x \in Nat
    OBVIOUS
  <1>0. D \in SUBSET Nat /\ D # {}
    BY <1>1, Zenon
  <1>2. PICK d \in D : \A y \in D : d <= y
    BY <1>0, SmallestExists, Zenon
  <1>3. PICK m \in T : d = n - m
    OBVIOUS
  <1>4. \A y \in T : m >= y
    BY <1>2, <1>3
  <1> QED BY <1>4 DEF Max

\* The Min of two integers is the smaller of them.
LEMMA MinOfTwo ==
    ASSUME NEW a \in Int, NEW b \in Int
    PROVE  Min({a, b}) \in {a, b} /\ Min({a, b}) <= a /\ Min({a, b}) <= b
  <1>1. \E x \in {a, b} : \A y \in {a, b} : x <= y
    OBVIOUS
  <1> QED BY <1>1 DEF Min

-----------------------------------------------------------------------------
(* Sequence numbers. *)

\* Every sequence number has a slot of the transmission buffer.
LEMMA SlotInSlots == \A sn \in SN : Slot(sn) \in Slots
  BY WindowAssumption DEF SN, SN_MODULO, Slot, Slots

\* The arithmetic on sequence numbers stays within them.
LEMMA SnClosed ==
    /\ \A sn \in SN : NextSn(sn) \in SN /\ PrevSn(sn) \in SN /\ PlusSn(sn, WINDOW_SIZE) \in SN
    /\ \A sn, ref \in SN : DiffSn(sn, ref) \in 0 .. SN_MODULO - 1
  BY WindowAssumption DEF SN, SN_MODULO, NextSn, PrevSn, PlusSn, DiffSn

\* Two sequence numbers of one slot are equal or a window apart.
LEMMA SameSlot ==
    \A a, q, base \in SN : Slot(a) = Slot(q) /\ DiffSn(q, base) < WINDOW_SIZE
        => a = q \/ DiffSn(a, base) = DiffSn(q, base) + WINDOW_SIZE
  BY WindowAssumption DEF SN, SN_MODULO, Slot, DiffSn

\* Moving the base forward inside the window shortens all distances ahead of it alike.
LEMMA DiffFromLater ==
    \A a, b, s \in SN : DiffSn(b, a) <= DiffSn(s, a)
        => DiffSn(s, b) = DiffSn(s, a) - DiffSn(b, a)
  BY WindowAssumption DEF SN, SN_MODULO, DiffSn

\* Distance 0 is equality, and the end of the window is WINDOW_SIZE away.
LEMMA DiffZero == \A a, b \in SN : (DiffSn(b, a) = 0) = (a = b)
  BY WindowAssumption DEF SN, SN_MODULO, DiffSn

\* A window ahead is the base plus the window.
LEMMA DiffWindow == \A a, s \in SN : (DiffSn(s, a) = WINDOW_SIZE) = (s = PlusSn(a, WINDOW_SIZE))
  BY WindowAssumption DEF SN, SN_MODULO, DiffSn, PlusSn

\* One step forward.
LEMMA DiffNext ==
    \A a, s \in SN : DiffSn(s, a) < WINDOW_SIZE => DiffSn(NextSn(s), a) = DiffSn(s, a) + 1
  BY WindowAssumption DEF SN, SN_MODULO, DiffSn, NextSn, PlusSn

-----------------------------------------------------------------------------
(* The window. *)

SoRange == [start : Nat, stop : Nat]

\* What the proofs use of a STATUS PDU: ACK_SN, the first NACK_SN and the ranges of the NACKs.
StatusOK(st) ==
    /\ st.ack_sn \in SN
    /\ NewVtA(st) \in SN
    /\ st.first_nack \in SN => st.first_nack \in DOMAIN st.nacks
    /\ st.first_nack = Undefined \/ st.first_nack \in SN
    /\ \A sn \in DOMAIN st.nacks : st.nacks[sn] \in Seq(SoRange)

\* A step of the transmitter, with any peer whose STATUS PDUs have that shape.
TxStep ==
    \/ \E size \in SduSizes : DataReq(size)
    \/ TxProgress
    \/ \E m \in data : MacTakes(m)
    \/ \E st : StatusOK(st) /\ ReceiveStatus(st)

\* A STATUS PDU in Status: ACK_SN, the first NACK_SN and the other NACKs before ACK_SN.
LEMMA StatusShape ==
    ASSUME NEW st \in Status PROVE StatusOK(st)
  <1> DEFINE Plain == [ack_sn : SN, first_nack : {Undefined}, nacks : NackLists({})]
             Nacks(a, b) == UNION {NackLists(S \cup {a}) : S \in SUBSET Between(a, b)}
             Nacking(a, b) == [ack_sn : {b}, first_nack : {a}, nacks : Nacks(a, b)]
             Ends(a) == {sn \in SN : DiffSn(sn, a) <= WINDOW_SIZE}
  <1>1. ASSUME st \in Plain
        PROVE  /\ st.ack_sn \in SN /\ st.first_nack = Undefined
               /\ \A sn \in DOMAIN st.nacks : st.nacks[sn] \in RangeLists
    BY <1>1 DEF NackLists
  <1>2. ASSUME NEW a \in SN, NEW b \in SN, st \in Nacking(a, b)
        PROVE  /\ st.ack_sn \in SN /\ st.first_nack \in SN
               /\ st.first_nack \in DOMAIN st.nacks
               /\ \A sn \in DOMAIN st.nacks : st.nacks[sn] \in RangeLists
    <2>1. st.ack_sn = b /\ st.first_nack = a
      BY <1>2
    <2>2. PICK S \in SUBSET Between(a, b) : st.nacks \in NackLists(S \cup {a})
      BY <1>2
    <2> QED BY <2>1, <2>2 DEF NackLists
  <1>3. st \in Plain \/ \E a \in SN : \E b \in SN : st \in Nacking(a, b)
    <2>1. st \in Plain \cup UNION {UNION {Nacking(a, b) : b \in Ends(a)} : a \in SN}
      BY Zenon DEF Status
    <2> HIDE DEF Plain, Nacking
    <2>2. ASSUME NEW a \in SN, st \in UNION {Nacking(a, b) : b \in Ends(a)}
          PROVE  \E b \in SN : st \in Nacking(a, b)
      BY <2>2
    <2> QED BY <2>1, <2>2
  <1>4. ~(Undefined \in SN)
    BY DEF Undefined, SN
  <1> HIDE DEF Plain, Nacking
  <1>5. RangeLists \subseteq Seq(SoRange)
    BY TxAssumption DEF SoRange
  <1> QED BY <1>1, <1>2, <1>3, <1>4, <1>5 DEF NewVtA, StatusOK

\* The transmitter of TxSpec takes such steps.
LEMMA NextIsStep == [TxNext]_txVars => [TxStep]_txVars
  BY StatusShape DEF TxNext, TxStep

-----------------------------------------------------------------------------
(* The entries of the transmission buffer. *)

RangesFit(ranges, payload) ==
    \A k \in DOMAIN ranges : ranges[k].start <= ranges[k].stop /\ ranges[k].stop < payload
EntryOK(c, payload) == c \in Entry /\ FitsPayload(c, payload)

\* The elements of a list of SO ranges.
LEMMA RangeBounds ==
    ASSUME NEW ranges \in Seq(SoRange), NEW k \in DOMAIN ranges
    PROVE  ranges[k] \in SoRange /\ ranges[k].start \in Nat /\ ranges[k].stop \in Nat
  <1>1. ranges[k] \in SoRange
    OBVIOUS
  <1> QED BY <1>1 DEF SoRange

\* The ranges rlc_am_nack_pdu records lie inside the PDU.
LEMMA AcceptedRangesFit ==
    ASSUME TxTypeOK, NEW i \in Slots, NEW ranges \in Seq(SoRange)
    PROVE  /\ AcceptedRanges(i, ranges) \in Seq(SoRange)
           /\ RangesFit(AcceptedRanges(i, ranges), pdu[i].payload)
  <1> DEFINE r == Clipped(i, ranges)
             payload == pdu[i].payload
             limit == Min({Len(ranges), MAX_HOLES})
             fine == {k \in 1 .. limit :
                         /\ r[k].start <= r[k].stop /\ r[k].stop < payload
                         /\ k > 1 => r[k].start > r[k - 1].stop}
             prefix == {0} \cup {k \in fine : 1 .. k \subseteq fine}
             m == Max(prefix)
  <1>0. AcceptedRanges(i, ranges) = SubSeq(r, 1, m)
    BY Zenon DEF AcceptedRanges
  <1>1. payload \in Nat
    BY DEF TxTypeOK, Buffered
  <1>2. Len(ranges) \in Nat /\ DOMAIN ranges = 1 .. Len(ranges)
    OBVIOUS
  <1>3. ASSUME NEW k \in 1 .. Len(ranges)
        PROVE  r[k].start \in Nat /\ r[k].stop \in Int /\ r[k] \in [start : Nat, stop : Int]
    <2>1. ranges[k] \in [start : Nat, stop : Nat]
      BY <1>2, RangeBounds DEF SoRange
    <2>2. r[k] = IF ranges[k].stop = SO_END_ALL THEN [ranges[k] EXCEPT !.stop = payload - 1]
                 ELSE ranges[k]
      BY DEF Clipped
    <2> HIDE DEF r, payload
    <2> QED BY <1>1, <2>1, <2>2
  <1>4. limit \in Nat /\ limit <= Len(ranges)
    <2>1. Len(ranges) \in Int /\ MAX_HOLES \in Nat /\ MAX_HOLES \in Int
      BY <1>2 DEF MAX_HOLES
    <2>2. limit \in {Len(ranges), MAX_HOLES} /\ limit <= Len(ranges)
      BY <2>1, MinOfTwo, Zenon
    <2> QED BY <1>2, <2>1, <2>2
  <1> HIDE DEF r, payload, limit
  <1>5. ASSUME NEW k \in fine
        PROVE  /\ k \in 1 .. Len(ranges) /\ r[k] \in SoRange
               /\ r[k].start <= r[k].stop /\ r[k].stop < payload
    <2>1. k \in 1 .. Len(ranges)
      BY <1>2, <1>4
    <2>2. r[k].start <= r[k].stop /\ r[k].stop < payload
      OBVIOUS
    <2>3. r[k].start \in Nat /\ r[k].stop \in Int /\ r[k] \in [start : Nat, stop : Int]
      BY <1>3, <2>1
    <2>4. r[k] \in SoRange
      BY <2>2, <2>3 DEF SoRange
    <2> QED BY <2>1, <2>2, <2>4
  <1> HIDE DEF fine
  <1>6. prefix \in SUBSET Nat /\ prefix # {} /\ \A x \in prefix : x <= Len(ranges)
    BY <1>2, <1>5
  <1>7. m \in prefix
    BY <1>2, <1>6, MaxOfBounded
  <1>8. m \in Nat
    BY <1>6, <1>7
  <1>9. \A k \in 1 .. m : k \in fine
    <2> HIDE DEF m
    <2> QED BY <1>7, <1>8
  <1> HIDE DEF prefix, m
  <1>10. \A k \in 1 .. m : r[k] \in SoRange
    BY <1>5, <1>9
  <1>11. /\ SubSeq(r, 1, m) \in Seq(SoRange)
         /\ Len(SubSeq(r, 1, m)) = m
         /\ \A k \in 1 .. m : SubSeq(r, 1, m)[k] = r[k]
    BY <1>8, <1>10, SubSeqProperties
  <1> QED BY <1>0, <1>5, <1>9, <1>11, SMTT(30) DEF RangesFit, payload

\* Ranges inside a PDU hold no more bytes than it does.
LEMMA BytesOfFits ==
    ASSUME NEW payload \in Nat, NEW ranges \in Seq(SoRange), RangesFit(ranges, payload)
    PROVE  BytesOf(ranges) \in Nat /\ BytesOf(ranges) <= payload
  <1> DEFINE bytes == UNION {ranges[k].start .. ranges[k].stop : k \in DOMAIN ranges}
  <1>1. ASSUME NEW k \in DOMAIN ranges, NEW b \in ranges[k].start .. ranges[k].stop
        PROVE  b \in 0 .. payload - 1
    BY RangeBounds DEF RangesFit
  <1>2. bytes \in SUBSET (0 .. payload - 1)
    BY <1>1
  <1>3. 0 \in Int /\ payload - 1 \in Int
    OBVIOUS
  <1>4. /\ IsFiniteSet(0 .. payload - 1)
        /\ Cardinality(0 .. payload - 1) = IF 0 > payload - 1 THEN 0 ELSE payload - 1 - 0 + 1
    BY <1>3, FS_Interval, Zenon
  <1>5. IsFiniteSet(bytes) /\ Cardinality(bytes) <= Cardinality(0 .. payload - 1)
    BY <1>2, <1>4, FS_Subset, Zenon
  <1>6. Cardinality(bytes) \in Nat
    BY <1>5, FS_CardinalityType, Zenon
  <1> HIDE DEF bytes
  <1>7. Cardinality(bytes) <= payload
    BY <1>4, <1>5, <1>6
  <1> QED BY <1>6, <1>7, Zenon DEF BytesOf, bytes

\* rlc_am_ack_pdu leaves a proper entry.
LEMMA AckPduFits ==
    ASSUME TxTypeOK, NEW i \in Slots
    PROVE  EntryOK(AckPdu(i).ctl, pdu[i].payload)
  <1> DEFINE c == ctl[i]
             base == [c EXCEPT !.ack = TRUE, !.transmitted = FALSE, !.retransmit = FALSE]
             cleared == [base EXCEPT !.retx_payload = 0, !.holes = <<>>]
  <1>1. c \in Entry /\ FitsPayload(c, pdu[i].payload) /\ pdu[i].payload \in Nat
    BY DEF TxTypeOK, Buffered
  <1>2. AckPdu(i).ctl \in {base, cleared}
    BY DEF AckPdu, Effect
  <1> HIDE DEF c
  <1>3. base \in Entry
    BY <1>1, Zenon DEF Entry
  <1>6. cleared \in Entry
    <2>1. 0 \in Nat /\ <<>> \in Seq([start : Nat, stop : Nat])
      OBVIOUS
    <2> HIDE DEF base
    <2> QED BY <1>3, <2>1, Zenon DEF Entry
  <1>4. FitsPayload(base, pdu[i].payload)
    BY <1>1 DEF Entry, FitsPayload
  <1>5. FitsPayload(cleared, pdu[i].payload)
    BY <1>1 DEF Entry, FitsPayload
  <1> QED BY <1>2, <1>3, <1>4, <1>5, <1>6 DEF EntryOK

\* So does whatever makes an entry pending for some bytes of its PDU.
LEMMA PendingFits ==
    ASSUME TxTypeOK, NEW i \in Slots, NEW holes \in Seq(SoRange), RangesFit(holes, pdu[i].payload),
           NEW size \in Nat, size <= pdu[i].payload, NEW soStart \in Nat,
           NEW more, NEW ok
    PROVE  EntryOK(Pending(i, holes, size, soStart, more, ok).ctl, pdu[i].payload)
  <1> DEFINE c == ctl[i]
             after(n) == [c EXCEPT !.retransmit = TRUE, !.retx_payload = size, !.holes = holes,
                                   !.retx_hole_index = 1, !.nack_so_start = soStart,
                                   !.retx_count_next = @ + n]
  <1>1. c \in Entry /\ pdu[i].payload \in Nat
    BY DEF TxTypeOK, Buffered
  <1>2. PICK n \in {0, 1} : Pending(i, holes, size, soStart, more, ok).ctl = after(n)
    BY DEF Pending, Effect
  <1> HIDE DEF c
  <1>3. after(n) \in Entry
    <2>1. c.retx_count_next + n \in Nat /\ 1 \in Nat
      BY <1>1 DEF Entry
    <2> QED BY <1>1, <2>1, Zenon DEF Entry, SoRange
  <1>4. after(n).holes = holes /\ after(n).retx_payload = size /\ after(n).retx_hole_index = 1
    BY <1>1 DEF Entry
  <1>5. holes # <<>> => 1 \in DOMAIN holes
    BY EmptySeq
  <1> HIDE DEF after
  <1> QED BY <1>2, <1>3, <1>4, <1>5 DEF EntryOK, FitsPayload, RangesFit

\* And rlc_am_nack_pdu, whatever ranges it is given.
LEMMA NackPduFits ==
    ASSUME TxTypeOK, NEW i \in Slots, NEW ranges \in Seq(SoRange), NEW freed
    PROVE  EntryOK(NackPdu(i, ranges, freed).ctl, pdu[i].payload)
  <1> DEFINE holes == AcceptedRanges(i, ranges)
             payload == pdu[i].payload
  <1>1. EntryOK(ctl[i], payload) /\ payload \in Nat
    BY DEF TxTypeOK, Buffered, EntryOK
  <1>2. holes \in Seq(SoRange) /\ RangesFit(holes, payload)
    BY AcceptedRangesFit
  <1>3. BytesOf(holes) \in Nat /\ BytesOf(holes) <= payload
    BY <1>1, <1>2, BytesOfFits
  <1>4. <<>> \in Seq(SoRange) /\ RangesFit(<<>>, payload)
    BY DEF RangesFit
  <1>5. ASSUME NEW more, NEW ok
        PROVE  EntryOK(Pending(i, <<>>, payload, 0, more, ok).ctl, payload)
    <2>1. 0 \in Nat /\ payload <= payload
      BY <1>1
    <2> QED BY <1>1, <1>4, <2>1, PendingFits, Zenon
  <1>6. holes # <<>> => holes[1].start \in Nat
    <2>1. holes # <<>> => 1 \in DOMAIN holes
      BY <1>2, EmptySeq
    <2> QED BY <1>2, <2>1, RangeBounds
  <1>7. ASSUME holes # <<>>, NEW more, NEW ok
        PROVE  EntryOK(Pending(i, holes, BytesOf(holes), holes[1].start, more, ok).ctl, payload)
    BY <1>2, <1>3, <1>6, <1>7, PendingFits, Zenon
  <1>8. EntryOK(Effect(ctl[i], 0, 0, FALSE).ctl, payload)
    BY <1>1 DEF Effect
  <1> QED BY <1>5, <1>7, <1>8, Zenon DEF NackPdu

\* The holes rlc_am_retransmit_get_am_segment works on lie inside the PDU.
LEMMA HolesFit ==
    ASSUME TxTypeOK, NEW i \in Slots, Hole(i).start <= Hole(i).stop
    PROVE  /\ Holes(i) \in Seq(SoRange)
           /\ HoleIndex(i) \in DOMAIN Holes(i)
           /\ RangesFit(Holes(i), pdu[i].payload)
  <1>1. ctl[i] \in Entry /\ FitsPayload(ctl[i], pdu[i].payload) /\ pdu[i].payload \in Nat
    BY DEF TxTypeOK, Buffered
  <1>2. CASE ctl[i].holes = <<>>
    <2> DEFINE whole == [start |-> 0, stop |-> pdu[i].payload - 1]
    <2>1. Holes(i) = <<whole>> /\ HoleIndex(i) = 1
      BY <1>2 DEF Holes, HoleIndex
    <2>2. Hole(i) = whole
      BY <2>1 DEF Hole
    <2>3. 0 <= pdu[i].payload - 1
      BY <2>2
    <2>4. whole \in SoRange /\ whole.start <= whole.stop /\ whole.stop < pdu[i].payload
      BY <1>1, <2>3 DEF SoRange
    <2> HIDE DEF whole
    <2> QED BY <2>1, <2>4 DEF RangesFit
  <1>3. CASE ctl[i].holes # <<>>
    <2>1. Holes(i) = ctl[i].holes /\ HoleIndex(i) = ctl[i].retx_hole_index
      BY <1>3 DEF Holes, HoleIndex
    <2>2. ctl[i].holes \in Seq(SoRange)
      BY <1>1 DEF Entry, SoRange
    <2> QED BY <1>1, <1>3, <2>1, <2>2 DEF FitsPayload, RangesFit
  <1> QED BY <1>2, <1>3

\* The entry after a segment left.
LEMMA AfterSegmentFits ==
    ASSUME TxTypeOK, NEW i \in Slots, Hole(i).start <= Hole(i).stop,
           NEW n \in Nat, n <= HoleSize(i), n <= ctl[i].retx_payload
    PROVE  EntryOK(AfterSegment(i, n), pdu[i].payload)
  <1> DEFINE c == ctl[i]
             payload == pdu[i].payload
             h == Holes(i)
             hole == HoleIndex(i)
             base == [c EXCEPT !.retx_payload = c.retx_payload - n,
                               !.retransmit = c.retx_payload - n # 0,
                               !.retx_count = c.retx_count_next]
             set(holes, index, so) ==
                 [base EXCEPT !.holes = holes, !.retx_hole_index = index, !.nack_so_start = so]
  <1>1. c \in Entry /\ c.retx_payload \in Nat /\ c.retx_count_next \in Nat /\ payload \in Nat
        /\ c.retx_payload <= payload
    BY DEF TxTypeOK, Buffered, Entry, FitsPayload
  <1>2. h \in Seq(SoRange) /\ hole \in DOMAIN h /\ RangesFit(h, payload)
    BY HolesFit
  <1>3. hole \in Nat /\ Len(h) \in Nat /\ DOMAIN h = 1 .. Len(h)
    BY <1>2
  <1>4. \/ /\ n < HoleSize(i)
           /\ AfterSegment(i, n) = set([h EXCEPT ![hole].start = @ + n], hole, h[hole].start + n)
        \/ hole < Len(h) /\ AfterSegment(i, n) = set(h, hole + 1, h[hole + 1].start)
        \/ AfterSegment(i, n) = set(<<>>, 1, 0)
    BY DEF AfterSegment, Hole
  <1>5. HoleSize(i) = h[hole].stop - h[hole].start + 1
    BY DEF HoleSize, Hole
  <1> HIDE DEF c, payload, h, hole
  <1>6. base \in Entry /\ base.retx_payload <= payload
    <2>1. c.retx_payload - n \in Nat /\ (c.retx_payload - n # 0) \in BOOLEAN
      BY <1>1 DEF c
    <2>2. base \in Entry
      BY <1>1, <2>1, Zenon DEF Entry
    <2>3. base.retx_payload = c.retx_payload - n
      BY <1>1 DEF Entry
    <2> QED BY <1>1, <2>2, <2>3 DEF c
  <1> HIDE DEF base
  <1>7. ASSUME NEW holes \in Seq(SoRange), RangesFit(holes, payload), NEW index \in Nat,
               holes # <<>> => index \in DOMAIN holes, NEW so \in Nat
        PROVE  EntryOK(set(holes, index, so), payload)
    <2>1. set(holes, index, so) \in Entry
      BY <1>6, Zenon DEF Entry, SoRange
    <2>2. /\ set(holes, index, so).holes = holes /\ set(holes, index, so).retx_hole_index = index
          /\ set(holes, index, so).retx_payload = base.retx_payload
      BY <1>6 DEF Entry
    <2> HIDE DEF set
    <2> QED BY <1>6, <1>7, <2>1, <2>2 DEF EntryOK, FitsPayload, RangesFit
  <1> HIDE DEF set
  <1>8. \A k \in DOMAIN h : h[k].start \in Nat /\ h[k].stop \in Nat /\ h[k] \in SoRange
    BY <1>2, RangeBounds
  <1>9. ASSUME n < HoleSize(i)
        PROVE  EntryOK(set([h EXCEPT ![hole].start = @ + n], hole, h[hole].start + n), payload)
    <2> DEFINE cut == [h[hole] EXCEPT !.start = @ + n]
               after == [h EXCEPT ![hole] = cut]
    <2>1. h[hole].start \in Nat /\ h[hole].stop \in Nat /\ h[hole] \in SoRange
      BY <1>2, <1>8
    <2>2. cut \in SoRange /\ cut.start = h[hole].start + n /\ cut.stop = h[hole].stop
      BY <2>1 DEF SoRange
    <2>3. cut.start <= cut.stop /\ cut.stop < payload
      BY <1>2, <1>5, <1>9, <2>1, <2>2 DEF RangesFit
    <2>4. [h EXCEPT ![hole].start = @ + n] = after
      OBVIOUS
    <2> HIDE DEF cut
    <2>5. after \in Seq(SoRange) /\ DOMAIN after = DOMAIN h
      BY <1>2, <2>2
    <2>6. \A k \in DOMAIN h : after[k] = IF k = hole THEN cut ELSE h[k]
      BY <1>2
    <2> HIDE DEF after
    <2>7. RangesFit(after, payload)
      BY <1>2, <2>3, <2>5, <2>6 DEF RangesFit
    <2>8. h[hole].start + n \in Nat
      BY <2>1
    <2> QED BY <1>2, <1>3, <1>7, <2>4, <2>5, <2>7, <2>8
  <1>10. ASSUME hole < Len(h)
         PROVE  EntryOK(set(h, hole + 1, h[hole + 1].start), payload)
    <2>1. hole + 1 \in Nat /\ hole + 1 \in DOMAIN h
      BY <1>2, <1>3, <1>10
    <2> QED BY <1>2, <1>7, <1>8, <2>1
  <1>11. EntryOK(set(<<>>, 1, 0), payload)
    <2>1. <<>> \in Seq(SoRange) /\ RangesFit(<<>>, payload)
      BY DEF RangesFit
    <2> QED BY <1>7, <2>1
  <1> QED BY <1>4, <1>9, <1>10, <1>11 DEF payload

\* The entry after the whole PDU left.
LEMMA AfterWholeFits ==
    ASSUME TxTypeOK, NEW i \in Slots
    PROVE  EntryOK(AfterWhole(i), pdu[i].payload)
  <1> DEFINE c == ctl[i]
             after == [c EXCEPT !.retx_payload = 0, !.retransmit = FALSE,
                                !.retx_count = c.retx_count_next]
  <1>1. c \in Entry /\ FitsPayload(c, pdu[i].payload) /\ pdu[i].payload \in Nat
    BY DEF TxTypeOK, Buffered
  <1>2. AfterWhole(i) = after
    BY DEF AfterWhole
  <1> HIDE DEF c
  <1>3. c.retx_count_next \in Nat /\ 0 \in Nat
    BY <1>1 DEF Entry
  <1>4. after \in Entry
    BY <1>1, <1>3, Zenon DEF Entry
  <1>5. /\ after.holes = c.holes /\ after.retx_hole_index = c.retx_hole_index
        /\ after.retx_payload = 0
    BY <1>1 DEF Entry
  <1> HIDE DEF after
  <1> QED BY <1>1, <1>2, <1>4, <1>5 DEF EntryOK, FitsPayload

\* Giving PDUs up changes nothing else of an entry.
LEMMA GivenUpFits ==
    ASSUME TxTypeOK, NEW grant
    PROVE  /\ GivenUp(grant) \in [Slots -> Entry]
           /\ \A i \in Slots : FitsPayload(GivenUp(grant)[i], pdu[i].payload)
  <1>1. ASSUME NEW i \in Slots
        PROVE  EntryOK(GivenUp(grant)[i], pdu[i].payload)
    <2> DEFINE c == ctl[i]
               after == [c EXCEPT !.max_retransmit = TRUE]
    <2>1. c \in Entry /\ FitsPayload(c, pdu[i].payload)
      BY DEF TxTypeOK
    <2>2. GivenUp(grant)[i] \in {c, after}
      BY DEF GivenUp
    <2> HIDE DEF c
    <2>3. after \in Entry
      BY <2>1, Zenon DEF Entry
    <2>4. /\ after.holes = c.holes /\ after.retx_hole_index = c.retx_hole_index
          /\ after.retx_payload = c.retx_payload
      BY <2>1 DEF Entry
    <2> HIDE DEF after
    <2> QED BY <2>1, <2>2, <2>3, <2>4 DEF EntryOK, FitsPayload
  <1>2. GivenUp(grant) = [i \in Slots |-> GivenUp(grant)[i]]
    BY DEF GivenUp
  <1> QED BY <1>1, <1>2, Zenon DEF EntryOK

-----------------------------------------------------------------------------
(* The type invariant, action by action. *)

\* Whether a PDU polls is a truth value.
LEMMA PollNeededType ==
    ASSUME NEW size, NEW s, NEW occupancy, NEW left
    PROVE  PollNeeded(size, s, occupancy, left) \in BOOLEAN
  BY DEF PollNeeded

\* rlc_am_pdu_polling leaves proper poll variables.
LEMMA PollingType ==
    ASSUME TxTypeOK, NEW size \in Nat, NEW s \in SN, NEW occupancy, NEW left,
           Polling(size, s, occupancy, left)
    PROVE  /\ poll' \in [pdus : Nat, bytes : Nat, force : BOOLEAN]
           /\ poll_sn' \in SN \cup {Undefined}
           /\ t_poll_retransmit' \in BOOLEAN
  <1>1. poll \in [pdus : Nat, bytes : Nat, force : BOOLEAN]
    BY DEF TxTypeOK
  <1>2. Counted(size) \in [pdus : Nat, bytes : Nat, force : BOOLEAN]
    <2> DEFINE p == IF size = 0 \/ poll_pdu = 0 THEN poll.pdus ELSE poll.pdus + 1
               b == IF poll_byte = 0 THEN poll.bytes ELSE poll.bytes + size
    <2>1. p \in Nat /\ b \in Nat
      BY <1>1
    <2>2. Counted(size) = [poll EXCEPT !.pdus = p, !.bytes = b]
      BY Zenon DEF Counted
    <2> HIDE DEF p, b
    <2> QED BY <1>1, <2>1, <2>2, Zenon
  <1>3. CASE PollNeeded(size, s, occupancy, left)
    <2>1. [pdus |-> 0, bytes |-> 0, force |-> FALSE] \in [pdus : Nat, bytes : Nat, force : BOOLEAN]
      OBVIOUS
    <2>2. PrevSn(s) \in SN
      BY SnClosed
    <2> QED BY <1>3, <2>1, <2>2, Zenon DEF Polling
  <1>4. CASE ~PollNeeded(size, s, occupancy, left)
    BY <1>2, <1>4 DEF Polling, TxTypeOK
  <1> QED BY <1>3, <1>4

\* The length indicators of any bytes take a number of bytes, those of a single byte none.
LEMMA LiBytesType ==
    ASSUME TxTypeOK, NEW from \in Nat, NEW n \in Nat
    PROVE  LiBytes(from, n) \in Nat /\ LiBytes(from, 1) = 0
  <1> DEFINE inside == EndsInside(from, n)
  <1>1. taken \in Int /\ ends \subseteq 1 .. taken
    BY TxAssumption DEF TxTypeOK
  <1>2. IsFiniteSet(1 .. taken)
    BY <1>1, FS_Interval
  <1>3. inside \subseteq 1 .. taken
    BY <1>1 DEF EndsInside
  <1>4. Cardinality(inside) \in Nat
    BY <1>2, <1>3, FS_Subset, FS_CardinalityType, Zenon
  <1>5. EndsInside(from, 1) = {}
    <2>1. ASSUME NEW b \in ends PROVE ~(from < b /\ b < from + 1)
      <3>1. b \in Int
        BY <1>1
      <3> QED BY <3>1
    <2> QED BY <2>1 DEF EndsInside
  <1>6. Cardinality(EndsInside(from, 1)) = 0
    BY <1>5, FS_EmptySet, Zenon
  <1>7. PICK c \in Nat : c = Cardinality(inside)
    BY <1>4
  <1>8. LiBytes(from, n) = (3 * c + 1) \div 2
    BY <1>7 DEF LiBytes
  <1>9. (3 * c + 1) \div 2 \in Nat
    OBVIOUS
  <1>10. LiBytes(from, 1) = 0
    BY <1>6 DEF LiBytes
  <1> QED BY <1>8, <1>9, <1>10

\* A PDU with room for a byte takes one or more, and they fit with their length indicators.
LEMMA LongestFits ==
    ASSUME TxTypeOK, NEW from \in Nat, NEW max \in Nat \ {0}, NEW room \in Int, room >= 1
    PROVE  /\ Longest(from, max, room) \in Nat \ {0}
           /\ Longest(from, max, room) <= max
           /\ LiBytes(from, Longest(from, max, room)) \in Nat
           /\ Longest(from, max, room) + LiBytes(from, Longest(from, max, room)) <= room
  <1> DEFINE fits == {n \in 1 .. max : n + LiBytes(from, n) <= room}
             m == Max(fits)
  <1>1. 1 \in 1 .. max /\ 1 \in Nat
    OBVIOUS
  <1>2. LiBytes(from, 1) = 0
    BY <1>1, LiBytesType
  <1>3. 1 \in fits
    BY <1>1, <1>2
  <1>4. fits \in SUBSET Nat /\ fits # {} /\ max \in Nat /\ \A x \in fits : x <= max
    BY <1>3
  <1>5. m \in fits
    BY <1>4, MaxOfBounded
  <1>6. Longest(from, max, room) = m
    BY Zenon DEF Longest
  <1> HIDE DEF m
  <1>7. m \in 1 .. max /\ m + LiBytes(from, m) <= room
    BY <1>5
  <1>8. LiBytes(from, m) \in Nat
    BY <1>7, LiBytesType
  <1> QED BY <1>6, <1>7, <1>8

\* A fresh entity has its types.
LEMMA TypeInit == TxInit => TxTypeOK
  <1> SUFFICES ASSUME TxInit PROVE TxTypeOK
    OBVIOUS
  <1>1. 0 \in SN /\ WINDOW_SIZE \in SN
    BY WindowAssumption DEF SN, SN_MODULO
  <1>2. NoPdu \in Buffered
    BY <1>1 DEF NoPdu, Buffered
  <1>3. Fresh \in Entry
    <2>1. 0 \in Nat /\ 1 \in Nat /\ <<>> \in Seq([start : Nat, stop : Nat])
      OBVIOUS
    <2> QED BY <2>1, Zenon DEF Fresh, Entry
  <1>4. FitsPayload(Fresh, NoPdu.payload)
    BY DEF FitsPayload, Fresh, NoPdu
  <1>5. pdu \in [Slots -> Buffered] /\ ctl \in [Slots -> Entry]
    BY <1>2, <1>3 DEF TxInit
  <1>6. \A i \in Slots : FitsPayload(ctl[i], pdu[i].payload)
    BY <1>4 DEF TxInit
  <1>7. poll \in [pdus : Nat, bytes : Nat, force : BOOLEAN]
    BY DEF TxInit
  <1>8. taken \in 0 .. MaxBytes /\ sdu_occupancy \in 0 .. taken /\ ends \subseteq 1 .. taken
    BY TxAssumption DEF TxInit
  <1> QED BY <1>1, <1>5, <1>6, <1>7, <1>8 DEF TxInit, TxTypeOK

\* rlc_am_data_req: only the count of waiting bytes grows.
LEMMA TypeDataReq ==
    ASSUME TxTypeOK, NEW size \in SduSizes, DataReq(size) PROVE TxTypeOK'
  <1>1. size \in Nat \ {0} /\ MaxBytes \in Nat
    BY TxAssumption
  <1>2. taken' \in 0 .. MaxBytes /\ sdu_occupancy' \in 0 .. taken'
    BY <1>1 DEF DataReq, TxTypeOK
  <1>3. ends' \subseteq 1 .. taken'
    BY <1>1 DEF DataReq, TxTypeOK
  <1> QED BY <1>2, <1>3 DEF DataReq, TxTypeOK, windowVars, pollVars

\* The sizes of a segment that is cut out of a hole.
LEMMA SegmentFits ==
    ASSUME TxTypeOK, NEW grant \in Nat, grant >= SEGMENT_HEADER + 1,
           NEW i \in Slots, SegmentAsserts(i, grant)
    PROVE  /\ Hole(i).start \in Nat /\ Hole(i).start <= Hole(i).stop
           /\ SegmentSize(i, grant) \in Nat \ {0}
           /\ SegmentSize(i, grant) <= HoleSize(i)
           /\ SegmentSize(i, grant) <= ctl[i].retx_payload
  <1> DEFINE n == SegmentSize(i, grant)
  <1>1. grant - SEGMENT_HEADER \in Int /\ grant - SEGMENT_HEADER >= 1
    BY DEF SEGMENT_HEADER
  <1>2. Hole(i).start <= Hole(i).stop
    BY DEF SegmentAsserts
  <1>3. Hole(i).start \in Nat /\ Hole(i).stop \in Nat
    <2>1. Holes(i) \in Seq(SoRange) /\ HoleIndex(i) \in DOMAIN Holes(i)
      BY <1>2, HolesFit
    <2> QED BY <2>1, RangeBounds DEF Hole
  <1>4. HoleSize(i) \in Nat \ {0}
    BY <1>2, <1>3 DEF HoleSize
  <1>10. pdu[i].first + Hole(i).start \in Nat
    BY <1>3 DEF TxTypeOK, Buffered
  <1>5. n <= HoleSize(i) /\ n \in Nat \ {0}
    BY <1>1, <1>4, <1>10, LongestFits, Zenon DEF SegmentSize
  <1>6. n \in Nat \ {0}
    BY <1>5
  <1>7. ctl[i].retx_payload >= n
    BY DEF SegmentAsserts
  <1>8. ctl[i].retx_payload \in Nat
    BY DEF TxTypeOK, Entry
  <1> HIDE DEF n
  <1>9. n <= ctl[i].retx_payload
    BY <1>6, <1>7, <1>8
  <1> QED BY <1>2, <1>3, <1>5, <1>6, <1>9 DEF n

\* A retransmission, of a PDU or of a segment, keeps its entry in range.
LEMMA TypeRetransmit ==
    ASSUME TxTypeOK, NEW grant \in DataGrants, Retransmit(grant) PROVE TxTypeOK'
  <1>1. grant \in Nat
    BY TxAssumption
  <1>2. ASSUME NEW i \in Slots, NEW e, EntryOK(e, pdu[i].payload),
               ctl' = [GivenUp(grant) EXCEPT ![i] = e]
        PROVE  /\ ctl' \in [Slots -> Entry]
               /\ \A j \in Slots : FitsPayload(ctl'[j], pdu[j].payload)
    <2>1. /\ GivenUp(grant) \in [Slots -> Entry]
          /\ \A j \in Slots : FitsPayload(GivenUp(grant)[j], pdu[j].payload)
      BY GivenUpFits
    <2> QED BY <1>2, <2>1 DEF EntryOK
  <1>3. ASSUME NEW i \in Slots, NEW rf \in BOOLEAN, NEW so \in Nat, NEW n \in Nat \ {0}, NEW left,
               data' = data \cup {DataPdu(i, rf, so, n, PollNeeded(0, vt_s, sdu_occupancy, left))}
        PROVE  data' \subseteq ToMac
    <2>1. pdu[i] \in Buffered
      BY DEF TxTypeOK
    <2>2. PollNeeded(0, vt_s, sdu_occupancy, left) \in BOOLEAN
      BY PollNeededType
    <2>3. DataPdu(i, rf, so, n, PollNeeded(0, vt_s, sdu_occupancy, left)) \in ToMac
      <3>1. (rf /\ so + n = pdu[i].payload) \in BOOLEAN
        OBVIOUS
      <3>2. /\ pdu[i].sn \in SN /\ pdu[i].first + so \in Nat
            /\ (IF rf THEN 0 ELSE pdu[i].filler) \in Nat
        BY <2>1 DEF Buffered
      <3> QED BY <2>2, <3>1, <3>2, Zenon DEF DataPdu, ToMac
    <2> QED BY <1>3, <2>3 DEF TxTypeOK
  <1>4. ASSUME NEW left, Polling(0, vt_s, sdu_occupancy, left)
        PROVE  /\ poll' \in [pdus : Nat, bytes : Nat, force : BOOLEAN]
               /\ poll_sn' \in SN \cup {Undefined} /\ t_poll_retransmit' \in BOOLEAN
    <2>1. vt_s \in SN /\ 0 \in Nat
      BY DEF TxTypeOK
    <2> QED BY <1>4, <2>1, PollingType
  <1>5. CASE UNCHANGED <<pollVars, ctl, retrans, data>>
    BY <1>5 DEF Retransmit, TxTypeOK, windowVars, pollVars
  <1>6. ASSUME RetransmitAsserts(grant), NEW sn \in Retransmittable(grant) \cap {PduToRetransmit(grant)}
        PROVE  /\ Slot(sn) \in Slots /\ GrantFits(sn, grant)
               /\ ctl[Slot(sn)].retx_payload > 0
    <2>1. sn \in SN /\ sn \in Outstanding /\ Due(sn) /\ GrantFits(sn, grant)
      BY DEF Retransmittable, Outstanding, Between
    <2>2. sn \in Visited(grant)
      BY <2>1, SnClosed DEF Visited, TxTypeOK, SN_MODULO
    <2> QED BY <1>6, <2>1, <2>2, SlotInSlots DEF RetransmitAsserts
  <1>7. ASSUME RetransmitAsserts(grant), NEW sn \in Retransmittable(grant) \cap {PduToRetransmit(grant)},
               RetransmitWhole(sn, grant), ~(UNCHANGED <<pollVars, ctl, retrans, data>>)
        PROVE  TxTypeOK'
    <2> DEFINE i == Slot(sn)
               left == retrans.bytes - ctl[i].retx_payload
    <2>1. i \in Slots /\ ctl[i].retx_payload > 0
      BY <1>6, <1>7
    <2>2. /\ ctl' = [GivenUp(grant) EXCEPT ![i] = AfterWhole(i)]
          /\ Polling(0, vt_s, sdu_occupancy, left)
          /\ data' = data \cup {DataPdu(i, FALSE, 0, pdu[i].payload, PollNeeded(0, vt_s, sdu_occupancy, left))}
          /\ SendsWhole(sn, grant)
      BY <1>7, Zenon DEF RetransmitWhole
    <2>3. pdu[i].payload \in Nat \ {0}
      BY <2>1, <2>2 DEF SendsWhole, TxTypeOK, Buffered
    <2>4. EntryOK(AfterWhole(i), pdu[i].payload)
      BY <2>1, AfterWholeFits
    <2> HIDE DEF i, left
    <2>5. /\ ctl' \in [Slots -> Entry]
          /\ \A j \in Slots : FitsPayload(ctl'[j], pdu[j].payload)
      BY <1>2, <2>1, <2>2, <2>4
    <2>6. data' \subseteq ToMac
      <3>1. FALSE \in BOOLEAN /\ 0 \in Nat
        OBVIOUS
      <3> QED BY <1>3, <2>1, <2>2, <2>3, <3>1
    <2> QED BY <1>4, <2>2, <2>5, <2>6 DEF Retransmit, TxTypeOK, windowVars
  <1>8. ASSUME RetransmitAsserts(grant), NEW sn \in Retransmittable(grant) \cap {PduToRetransmit(grant)},
               RetransmitSegment(sn, grant), ~(UNCHANGED <<pollVars, ctl, retrans, data>>)
        PROVE  TxTypeOK'
    <2> DEFINE i == Slot(sn)
               n == SegmentSize(i, grant)
               left == retrans.bytes - n
    <2>1. i \in Slots /\ GrantFits(sn, grant)
      BY <1>6, <1>8
    <2>2. /\ ctl' = [GivenUp(grant) EXCEPT ![i] = AfterSegment(i, n)]
          /\ Polling(0, vt_s, sdu_occupancy, left)
          /\ data' = data \cup {DataPdu(i, TRUE, Hole(i).start, n, PollNeeded(0, vt_s, sdu_occupancy, left))}
          /\ ~SendsWhole(sn, grant)
          /\ SegmentAsserts(i, grant)
      BY <1>8, Zenon DEF RetransmitSegment
    <2>3. grant >= SEGMENT_HEADER + 1
      BY <2>1, <2>2 DEF GrantFits
    <2>4. /\ Hole(i).start \in Nat /\ Hole(i).start <= Hole(i).stop
          /\ n \in Nat \ {0} /\ n <= HoleSize(i) /\ n <= ctl[i].retx_payload
      BY <1>1, <2>1, <2>2, <2>3, SegmentFits
    <2>9. EntryOK(AfterSegment(i, n), pdu[i].payload)
      BY <2>1, <2>4, AfterSegmentFits
    <2> HIDE DEF i, n, left
    <2>10. /\ ctl' \in [Slots -> Entry]
           /\ \A j \in Slots : FitsPayload(ctl'[j], pdu[j].payload)
      BY <1>2, <2>1, <2>2, <2>9
    <2>11. data' \subseteq ToMac
      <3>1. TRUE \in BOOLEAN
        OBVIOUS
      <3> QED BY <1>3, <2>1, <2>2, <2>4, <3>1
    <2> QED BY <1>4, <2>2, <2>10, <2>11 DEF Retransmit, TxTypeOK, windowVars
  <1> QED BY <1>5, <1>7, <1>8 DEF Retransmit

\* What rlc_am_segment_10 builds: at least a byte, at most what is waiting.
LEMMA NewPduIs ==
    ASSUME TxTypeOK, NEW grant \in DataGrants, NewPdu(grant)
    PROVE  \E n \in Nat \ {0}, filler \in Nat, p \in BOOLEAN :
              /\ n <= sdu_occupancy /\ sdu_occupancy' = sdu_occupancy - n /\ taken' = taken
              /\ pdu' = [pdu EXCEPT ![Slot(vt_s)] =
                           [sn |-> vt_s, mem |-> TRUE, first |-> taken - sdu_occupancy,
                            payload |-> n, filler |-> filler]]
              /\ data' = data \cup {[sn |-> vt_s, rf |-> FALSE, so |-> 0,
                                     first |-> taken - sdu_occupancy, len |-> n,
                                     filler |-> filler, lsf |-> FALSE, p |-> p]}
              /\ Polling(n, NextSn(vt_s), sdu_occupancy - n, retrans.bytes)
  <1> DEFINE first == taken - sdu_occupancy
             room == Min({grant - HEADER, sdu_occupancy + LiBytes(first, sdu_occupancy)})
             n == Longest(first, sdu_occupancy, room)
             filler == room - n - LiBytes(first, n)
             p == PollNeeded(n, NextSn(vt_s), sdu_occupancy - n, retrans.bytes)
  <1>1. grant \in Nat /\ taken \in Nat /\ sdu_occupancy \in Nat /\ sdu_occupancy <= taken
    BY TxAssumption DEF TxTypeOK
  <1>2. grant > HEADER /\ sdu_occupancy # 0
    BY DEF NewPdu
  <1>3. first \in Nat
    BY <1>1
  <1>4. grant - HEADER \in Int /\ grant - HEADER >= 1 /\ sdu_occupancy \in Nat \ {0}
    BY <1>1, <1>2 DEF HEADER
  <1>5. LiBytes(first, sdu_occupancy) \in Nat
    BY <1>1, <1>3, LiBytesType
  <1>6. PICK all \in Int : all = sdu_occupancy + LiBytes(first, sdu_occupancy) /\ all >= 1
    BY <1>4, <1>5
  <1>7. room \in {grant - HEADER, all}
    BY <1>4, <1>6, MinOfTwo, Zenon
  <1>8. room \in Int /\ room >= 1
    BY <1>4, <1>6, <1>7
  <1>9. p \in BOOLEAN
    BY PollNeededType
  <1>10. /\ sdu_occupancy' = sdu_occupancy - n /\ taken' = taken
         /\ pdu' = [pdu EXCEPT ![Slot(vt_s)] =
                      [sn |-> vt_s, mem |-> TRUE, first |-> first, payload |-> n,
                       filler |-> filler]]
         /\ data' = data \cup {[sn |-> vt_s, rf |-> FALSE, so |-> 0, first |-> first, len |-> n,
                                filler |-> filler, lsf |-> FALSE, p |-> p]}
         /\ Polling(n, NextSn(vt_s), sdu_occupancy - n, retrans.bytes)
    BY Zenon DEF NewPdu
  <1> HIDE DEF room, first, p
  <1>11. /\ n \in Nat \ {0} /\ n <= sdu_occupancy /\ LiBytes(first, n) \in Nat
         /\ n + LiBytes(first, n) <= room
    BY <1>3, <1>4, <1>8, LongestFits
  <1> HIDE DEF n
  <1>12. filler \in Nat
    BY <1>8, <1>11
  <1> HIDE DEF filler
  <1> QED BY <1>9, <1>10, <1>11, <1>12, Zenon DEF first

\* rlc_am_segment_10 fills one entry and moves VT(S) on.
LEMMA TypeNewPdu ==
    ASSUME TxTypeOK, NEW grant \in DataGrants, NewPdu(grant) PROVE TxTypeOK'
  <1>1. /\ grant \in Nat /\ vt_s \in SN /\ taken \in Nat /\ sdu_occupancy \in Nat
        /\ sdu_occupancy <= taken /\ taken <= MaxBytes /\ MaxBytes \in Nat
    BY TxAssumption DEF TxTypeOK
  <1>2. Slot(vt_s) \in Slots /\ NextSn(vt_s) \in SN
    BY <1>1, SlotInSlots, SnClosed
  <1>5. PICK first \in Nat : first = taken - sdu_occupancy
    BY <1>1
  <1>4. PICK n \in Nat \ {0}, filler \in Nat, p \in BOOLEAN :
           /\ n <= sdu_occupancy /\ sdu_occupancy' = sdu_occupancy - n /\ taken' = taken
           /\ pdu' = [pdu EXCEPT ![Slot(vt_s)] =
                        [sn |-> vt_s, mem |-> TRUE, first |-> first, payload |-> n,
                         filler |-> filler]]
           /\ data' = data \cup {[sn |-> vt_s, rf |-> FALSE, so |-> 0, first |-> first,
                                  len |-> n, filler |-> filler, lsf |-> FALSE, p |-> p]}
           /\ Polling(n, NextSn(vt_s), sdu_occupancy - n, retrans.bytes)
    BY <1>5, NewPduIs, Zenon
  <1> DEFINE i == Slot(vt_s)
             new == [sn |-> vt_s, mem |-> TRUE, first |-> first, payload |-> n, filler |-> filler]
             entry == [Fresh EXCEPT !.transmitted = TRUE]
  <1>3. /\ pdu' = [pdu EXCEPT ![i] = new]
        /\ ctl' = [AfterWalk(grant) EXCEPT ![i] = entry]
        /\ vt_s' = NextSn(vt_s)
        /\ UNCHANGED <<vt_a, vt_ms, taken, ends, retrans, tx_fatal>>
    BY <1>4, Zenon DEF NewPdu
  <1> HIDE DEF i
  <1>7. new \in Buffered /\ new.payload = n
    BY <1>1, <1>4, <1>5 DEF Buffered
  <1>8. entry \in Entry /\ FitsPayload(entry, n)
    <2>1. 0 \in Nat /\ 1 \in Nat /\ <<>> \in Seq([start : Nat, stop : Nat])
      OBVIOUS
    <2>2. entry \in Entry
      BY <2>1, Zenon DEF Fresh, Entry
    <2>3. FitsPayload(entry, n)
      BY <1>4 DEF FitsPayload, Fresh
    <2> QED BY <2>2, <2>3
  <1>9. /\ AfterWalk(grant) \in [Slots -> Entry]
        /\ \A j \in Slots : FitsPayload(AfterWalk(grant)[j], pdu[j].payload)
    BY GivenUpFits DEF AfterWalk, TxTypeOK
  <1> HIDE DEF new, entry
  <1>10. pdu' \in [Slots -> Buffered]
    BY <1>2, <1>3, <1>7 DEF TxTypeOK
  <1>11. ctl' \in [Slots -> Entry]
    BY <1>2, <1>3, <1>8, <1>9
  <1>12. ASSUME NEW j \in Slots PROVE FitsPayload(ctl'[j], pdu'[j].payload)
    <2>1. CASE j = i
      BY <1>2, <1>3, <1>7, <1>8, <1>9, <2>1 DEF TxTypeOK
    <2>2. CASE j # i
      BY <1>2, <1>3, <1>9, <2>2 DEF TxTypeOK
    <2> QED BY <2>1, <2>2
  <1>13. data' \subseteq ToMac
    <2>1. [sn |-> vt_s, rf |-> FALSE, so |-> 0, first |-> first, len |-> n, filler |-> filler,
           lsf |-> FALSE, p |-> p] \in ToMac
      BY <1>1 DEF ToMac
    <2> QED BY <1>4, <2>1 DEF TxTypeOK
  <1>14. /\ poll' \in [pdus : Nat, bytes : Nat, force : BOOLEAN]
         /\ poll_sn' \in SN \cup {Undefined} /\ t_poll_retransmit' \in BOOLEAN
    BY <1>2, <1>3, <1>4, PollingType
  <1>15. taken' \in 0 .. MaxBytes /\ sdu_occupancy' \in 0 .. taken'
    BY <1>1, <1>3, <1>4
  <1> QED BY <1>2, <1>3, <1>10, <1>11, <1>12, <1>13, <1>14, <1>15 DEF TxTypeOK

\* Giving PDUs up frees their blocks.
LEMMA TypeOnlyGiveUp ==
    ASSUME TxTypeOK, NEW grant \in DataGrants, OnlyGiveUp(grant) PROVE TxTypeOK'
  BY GivenUpFits DEF OnlyGiveUp, TxTypeOK, windowVars, pollVars

\* Whatever ranges the peer sends, the holes recorded fit their PDU.
LEMMA TypeReceiveStatus ==
    ASSUME TxTypeOK, NEW st, StatusOK(st), ReceiveStatus(st) PROVE TxTypeOK'
  <1>1. NewVtA(st) \in SN
    BY DEF StatusOK
  <1>2. \A sn \in DOMAIN st.nacks : st.nacks[sn] \in Seq(SoRange)
    BY DEF StatusOK
  <1>3. ASSUME NEW i \in Slots, NEW freed, NEW walked
        PROVE  EntryOK(StatusEffect(st, i, freed, walked).ctl, pdu[i].payload)
    <2>1. EntryOK(AckPdu(i).ctl, pdu[i].payload)
      BY AckPduFits
    <2>2. \A sn \in DOMAIN st.nacks : EntryOK(NackPdu(i, st.nacks[sn], freed).ctl, pdu[i].payload)
      BY <1>2, NackPduFits
    <2>3. EntryOK(Effect(ctl[i], 0, 0, TRUE).ctl, pdu[i].payload)
      BY DEF Effect, EntryOK, TxTypeOK
    <2> QED BY <2>1, <2>2, <2>3, Zenon DEF StatusEffect
  <1>4. CASE UNCHANGED <<ctl, pdu, vt_a, vt_ms, poll_sn, t_poll_retransmit>>
    BY <1>4 DEF ReceiveStatus, TxTypeOK
  <1>5. ASSUME ApplyStatus(st)
        PROVE  /\ ctl' \in [Slots -> Entry] /\ pdu' \in [Slots -> Buffered]
               /\ \A i \in Slots : FitsPayload(ctl'[i], pdu'[i].payload)
    <2>1. PICK freed, walked :
             /\ ctl' = [i \in Slots |-> StatusEffect(st, i, freed, walked).ctl]
             /\ pdu' = [i \in Slots |-> [pdu[i] EXCEPT !.mem = @ /\ i \notin freed]]
      BY <1>5 DEF ApplyStatus
    <2>2. ASSUME NEW i \in Slots
          PROVE  pdu'[i] \in Buffered /\ pdu'[i].payload = pdu[i].payload
      <3>1. pdu[i] \in Buffered
        BY DEF TxTypeOK
      <3>2. pdu'[i] = [pdu[i] EXCEPT !.mem = @ /\ i \notin freed]
        BY <2>1
      <3> QED BY <3>1, <3>2 DEF Buffered
    <2> QED BY <1>3, <2>1, <2>2 DEF EntryOK
  <1>6. ASSUME AcceptStatus(st)
        PROVE  vt_a' \in SN /\ vt_ms' \in SN /\ poll_sn' \in SN \cup {Undefined}
               /\ t_poll_retransmit' \in BOOLEAN
    BY <1>1, <1>6, SnClosed DEF AcceptStatus, TxTypeOK
  <1> QED BY <1>4, <1>5, <1>6 DEF ReceiveStatus, TxTypeOK

\* t-PollRetransmit marks one entry, as a whole.
LEMMA TypePollRetransmitExpiry ==
    ASSUME TxTypeOK, PollRetransmitExpiry PROVE TxTypeOK'
  <1>1. poll' \in [pdus : Nat, bytes : Nat, force : BOOLEAN] /\ t_poll_retransmit' \in BOOLEAN
    <2>1. poll' = [poll EXCEPT !.force = TRUE] \/ poll' = poll
      BY DEF PollRetransmitExpiry, TxTypeOK
    <2> QED BY <2>1 DEF PollRetransmitExpiry, TxTypeOK
  <1>2. ASSUME Unacked # {}, ReconsiderPdu(Slot(HighestSn(Unacked))),
               \A sn \in WalkedDown : pdu[Slot(sn)].mem
        PROVE  ctl' \in [Slots -> Entry] /\ \A i \in Slots : FitsPayload(ctl'[i], pdu[i].payload)
    <2> DEFINE i == Slot(HighestSn(Unacked))
               c == ctl[i]
               count == IF c.retx_count = c.retx_count_next THEN c.retx_count_next + 1
                        ELSE c.retx_count_next
               after == [c EXCEPT !.retransmit = TRUE, !.retx_payload = pdu[i].payload,
                                  !.retx_count_next = count]
    <2>1. ctl' = [ctl EXCEPT ![i] = after]
      BY <1>2 DEF ReconsiderPdu
    <2>2. CASE i \in Slots
      <3>1. c \in Entry /\ FitsPayload(c, pdu[i].payload) /\ pdu[i].payload \in Nat
        BY <2>2 DEF TxTypeOK, Buffered
      <3> HIDE DEF c
      <3>2. count \in Nat
        BY <3>1 DEF Entry
      <3> HIDE DEF count
      <3>3. after \in Entry
        BY <3>1, <3>2, Zenon DEF Entry
      <3>4. /\ after.holes = c.holes /\ after.retx_hole_index = c.retx_hole_index
            /\ after.retx_payload = pdu[i].payload
        BY <3>1 DEF Entry
      <3> HIDE DEF after
      <3>5. FitsPayload(after, pdu[i].payload)
        BY <3>1, <3>4 DEF FitsPayload
      <3> HIDE DEF i
      <3> QED BY <2>1, <2>2, <3>3, <3>5 DEF TxTypeOK
    <2>3. CASE i \notin Slots   \* cannot happen; the update would be void
      <3> HIDE DEF i, after
      <3> QED BY <2>1, <2>3 DEF TxTypeOK
    <2> QED BY <2>2, <2>3
  <1> QED BY <1>1, <1>2 DEF PollRetransmitExpiry, TxTypeOK, windowVars

\* MAC takes what was prepared.
LEMMA TypeMacTakes ==
    ASSUME TxTypeOK, NEW m \in data, MacTakes(m) PROVE TxTypeOK'
  BY DEF MacTakes, TxTypeOK, windowVars, pollVars

\* Every step of the transmitter keeps its types.
LEMMA TypeNext == TxTypeOK /\ [TxStep]_txVars => TxTypeOK'
  <1> SUFFICES ASSUME TxTypeOK, [TxStep]_txVars PROVE TxTypeOK'
    OBVIOUS
  <1>1. CASE UNCHANGED txVars
    BY <1>1 DEF TxTypeOK, txVars
  <1> QED BY <1>1, TypeDataReq, TypeRetransmit, TypeNewPdu, TypeOnlyGiveUp, TypeReceiveStatus,
             TypePollRetransmitExpiry, TypeMacTakes DEF TxStep, TxProgress

(***************************************************************************)
(* The types of the transmitter hold for every window size, configuration, *)
(* sequence of grants and STATUS PDUs: no hole outside its PDU is recorded *)
(* by rlc_am_nack_pdu, no empty PDU is handed to MAC.                      *)
(***************************************************************************)
THEOREM TxTypeCorrect == TxSpec => []TxTypeOK
  BY TypeInit, TypeNext, NextIsStep, PTL DEF TxSpec

-----------------------------------------------------------------------------
(***************************************************************************)
(* The window.  TxWindow is inductive once the types are known.  The step  *)
(* that needs an argument is the reception of a STATUS PDU, whose first    *)
(* NACK_SN is compared with nothing: where it is not outstanding, no entry *)
(* can answer the NACK, so that it is refused and VT(A) stays.             *)
(***************************************************************************)

\* What was outstanding and lies behind the new VT(A) is freed, the rest stays outstanding.
LEMMA OutstandingFrom ==
    ASSUME NEW a \in SN, NEW b \in SN, NEW s \in SN, DiffSn(b, a) <= DiffSn(s, a)
    PROVE  Between(b, s) = Between(a, s) \ Between(a, b)
  <1>1. ASSUME NEW q \in SN
        PROVE  (DiffSn(q, b) < DiffSn(s, b))
                 = (DiffSn(q, a) < DiffSn(s, a) /\ ~(DiffSn(q, a) < DiffSn(b, a)))
    BY WindowAssumption DEF SN, SN_MODULO, DiffSn
  <1> QED BY <1>1 DEF Between

\* The first NACK_SN of a status that is accepted is outstanding.
LEMMA FirstNackOutstanding ==
    ASSUME TxTypeOK, TxWindow, NEW st, StatusOK(st), StatusInRange(st), Refused(st) = {}
    PROVE  DiffSn(NewVtA(st), vt_a) <= DiffSn(vt_s, vt_a)
  <1> DEFINE a == st.first_nack
  <1>1. /\ st.ack_sn \in SN
        /\ a = Undefined \/ a \in SN
        /\ a \in SN => a \in DOMAIN st.nacks
        /\ vt_a \in SN /\ vt_s \in SN
    BY DEF TxTypeOK, StatusOK
  <1>2. CASE a = Undefined \/ a = st.ack_sn
    <2>1. NewVtA(st) = st.ack_sn
      BY <1>2 DEF NewVtA
    <2> QED BY <1>1, <2>1, SnClosed DEF StatusInRange, SN_MODULO
  <1>3. CASE a # Undefined /\ a # st.ack_sn
    <2>1. NewVtA(st) = a /\ a \in SN /\ a \in DOMAIN st.nacks
      BY <1>1, <1>3 DEF NewVtA
    <2>2. a \in Between(a, st.ack_sn)
      BY <1>1, <1>3, <2>1, WindowAssumption DEF Between, DiffSn, SN, SN_MODULO
    <2>3. NackPdu(Slot(a), st.nacks[a], FreedSlots(st)).ok
      BY <2>1, <2>2 DEF Refused
    <2>4. pdu[Slot(a)].mem /\ Slot(a) \notin FreedSlots(st)
      BY <2>3 DEF NackPdu, Effect
    <2> DEFINE q == pdu[Slot(a)].sn
    <2>5. q \in SN /\ q \in Outstanding /\ Slot(q) = Slot(a)
      BY <2>1, <2>4, SlotInSlots DEF TxWindow, BlocksAreOutstanding, Outstanding, Between
    <2>6. DiffSn(q, vt_a) < DiffSn(vt_s, vt_a) /\ DiffSn(vt_s, vt_a) <= WINDOW_SIZE
      BY <2>5 DEF Outstanding, Between, TxWindow, WindowBounded
    <2>7. q \notin Between(vt_a, a)
      BY <2>1, <2>4, <2>5 DEF FreedSlots
    <2>8. ~(DiffSn(q, vt_a) < DiffSn(a, vt_a))
      BY <2>5, <2>7 DEF Between
    <2> HIDE DEF a, q
    <2> QED BY <1>1, <2>1, <2>6, <2>5, <2>8, SnClosed, WindowAssumption DEF SN_MODULO
  <1> QED BY <1>2, <1>3

\* Nothing is outstanding at first.
LEMMA WindowInit == TxInit => TxWindow
  <1> SUFFICES ASSUME TxInit PROVE TxWindow
    OBVIOUS
  <1>1. 0 \in SN
    BY WindowAssumption DEF SN, SN_MODULO
  <1>2. WindowBounded
    BY WindowAssumption DEF TxInit, WindowBounded, DiffSn, PlusSn, SN_MODULO
  <1>3. Outstanding = {}
    BY WindowAssumption DEF TxInit, Outstanding, Between, DiffSn, SN, SN_MODULO
  <1> QED BY <1>2, <1>3 DEF TxInit, TxWindow, EntriesAreOwn, BlocksAreOutstanding, NoPdu

\* The slot of VT(S) belongs to no outstanding PDU while the window is not full.
LEMMA NewSlotIsFree ==
    ASSUME TxTypeOK, TxWindow, vt_s # vt_ms
    PROVE  /\ DiffSn(vt_s, vt_a) < WINDOW_SIZE
           /\ \A sn \in Outstanding : Slot(sn) # Slot(vt_s)
           /\ ~pdu[Slot(vt_s)].mem
  <1>1. vt_a \in SN /\ vt_s \in SN
    BY DEF TxTypeOK
  <1>2. DiffSn(vt_s, vt_a) < WINDOW_SIZE
    BY <1>1, DiffWindow, SnClosed, WindowAssumption DEF TxWindow, WindowBounded, SN_MODULO
  <1>3. ASSUME NEW sn \in Outstanding PROVE Slot(sn) # Slot(vt_s)
    <2>1. sn \in SN /\ DiffSn(sn, vt_a) < DiffSn(vt_s, vt_a)
      BY DEF Outstanding, Between
    <2> QED BY <1>1, <1>2, <2>1, WindowAssumption DEF Slot, DiffSn, SN, SN_MODULO
  <1>4. ~pdu[Slot(vt_s)].mem
    BY <1>1, <1>3, SlotInSlots DEF TxWindow, BlocksAreOutstanding
  <1> QED BY <1>2, <1>3, <1>4

\* A new PDU is sent only inside the window, into the entry of its number.
LEMMA WindowNewPdu ==
    ASSUME TxTypeOK, TxWindow, NEW grant, NewPdu(grant) PROVE TxWindow'
  <1>1. vt_a \in SN /\ vt_s \in SN /\ vt_s # vt_ms
    BY DEF TxTypeOK, NewPdu
  <1> DEFINE i == Slot(vt_s)
  <1>2. /\ DiffSn(vt_s, vt_a) < WINDOW_SIZE
        /\ \A sn \in Outstanding : Slot(sn) # i
    BY <1>1, NewSlotIsFree
  <1>3. vt_s' = NextSn(vt_s) /\ UNCHANGED <<vt_a, vt_ms>>
    BY DEF NewPdu
  <1>4. DiffSn(vt_s', vt_a') = DiffSn(vt_s, vt_a) + 1
    BY <1>1, <1>2, <1>3, DiffNext
  <1>5. WindowBounded'
    BY <1>1, <1>2, <1>3, <1>4, SnClosed, WindowAssumption DEF TxWindow, WindowBounded, SN_MODULO
  <1>6. Outstanding' = Outstanding \cup {vt_s}
    <2>1. ASSUME NEW sn \in SN
          PROVE  (DiffSn(sn, vt_a) < DiffSn(vt_s, vt_a) + 1)
                    = (DiffSn(sn, vt_a) < DiffSn(vt_s, vt_a) \/ sn = vt_s)
      BY <1>1, WindowAssumption DEF DiffSn, SN, SN_MODULO
    <2> QED BY <1>1, <1>3, <1>4, <2>1 DEF Outstanding, Between
  <1>7. i \in Slots
    BY <1>1, SlotInSlots
  <1>8. PICK new : new.sn = vt_s /\ pdu' = [pdu EXCEPT ![i] = new]
    <2>1. PICK f, n, g : pdu' = [pdu EXCEPT ![i] = [sn |-> vt_s, mem |-> TRUE, first |-> f,
                                                    payload |-> n, filler |-> g]]
      BY DEF NewPdu
    <2> QED BY <2>1
  <1> HIDE DEF i
  <1>9. pdu'[i].sn = vt_s /\ \A j \in Slots : j # i => pdu'[j] = pdu[j]
    BY <1>7, <1>8 DEF TxTypeOK
  <1>10. ASSUME NEW sn \in Outstanding' PROVE pdu'[Slot(sn)].sn = sn
    <2>1. CASE sn = vt_s
      BY <1>9, <2>1 DEF i
    <2>2. CASE sn \in Outstanding
      <3>1. Slot(sn) \in Slots /\ Slot(sn) # i
        BY <1>2, <2>2, SlotInSlots DEF Outstanding, Between
      <3> QED BY <1>9, <2>2, <3>1 DEF TxWindow, EntriesAreOwn
    <2> QED BY <1>6, <2>1, <2>2
  <1>11. ASSUME NEW j \in Slots, pdu'[j].mem
         PROVE  pdu'[j].sn \in Outstanding' /\ Slot(pdu'[j].sn) = j
    <2>1. CASE j = i
      BY <1>6, <1>9, <2>1 DEF i
    <2>2. CASE j # i
      BY <1>6, <1>9, <1>11, <2>2 DEF TxWindow, BlocksAreOutstanding
    <2> QED BY <2>1, <2>2
  <1> QED BY <1>5, <1>10, <1>11 DEF TxWindow, EntriesAreOwn, BlocksAreOutstanding

\* An accepted STATUS PDU moves VT(A) within what is outstanding.
LEMMA WindowReceiveStatus ==
    ASSUME TxTypeOK, TxWindow, NEW st, StatusOK(st), ReceiveStatus(st) PROVE TxWindow'
  <1>1. vt_a \in SN /\ vt_s \in SN /\ vt_s' = vt_s
    BY DEF TxTypeOK, ReceiveStatus
  <1>2. CASE UNCHANGED <<pdu, vt_a, vt_ms>>
    BY <1>1, <1>2 DEF TxWindow, WindowBounded, EntriesAreOwn, BlocksAreOutstanding, Outstanding
  <1>3. ASSUME ApplyStatus(st)
        PROVE  \A i \in Slots : /\ pdu'[i].sn = pdu[i].sn
                                /\ pdu'[i].mem => pdu[i].mem /\ i \notin FreedSlots(st)
    <2> SUFFICES ASSUME NEW i \in Slots
                 PROVE  /\ pdu'[i].sn = pdu[i].sn
                        /\ pdu'[i].mem => pdu[i].mem /\ i \notin FreedSlots(st)
      OBVIOUS
    <2>1. pdu'[i] = [pdu[i] EXCEPT !.mem = @ /\ i \notin FreedSlots(st)]
      BY <1>3 DEF ApplyStatus
    <2>2. pdu[i] \in Buffered
      BY DEF TxTypeOK
    <2> QED BY <2>1, <2>2 DEF Buffered
  <1>4. CASE ApplyStatus(st) /\ UNCHANGED <<vt_a, vt_ms>>
    <2>1. Outstanding' = Outstanding /\ Outstanding \subseteq SN
      BY <1>1, <1>4 DEF Outstanding, Between
    <2>2. EntriesAreOwn'
      BY <1>3, <1>4, <2>1, SlotInSlots DEF TxWindow, EntriesAreOwn
    <2>3. BlocksAreOutstanding'
      BY <1>3, <1>4, <2>1 DEF TxWindow, BlocksAreOutstanding
    <2> QED BY <1>1, <1>4, <2>2, <2>3 DEF TxWindow, WindowBounded
  <1>5. CASE StatusInRange(st) /\ ApplyStatus(st) /\ Refused(st) = {} /\ AcceptStatus(st)
    <2> DEFINE b == NewVtA(st)
    <2>1. b \in SN /\ vt_a' = b /\ vt_ms' = PlusSn(b, WINDOW_SIZE)
      BY <1>5 DEF AcceptStatus, StatusOK
    <2>2. DiffSn(b, vt_a) <= DiffSn(vt_s, vt_a)
      BY <1>5, FirstNackOutstanding
    <2>3. Outstanding' = Outstanding \ Between(vt_a, b)
      BY <1>1, <2>1, <2>2, OutstandingFrom DEF Outstanding
    <2>4. WindowBounded'
      <3>1. DiffSn(vt_s, b) = DiffSn(vt_s, vt_a) - DiffSn(b, vt_a)
        BY <1>1, <2>1, <2>2, DiffFromLater
      <3>2. DiffSn(vt_s, vt_a) \in Nat /\ DiffSn(b, vt_a) \in Nat /\ DiffSn(vt_s, vt_a) <= WINDOW_SIZE
        BY <1>1, <2>1, SnClosed DEF TxWindow, WindowBounded
      <3>3. DiffSn(vt_s, b) <= WINDOW_SIZE
        BY <3>1, <3>2, WindowAssumption
      <3> QED BY <1>1, <2>1, <3>3 DEF WindowBounded
    <2>5. Outstanding \subseteq SN
      BY DEF Outstanding, Between
    <2>6. EntriesAreOwn'
      BY <1>3, <1>5, <2>3, <2>5, SlotInSlots DEF TxWindow, EntriesAreOwn
    <2>7. BlocksAreOutstanding'
      <3> SUFFICES ASSUME NEW i \in Slots, pdu'[i].mem
                   PROVE  pdu'[i].sn \in Outstanding' /\ Slot(pdu'[i].sn) = i
        BY DEF BlocksAreOutstanding
      <3>1. pdu'[i].sn = pdu[i].sn /\ pdu[i].mem /\ i \notin FreedSlots(st)
        BY <1>3, <1>5
      <3>2. pdu[i].sn \in Outstanding /\ Slot(pdu[i].sn) = i
        BY <3>1 DEF TxWindow, BlocksAreOutstanding
      <3>3. pdu[i].sn \notin Between(vt_a, b)
        BY <3>1, <3>2 DEF FreedSlots
      <3> QED BY <2>3, <3>1, <3>2, <3>3
    <2> QED BY <2>4, <2>6, <2>7 DEF TxWindow
  <1> QED BY <1>2, <1>4, <1>5 DEF ReceiveStatus

\* Every step of the transmitter keeps its window.
LEMMA WindowNext == TxTypeOK /\ TxWindow /\ [TxStep]_txVars => TxWindow'
  <1> SUFFICES ASSUME TxTypeOK, TxWindow, [TxStep]_txVars PROVE TxWindow'
    OBVIOUS
  <1>1. CASE UNCHANGED <<vt_a, vt_s, vt_ms, pdu>>
    BY <1>1 DEF TxWindow, WindowBounded, EntriesAreOwn, BlocksAreOutstanding, Outstanding
  <1>2. CASE UNCHANGED txVars
    BY <1>1, <1>2 DEF txVars
  <1>3. ASSUME NEW size, DataReq(size) PROVE TxWindow'
    BY <1>1, <1>3 DEF DataReq, windowVars
  <1>4. ASSUME NEW grant, Retransmit(grant) PROVE TxWindow'
    BY <1>1, <1>4 DEF Retransmit, windowVars
  <1>5. ASSUME NEW grant, OnlyGiveUp(grant) PROVE TxWindow'
    BY <1>1, <1>5 DEF OnlyGiveUp, windowVars
  <1>6. ASSUME PollRetransmitExpiry PROVE TxWindow'
    BY <1>1, <1>6 DEF PollRetransmitExpiry, windowVars
  <1>7. ASSUME NEW m, MacTakes(m) PROVE TxWindow'
    BY <1>1, <1>7 DEF MacTakes, windowVars
  <1> QED BY <1>2, <1>3, <1>4, <1>5, <1>6, <1>7, WindowNewPdu, WindowReceiveStatus
          DEF TxStep, TxProgress

(***************************************************************************)
(* Whatever STATUS PDUs arrive, in whatever order and however often, the   *)
(* transmitting window stays within AM_Window_Size and every entry of      *)
(* tx_data_pdu_buffer belongs to one outstanding sequence number           *)
(* (rlc_am_receive_process_control_pdu, rlc_am_segment_10).                *)
(***************************************************************************)
THEOREM TxWindowCorrect == TxSpec => []TxWindow
  <1>1. TxSpec => []TxTypeOK
    BY TxTypeCorrect
  <1> QED BY <1>1, WindowInit, WindowNext, NextIsStep, PTL DEF TxSpec

\* What an entry holds changes only in rlc_am_segment_10, and there its block was freed.
LEMMA OverwriteStep ==
    ASSUME TxTypeOK, TxWindow, TxStep
    PROVE  \A i \in Slots : <<pdu'[i].sn, pdu'[i].first>> # <<pdu[i].sn, pdu[i].first>>
                               => ~pdu[i].mem
  <1> SUFFICES ASSUME NEW i \in Slots,
                      <<pdu'[i].sn, pdu'[i].first>> # <<pdu[i].sn, pdu[i].first>>
               PROVE  ~pdu[i].mem
    OBVIOUS
  <1>1. CASE pdu' = pdu
    BY <1>1
  <1>2. ASSUME NEW grant, NewPdu(grant) PROVE ~pdu[i].mem
    <2>1. vt_s # vt_ms /\ \E new : pdu' = [pdu EXCEPT ![Slot(vt_s)] = new]
      BY <1>2 DEF NewPdu
    <2>2. i = Slot(vt_s)
      BY <2>1 DEF TxTypeOK
    <2> QED BY <2>1, <2>2, NewSlotIsFree
  <1>3. ASSUME NEW st, ReceiveStatus(st) PROVE ~pdu[i].mem
    <2>1. pdu[i] \in Buffered
      BY DEF TxTypeOK
    <2>2. pdu' = pdu \/ \E freed : pdu'[i] = [pdu[i] EXCEPT !.mem = @ /\ i \notin freed]
      BY <1>3 DEF ReceiveStatus, ApplyStatus
    <2>3. pdu'[i].sn = pdu[i].sn /\ pdu'[i].first = pdu[i].first
      BY <2>1, <2>2 DEF Buffered
    <2> QED BY <2>3
  <1> QED BY <1>1, <1>2, <1>3 DEF TxStep, TxProgress, DataReq, Retransmit, OnlyGiveUp,
                                  PollRetransmitExpiry, MacTakes

(***************************************************************************)
(* rlc_am_segment_10 never overwrites a PDU that is still held: proved     *)
(* from the window invariant, for every window size.                       *)
(***************************************************************************)
THEOREM TxNeverOverwrites == TxSpec => NeverOverwritten
  <1>1. TxTypeOK /\ TxWindow /\ [TxStep]_txVars
          => [\A i \in Slots : <<pdu'[i].sn, pdu'[i].first>> # <<pdu[i].sn, pdu[i].first>>
                                  => ~pdu[i].mem]_txVars
    BY OverwriteStep
  <1> QED BY <1>1, TxTypeCorrect, TxWindowCorrect, NextIsStep, PTL DEF TxSpec, NeverOverwritten

-----------------------------------------------------------------------------
(* The totals of pending retransmissions. *)

\* SumOver adds up: it is the last of the partial sums.
LEMMA PartialSums ==
    ASSUME NEW f \in [Slots -> Int]
    PROVE  \E s \in [0 .. WINDOW_SIZE -> Int] :
              /\ s[0] = 0 /\ \A k \in Slots : s[k + 1] = s[k] + f[k]
              /\ SumOver(f) = s[WINDOW_SIZE]
  <1> DEFINE add == [p \in Int \X Nat |-> p[1] + IF p[2] - 1 \in Slots THEN f[p[2] - 1] ELSE 0]
             IsSum(h) == h = [k \in 0 .. WINDOW_SIZE |-> IF k = 0 THEN 0 ELSE h[k - 1] + f[k - 1]]
  <1>1. WINDOW_SIZE \in Nat /\ WINDOW_SIZE # 0
    BY WindowAssumption
  <1>2. add \in [Int \X Nat -> Int]
    <2>1. ASSUME NEW p \in Int \X Nat
          PROVE  p[1] + (IF p[2] - 1 \in Slots THEN f[p[2] - 1] ELSE 0) \in Int
      OBVIOUS
    <2> QED BY <2>1
  <1>3. ASSUME NEW n \in Int, NEW k \in 1 .. WINDOW_SIZE PROVE add[<<n, k>>] = n + f[k - 1]
    BY <1>1 DEF Slots
  <1> HIDE DEF add
  <1>4. PICK g \in [0 .. WINDOW_SIZE -> Int] :
           g[0] = 0 /\ \A k \in 1 .. WINDOW_SIZE : g[k] = add[<<g[k - 1], k>>]
    <2>1. Passes(Int, 0, add, WINDOW_SIZE) # {}
      BY <1>1, <1>2, RecursionExists
    <2> QED BY <2>1 DEF Passes
  <1>5. \A k \in 1 .. WINDOW_SIZE : g[k] = g[k - 1] + f[k - 1]
    <2> TAKE k \in 1 .. WINDOW_SIZE
    <2>1. k - 1 \in 0 .. WINDOW_SIZE
      BY <1>1
    <2>2. g[k - 1] \in Int
      BY <2>1
    <2> QED BY <1>3, <1>4, <2>2
  <1>6. IsSum(g)
    <2>1. ASSUME NEW k \in 0 .. WINDOW_SIZE
          PROVE  g[k] = IF k = 0 THEN 0 ELSE g[k - 1] + f[k - 1]
      <3>1. k = 0 \/ k \in 1 .. WINDOW_SIZE
        BY <1>1
      <3>2. CASE k = 0
        BY <1>4, <3>2
      <3>3. CASE k # 0
        BY <1>5, <3>1, <3>3
      <3> QED BY <3>2, <3>3
    <2> QED BY <2>1
  <1> DEFINE s == CHOOSE h : IsSum(h)
  <1>7. IsSum(s)
    BY <1>6, Zenon
  <1>8. SumOver(f) = s[WINDOW_SIZE]
    BY DEF SumOver
  <1> HIDE DEF s
  <1>9. s[0] = 0 /\ DOMAIN s = 0 .. WINDOW_SIZE
    BY <1>1, <1>7
  <1>10. ASSUME NEW k \in Slots PROVE s[k + 1] = s[k] + f[k]
    <2>1. k + 1 \in 0 .. WINDOW_SIZE /\ k + 1 # 0 /\ (k + 1) - 1 = k
      BY <1>1 DEF Slots
    <2> QED BY <1>7, <2>1
  <1> DEFINE T == {k \in 0 .. WINDOW_SIZE : s[k] \in Int}
  <1>11. 0 \in T
    BY <1>1, <1>9
  <1>12. ASSUME NEW n \in 0 .. WINDOW_SIZE - 1, n \in T PROVE n + 1 \in T
    <2>1. n \in Slots /\ n + 1 \in 0 .. WINDOW_SIZE
      BY <1>1 DEF Slots
    <2> QED BY <1>10, <1>12, <2>1
  <1> HIDE DEF T
  <1>13. \A n \in 0 .. WINDOW_SIZE : n \in T
    BY <1>1, <1>11, <1>12, InductionTo
  <1>14. \A n \in 0 .. WINDOW_SIZE : s[n] \in Int
    BY <1>13 DEF T
  <1>15. s \in [0 .. WINDOW_SIZE -> Int]
    <2>1. s = [k \in 0 .. WINDOW_SIZE |-> s[k]]
      BY <1>7
    <2> QED BY <2>1, <1>14
  <1> QED BY <1>8, <1>9, <1>10, <1>15

\* What changes by at most d in each entry changes by at most the sum of d.
LEMMA SumsMove ==
    ASSUME NEW f \in [Slots -> Int], NEW g \in [Slots -> Int], NEW d \in [Slots -> Int],
           \A i \in Slots : g[i] <= f[i] + d[i]
    PROVE  /\ SumOver(f) \in Int /\ SumOver(g) \in Int /\ SumOver(d) \in Int
           /\ SumOver(g) <= SumOver(f) + SumOver(d)
  <1>1. PICK s \in [0 .. WINDOW_SIZE -> Int] :
              /\ s[0] = 0 /\ \A k \in Slots : s[k + 1] = s[k] + f[k]
              /\ SumOver(f) = s[WINDOW_SIZE]
    BY PartialSums
  <1>2. PICK t \in [0 .. WINDOW_SIZE -> Int] :
              /\ t[0] = 0 /\ \A k \in Slots : t[k + 1] = t[k] + g[k]
              /\ SumOver(g) = t[WINDOW_SIZE]
    BY PartialSums
  <1>3. PICK u \in [0 .. WINDOW_SIZE -> Int] :
              /\ u[0] = 0 /\ \A k \in Slots : u[k + 1] = u[k] + d[k]
              /\ SumOver(d) = u[WINDOW_SIZE]
    BY PartialSums
  <1>4. WINDOW_SIZE \in Nat
    BY WindowAssumption
  <1> DEFINE T == {k \in 0 .. WINDOW_SIZE : t[k] <= s[k] + u[k]}
  <1>5. 0 \in T
    BY <1>1, <1>2, <1>3, <1>4
  <1>6. ASSUME NEW n \in 0 .. WINDOW_SIZE - 1, n \in T PROVE n + 1 \in T
    <2>1. n \in Slots /\ n + 1 \in 0 .. WINDOW_SIZE /\ n \in 0 .. WINDOW_SIZE
      BY <1>4 DEF Slots
    <2>2. /\ s[n + 1] = s[n] + f[n] /\ t[n + 1] = t[n] + g[n] /\ u[n + 1] = u[n] + d[n]
          /\ s[n] \in Int /\ t[n] \in Int /\ u[n] \in Int
          /\ f[n] \in Int /\ g[n] \in Int /\ d[n] \in Int
          /\ g[n] <= f[n] + d[n] /\ t[n] <= s[n] + u[n]
      BY <1>1, <1>2, <1>3, <1>6, <2>1
    <2> QED BY <2>1, <2>2
  <1> HIDE DEF T
  <1>7. \A n \in 0 .. WINDOW_SIZE : n \in T
    BY <1>4, <1>5, <1>6, InductionTo
  <1>8. WINDOW_SIZE \in 0 .. WINDOW_SIZE
    BY <1>4
  <1> QED BY <1>1, <1>2, <1>3, <1>7, <1>8 DEF T

\* Only one entry has a value.
OnlyAt(i, n) == [j \in Slots |-> IF j = i THEN n ELSE 0]
LEMMA SumOfOne ==
    ASSUME NEW i \in Slots, NEW n \in Int
    PROVE  OnlyAt(i, n) \in [Slots -> Int] /\ SumOver(OnlyAt(i, n)) = n
  <1>1. OnlyAt(i, n) \in [Slots -> Int]
    BY DEF OnlyAt
  <1>2. PICK s \in [0 .. WINDOW_SIZE -> Int] :
              /\ s[0] = 0 /\ \A k \in Slots : s[k + 1] = s[k] + OnlyAt(i, n)[k]
              /\ SumOver(OnlyAt(i, n)) = s[WINDOW_SIZE]
    BY <1>1, PartialSums
  <1>3. WINDOW_SIZE \in Nat /\ i \in 0 .. WINDOW_SIZE - 1
    BY WindowAssumption DEF Slots
  <1> DEFINE T == {k \in 0 .. WINDOW_SIZE : s[k] = IF k > i THEN n ELSE 0}
  <1>4. 0 \in T
    BY <1>2, <1>3
  <1>5. ASSUME NEW k \in 0 .. WINDOW_SIZE - 1, k \in T PROVE k + 1 \in T
    <2>1. k \in Slots /\ k + 1 \in 0 .. WINDOW_SIZE
      BY <1>3 DEF Slots
    <2>2. s[k + 1] = s[k] + IF k = i THEN n ELSE 0
      BY <1>2, <2>1 DEF OnlyAt
    <2>3. s[k] = IF k > i THEN n ELSE 0
      BY <1>5
    <2> QED BY <1>3, <2>1, <2>2, <2>3
  <1> HIDE DEF T
  <1>6. \A k \in 0 .. WINDOW_SIZE : k \in T
    BY <1>3, <1>4, <1>5, InductionTo
  <1>7. WINDOW_SIZE \in 0 .. WINDOW_SIZE /\ WINDOW_SIZE > i
    BY <1>3
  <1>8. s[WINDOW_SIZE] = n
    BY <1>6, <1>7 DEF T
  <1> QED BY <1>1, <1>2, <1>8

\* Counting the members of a set of entries.
MarkOf(S) == [i \in Slots |-> IF i \in S THEN 1 ELSE 0]
LEMMA SumIsCardinality ==
    ASSUME NEW S \in SUBSET Slots
    PROVE  MarkOf(S) \in [Slots -> Int] /\ SumOver(MarkOf(S)) = Cardinality(S)
  <1>1. MarkOf(S) \in [Slots -> Int]
    BY DEF MarkOf
  <1>2. PICK s \in [0 .. WINDOW_SIZE -> Int] :
              /\ s[0] = 0 /\ \A k \in Slots : s[k + 1] = s[k] + MarkOf(S)[k]
              /\ SumOver(MarkOf(S)) = s[WINDOW_SIZE]
    BY <1>1, PartialSums
  <1>3. WINDOW_SIZE \in Nat
    BY WindowAssumption
  <1>10. \A i \in S : i \in 0 .. WINDOW_SIZE - 1
    BY DEF Slots
  <1> DEFINE Below(k) == S \cap (0 .. k - 1)
             T == {k \in 0 .. WINDOW_SIZE : IsFiniteSet(Below(k)) /\ s[k] = Cardinality(Below(k))}
  <1>4. 0 \in T
    <2>1. Below(0) = {}
      BY <1>10
    <2> QED BY <1>2, <1>3, <2>1, FS_EmptySet
  <1>5. ASSUME NEW k \in 0 .. WINDOW_SIZE - 1, k \in T PROVE k + 1 \in T
    <2>1. k \in Slots /\ k + 1 \in 0 .. WINDOW_SIZE /\ k \in 0 .. WINDOW_SIZE
      BY <1>3 DEF Slots
    <2>2. s[k + 1] = s[k] + (IF k \in S THEN 1 ELSE 0) /\ s[k] \in Int
      BY <1>2, <2>1 DEF MarkOf
    <2>3. IsFiniteSet(Below(k)) /\ s[k] = Cardinality(Below(k))
      BY <1>5
    <2>4. CASE k \in S
      <3>1. Below(k + 1) = Below(k) \cup {k} /\ k \notin Below(k)
        BY <1>10, <2>4, <1>3
      <3> HIDE DEF Below
      <3>2. IsFiniteSet(Below(k + 1)) /\ Cardinality(Below(k + 1)) = Cardinality(Below(k)) + 1
        BY <3>1, <2>3, FS_AddElement
      <3> QED BY <2>1, <2>2, <2>3, <2>4, <3>2
    <2>5. CASE k \notin S
      <3>1. Below(k + 1) = Below(k)
        BY <1>10, <2>5, <1>3
      <3> HIDE DEF Below
      <3> QED BY <2>1, <2>2, <2>3, <2>5, <3>1
    <2> QED BY <2>4, <2>5
  <1>6. S = Below(WINDOW_SIZE)
    BY <1>10
  <1> HIDE DEF T, Below
  <1>7. \A k \in 0 .. WINDOW_SIZE : k \in T
    BY <1>3, <1>4, <1>5, InductionTo
  <1>8. WINDOW_SIZE \in 0 .. WINDOW_SIZE
    BY <1>3
  <1>9. s[WINDOW_SIZE] = Cardinality(S)
    BY <1>6, <1>7, <1>8 DEF T
  <1> QED BY <1>1, <1>2, <1>9

\* What an entry adds to the two totals.
Mark(c) == IF c.retransmit THEN 1 ELSE 0
Bytes(c) == IF c.retransmit THEN c.retx_payload ELSE 0

RetransTypes == retrans \in [pdus : Int, bytes : Int]
\* rlc_am_ack_pdu tells a pending PDU by its retx_payload, the others by its flag.
PendingMarked == \A i \in Slots : pdu[i].mem /\ ctl[i].retx_payload # 0 => ctl[i].retransmit
RetransInv == RetransTypes /\ PendingMarked /\ RetransCoversPending

\* An entry of the buffer adds numbers.
LEMMA EntryAdds ==
    ASSUME NEW c \in Entry
    PROVE  /\ Mark(c) \in {0, 1} /\ Bytes(c) \in Nat
           /\ c.retx_payload \in Nat /\ Bytes(c) <= c.retx_payload
  BY DEF Entry, Mark, Bytes

\* The totals in terms of what each entry adds.
LEMMA TotalsAre ==
    ASSUME TxTypeOK
    PROVE  /\ [i \in Slots |-> Mark(ctl[i])] \in [Slots -> Int]
           /\ [i \in Slots |-> Bytes(ctl[i])] \in [Slots -> Int]
           /\ PendingBytes = [i \in Slots |-> Bytes(ctl[i])]
           /\ Cardinality(PendingSlots) = SumOver([i \in Slots |-> Mark(ctl[i])])
  <1>1. \A i \in Slots : ctl[i] \in Entry
    BY DEF TxTypeOK
  <1>2. \A i \in Slots : Mark(ctl[i]) \in Int /\ Bytes(ctl[i]) \in Int
    BY <1>1, EntryAdds
  <1>3. PendingBytes = [i \in Slots |-> Bytes(ctl[i])]
    BY DEF PendingBytes, Bytes
  <1>4. MarkOf(PendingSlots) = [i \in Slots |-> Mark(ctl[i])]
    BY DEF MarkOf, PendingSlots, Mark
  <1>5. PendingSlots \in SUBSET Slots
    BY DEF PendingSlots
  <1>6. Cardinality(PendingSlots) = SumOver([i \in Slots |-> Mark(ctl[i])])
    BY <1>4, <1>5, SumIsCardinality
  <1> QED BY <1>2, <1>3, <1>6

\* A step that adds to the totals what it adds to each entry, or more.
LEMMA TotalsMove ==
    ASSUME TxTypeOK, TxTypeOK', RetransInv, RetransTypes',
           NEW p \in [Slots -> Int], NEW b \in [Slots -> Int],
           retrans'.pdus >= retrans.pdus + SumOver(p), retrans'.bytes >= retrans.bytes + SumOver(b),
           \A i \in Slots : /\ Mark(ctl'[i]) <= Mark(ctl[i]) + p[i]
                            /\ Bytes(ctl'[i]) <= Bytes(ctl[i]) + b[i]
    PROVE  RetransCoversPending'
  <1> DEFINE m == [i \in Slots |-> Mark(ctl[i])]
             n == [i \in Slots |-> Mark(ctl'[i])]
             f == [i \in Slots |-> Bytes(ctl[i])]
             g == [i \in Slots |-> Bytes(ctl'[i])]
  <1>1. /\ m \in [Slots -> Int] /\ f \in [Slots -> Int]
        /\ PendingBytes = f /\ Cardinality(PendingSlots) = SumOver(m)
    BY TotalsAre
  <1>2. /\ n \in [Slots -> Int] /\ g \in [Slots -> Int]
        /\ PendingBytes' = g /\ Cardinality(PendingSlots') = SumOver(n)
    <2>1. \A i \in Slots : ctl'[i] \in Entry
      BY DEF TxTypeOK
    <2>2. \A i \in Slots : Mark(ctl'[i]) \in Int /\ Bytes(ctl'[i]) \in Int
      BY <2>1, EntryAdds
    <2>3. PendingBytes' = g
      BY DEF PendingBytes, Bytes
    <2>4. MarkOf(PendingSlots') = n
      BY DEF MarkOf, PendingSlots, Mark
    <2>5. PendingSlots' \in SUBSET Slots
      BY DEF PendingSlots
    <2>6. Cardinality(PendingSlots') = SumOver(n)
      BY <2>4, <2>5, SumIsCardinality
    <2> QED BY <2>2, <2>3, <2>6
  <1>3. \A i \in Slots : n[i] <= m[i] + p[i] /\ g[i] <= f[i] + b[i]
    OBVIOUS
  <1> HIDE DEF m, n, f, g
  <1>4. /\ SumOver(m) \in Int /\ SumOver(n) \in Int /\ SumOver(p) \in Int
        /\ SumOver(n) <= SumOver(m) + SumOver(p)
    BY <1>1, <1>2, <1>3, SumsMove
  <1>5. /\ SumOver(f) \in Int /\ SumOver(g) \in Int /\ SumOver(b) \in Int
        /\ SumOver(g) <= SumOver(f) + SumOver(b)
    BY <1>1, <1>2, <1>3, SumsMove
  <1>6. retrans.pdus >= SumOver(m) /\ retrans.bytes >= SumOver(f)
    BY <1>1 DEF RetransInv, RetransCoversPending
  <1>7. /\ retrans.pdus \in Int /\ retrans.bytes \in Int
        /\ retrans'.pdus \in Int /\ retrans'.bytes \in Int
    BY DEF RetransInv, RetransTypes
  <1>8. retrans'.pdus >= SumOver(n) /\ retrans'.bytes >= SumOver(g)
    BY <1>4, <1>5, <1>6, <1>7
  <1> QED BY <1>2, <1>8 DEF RetransCoversPending

\* The same for a step that makes nothing pending but perhaps entry i.
LEMMA OneMoves ==
    ASSUME TxTypeOK, TxTypeOK', RetransInv, RetransTypes',
           NEW i \in Slots, NEW p \in Int, NEW b \in Int,
           retrans'.pdus >= retrans.pdus + p, retrans'.bytes >= retrans.bytes + b,
           Mark(ctl'[i]) <= Mark(ctl[i]) + p, Bytes(ctl'[i]) <= Bytes(ctl[i]) + b,
           \A j \in Slots : j # i => /\ Mark(ctl'[j]) <= Mark(ctl[j])
                                     /\ Bytes(ctl'[j]) <= Bytes(ctl[j])
    PROVE  RetransCoversPending'
  <1>1. /\ OnlyAt(i, p) \in [Slots -> Int] /\ SumOver(OnlyAt(i, p)) = p
        /\ OnlyAt(i, b) \in [Slots -> Int] /\ SumOver(OnlyAt(i, b)) = b
    BY SumOfOne
  <1>2. ASSUME NEW j \in Slots
        PROVE  /\ Mark(ctl'[j]) <= Mark(ctl[j]) + OnlyAt(i, p)[j]
               /\ Bytes(ctl'[j]) <= Bytes(ctl[j]) + OnlyAt(i, b)[j]
    <2>1. ctl[j] \in Entry /\ ctl'[j] \in Entry
      BY DEF TxTypeOK
    <2>2. OnlyAt(i, p)[j] = (IF j = i THEN p ELSE 0) /\ OnlyAt(i, b)[j] = (IF j = i THEN b ELSE 0)
      BY DEF OnlyAt
    <2>3. /\ Mark(ctl[j]) \in Int /\ Bytes(ctl[j]) \in Int
          /\ Mark(ctl'[j]) \in Int /\ Bytes(ctl'[j]) \in Int
      BY <2>1, EntryAdds
    <2> QED BY <2>2, <2>3
  <1> QED BY <1>1, <1>2, TotalsMove

\* Giving PDUs up changes neither total nor flag.
LEMMA GivenUpAdds ==
    ASSUME TxTypeOK, NEW grant, NEW i \in Slots
    PROVE  /\ GivenUp(grant)[i].retransmit = ctl[i].retransmit
           /\ GivenUp(grant)[i].retx_payload = ctl[i].retx_payload
           /\ Mark(GivenUp(grant)[i]) = Mark(ctl[i]) /\ Bytes(GivenUp(grant)[i]) = Bytes(ctl[i])
  <1>1. ctl[i] \in Entry
    BY DEF TxTypeOK
  <1>2. GivenUp(grant)[i] = ctl[i] \/ GivenUp(grant)[i] = [ctl[i] EXCEPT !.max_retransmit = TRUE]
    BY DEF GivenUp
  <1> QED BY <1>1, <1>2 DEF Entry, Mark, Bytes

\* A retransmission takes off the totals what it takes off its entry.
LEMMA RetransRetransmit ==
    ASSUME TxTypeOK, TxTypeOK', RetransInv, NEW grant \in DataGrants, Retransmit(grant)
    PROVE  RetransInv'
  <1>0. grant \in Nat /\ pdu' = pdu
    BY TxAssumption DEF Retransmit
  <1>1. ASSUME NEW i \in Slots, NEW e, NEW p \in Int, NEW b \in Int,
               ctl' = [GivenUp(grant) EXCEPT ![i] = e],
               retrans' = [pdus |-> retrans.pdus + p, bytes |-> retrans.bytes + b],
               e.retx_payload # 0 => e.retransmit,
               Mark(e) <= Mark(ctl[i]) + p, Bytes(e) <= Bytes(ctl[i]) + b
        PROVE  RetransInv'
    <2>1. retrans.pdus \in Int /\ retrans.bytes \in Int
      BY DEF RetransInv, RetransTypes
    <2>2. RetransTypes'
      BY <1>1, <2>1 DEF RetransTypes
    <2>3. ctl'[i] = e /\ \A j \in Slots : j # i => ctl'[j] = GivenUp(grant)[j]
      BY <1>1, GivenUpFits
    <2>4. PendingMarked'
      BY <1>0, <1>1, <2>3, GivenUpAdds DEF PendingMarked, RetransInv
    <2>5. retrans'.pdus = retrans.pdus + p /\ retrans'.bytes = retrans.bytes + b
      BY <1>1
    <2>6. \A j \in Slots : j # i => Mark(ctl'[j]) <= Mark(ctl[j]) /\ Bytes(ctl'[j]) <= Bytes(ctl[j])
      <3> SUFFICES ASSUME NEW j \in Slots, j # i
                   PROVE  Mark(ctl'[j]) <= Mark(ctl[j]) /\ Bytes(ctl'[j]) <= Bytes(ctl[j])
        OBVIOUS
      <3>1. ctl[j] \in Entry
        BY DEF TxTypeOK
      <3>2. Mark(ctl[j]) \in Int /\ Bytes(ctl[j]) \in Int
        BY <3>1, EntryAdds
      <3>3. Mark(ctl'[j]) = Mark(ctl[j]) /\ Bytes(ctl'[j]) = Bytes(ctl[j])
        BY <2>3, GivenUpAdds
      <3> QED BY <3>2, <3>3
    <2>7. Mark(ctl'[i]) <= Mark(ctl[i]) + p /\ Bytes(ctl'[i]) <= Bytes(ctl[i]) + b
      BY <1>1, <2>3
    <2>8. RetransCoversPending'
      <3>1. retrans'.pdus >= retrans.pdus + p /\ retrans'.bytes >= retrans.bytes + b
        BY <2>1, <2>5
      <3> QED BY <2>2, <2>6, <2>7, <3>1, OneMoves
    <2> QED BY <2>2, <2>4, <2>8 DEF RetransInv
  <1>2. CASE UNCHANGED <<ctl, retrans>>
    BY <1>0, <1>2 DEF RetransInv, RetransTypes, PendingMarked, RetransCoversPending, PendingBytes, PendingSlots
  <1>3. ASSUME NEW sn \in Retransmittable(grant)
        PROVE  /\ Slot(sn) \in Slots /\ GrantFits(sn, grant) /\ ctl[Slot(sn)] \in Entry
               /\ ctl[Slot(sn)].retransmit
    BY SlotInSlots DEF Retransmittable, Outstanding, Between, Due, TxTypeOK
  <1>4. ASSUME NEW sn \in Retransmittable(grant), RetransmitWhole(sn, grant), ~(UNCHANGED <<ctl, retrans>>)
        PROVE  RetransInv'
    <2>1. PICK i \in Slots : i = Slot(sn)
      BY <1>3
    <2>2. PICK c \in Entry : c = ctl[i] /\ c.retransmit
      BY <1>3, <2>1
    <2>3. /\ ctl' = [GivenUp(grant) EXCEPT ![i] = AfterWhole(i)]
          /\ retrans' = [pdus |-> retrans.pdus - 1, bytes |-> retrans.bytes - c.retx_payload]
      BY <1>4, <2>1, <2>2 DEF RetransmitWhole
    <2>4. PICK e : e = AfterWhole(i)
      OBVIOUS
    <2>5. e.retx_payload = 0 /\ ~e.retransmit
      BY <2>2, <2>4 DEF AfterWhole, Entry
    <2>6. c.retx_payload \in Nat /\ -c.retx_payload \in Int /\ Mark(c) = 1 /\ Bytes(c) = c.retx_payload
      BY <2>2 DEF Entry, Mark, Bytes
    <2>7. Mark(e) = 0 /\ Bytes(e) = 0
      BY <2>5 DEF Mark, Bytes
    <2>8. retrans' = [pdus |-> retrans.pdus + (-1), bytes |-> retrans.bytes + (-c.retx_payload)]
      BY <2>3, <2>6 DEF RetransInv, RetransTypes
    <2>9. Mark(e) <= Mark(c) + (-1) /\ Bytes(e) <= Bytes(c) + (-c.retx_payload)
      BY <2>6, <2>7
    <2>10. PICK p \in Int, b \in Int : p = -1 /\ b = -c.retx_payload
      BY <2>6
    <2>11. /\ ctl' = [GivenUp(grant) EXCEPT ![i] = e]
           /\ retrans' = [pdus |-> retrans.pdus + p, bytes |-> retrans.bytes + b]
           /\ e.retx_payload # 0 => e.retransmit
           /\ Mark(e) <= Mark(ctl[i]) + p /\ Bytes(e) <= Bytes(ctl[i]) + b
      BY <2>2, <2>3, <2>4, <2>5, <2>8, <2>9, <2>10
    <2> QED BY <1>1, <2>11
  <1>5. ASSUME NEW sn \in Retransmittable(grant), RetransmitSegment(sn, grant), ~(UNCHANGED <<ctl, retrans>>)
        PROVE  RetransInv'
    <2>1. PICK i \in Slots : i = Slot(sn)
      BY <1>3
    <2>2. PICK c \in Entry : c = ctl[i] /\ c.retransmit
      BY <1>3, <2>1
    <2>3. PICK n : n = SegmentSize(i, grant)
      OBVIOUS
    <2>4. /\ ctl' = [GivenUp(grant) EXCEPT ![i] = AfterSegment(i, n)]
          /\ retrans' = [pdus |-> retrans.pdus - IF c.retx_payload = n THEN 1 ELSE 0,
                         bytes |-> retrans.bytes - n]
          /\ SegmentAsserts(i, grant) /\ ~SendsWhole(sn, grant)
      BY <1>5, <2>1, <2>2, <2>3 DEF RetransmitSegment
    <2>5. grant >= SEGMENT_HEADER + 1
      BY <1>3, <2>4 DEF GrantFits
    <2>6. n \in Nat \ {0} /\ n <= c.retx_payload /\ c.retx_payload \in Nat
      BY <1>0, <2>2, <2>3, <2>4, <2>5, SegmentFits DEF Entry
    <2>7. PICK e : e = AfterSegment(i, n)
      OBVIOUS
    <2>8. e.retx_payload = c.retx_payload - n /\ e.retransmit = (c.retx_payload - n # 0)
      BY <2>2, <2>7 DEF AfterSegment, Entry
    <2>9. PICK p \in Int : p = IF c.retx_payload = n THEN -1 ELSE 0
      OBVIOUS
    <2>10. retrans' = [pdus |-> retrans.pdus + p, bytes |-> retrans.bytes + (-n)] /\ -n \in Int
      BY <2>4, <2>6, <2>9 DEF RetransInv, RetransTypes
    <2>11. Mark(c) = 1 /\ Bytes(c) = c.retx_payload
      BY <2>2 DEF Mark, Bytes
    <2>12. Mark(e) <= 1 + p /\ Bytes(e) <= c.retx_payload + (-n)
      <3>1. CASE c.retx_payload = n
        <4>1. c.retx_payload - n = 0 /\ p = -1 /\ 1 + p = 0 /\ c.retx_payload + (-n) = 0
          BY <2>6, <2>9, <3>1
        <4>2. ~e.retransmit
          BY <2>8, <4>1
        <4>3. Mark(e) = 0 /\ Bytes(e) = 0
          BY <4>2 DEF Mark, Bytes
        <4> QED BY <4>1, <4>3
      <3>2. CASE c.retx_payload # n
        BY <2>6, <2>8, <2>9, <3>2 DEF Mark, Bytes
      <3> QED BY <3>1, <3>2
    <2>13. e.retx_payload # 0 => e.retransmit
      BY <2>8
    <2> QED BY <1>1, <2>2, <2>4, <2>7, <2>10, <2>11, <2>12, <2>13
  <1> QED BY <1>2, <1>4, <1>5 DEF Retransmit

\* rlc_am_segment_10: the entry it takes has nothing to be sent again, and the totals stay.
LEMMA RetransNewPdu ==
    ASSUME TxTypeOK, TxTypeOK', RetransInv, NEW grant \in DataGrants, NewPdu(grant)
    PROVE  RetransInv'
  <1>1. PICK i \in Slots : i = Slot(vt_s)
    BY SlotInSlots DEF TxTypeOK
  <1>2. PICK new : pdu' = [pdu EXCEPT ![i] = new]
    BY <1>1 DEF NewPdu
  <1>3. PICK e : e = [Fresh EXCEPT !.transmitted = TRUE]
    OBVIOUS
  <1>4. ctl' = [AfterWalk(grant) EXCEPT ![i] = e] /\ retrans' = retrans
    BY <1>1, <1>3 DEF NewPdu
  <1>5. e.retx_payload = 0 /\ ~e.retransmit
    BY <1>3 DEF Fresh
  <1>6. /\ AfterWalk(grant) = ctl \/ AfterWalk(grant) = GivenUp(grant)
        /\ DOMAIN ctl = Slots /\ DOMAIN GivenUp(grant) = Slots
    BY DEF AfterWalk, TxTypeOK, GivenUp
  <1>7. ctl'[i] = e /\ \A j \in Slots : j # i => ctl'[j] = ctl[j] \/ ctl'[j] = GivenUp(grant)[j]
    BY <1>4, <1>6
  <1>8. \A j \in Slots : j # i => pdu'[j] = pdu[j]
    BY <1>2 DEF TxTypeOK
  <1>9. ASSUME NEW j \in Slots, j # i
        PROVE  /\ ctl'[j].retransmit = ctl[j].retransmit /\ ctl'[j].retx_payload = ctl[j].retx_payload
               /\ Mark(ctl'[j]) <= Mark(ctl[j]) /\ Bytes(ctl'[j]) <= Bytes(ctl[j])
    <2>1. ctl[j] \in Entry
      BY DEF TxTypeOK
    <2>2. Mark(ctl[j]) \in Int /\ Bytes(ctl[j]) \in Int
      BY <2>1, EntryAdds
    <2>3. CASE ctl'[j] = ctl[j]
      BY <2>2, <2>3
    <2>4. CASE ctl'[j] = GivenUp(grant)[j]
      BY <2>2, <2>4, GivenUpAdds
    <2> QED BY <1>7, <1>9, <2>3, <2>4
  <1>10. PendingMarked'
    BY <1>5, <1>7, <1>8, <1>9 DEF PendingMarked, RetransInv
  <1>11. RetransTypes'
    BY <1>4 DEF RetransTypes, RetransInv
  <1>12. Mark(ctl'[i]) = 0 /\ Bytes(ctl'[i]) = 0
    BY <1>5, <1>7 DEF Mark, Bytes
  <1>13. Mark(ctl'[i]) <= Mark(ctl[i]) + 0 /\ Bytes(ctl'[i]) <= Bytes(ctl[i]) + 0
    <2>1. ctl[i] \in Entry
      BY DEF TxTypeOK
    <2>2. Mark(ctl[i]) \in {0, 1} /\ Bytes(ctl[i]) \in Nat
      BY <2>1, EntryAdds
    <2> QED BY <1>12, <2>2
  <1>14. retrans'.pdus >= retrans.pdus + 0 /\ retrans'.bytes >= retrans.bytes + 0
    BY <1>4 DEF RetransInv, RetransTypes
  <1>15. RetransCoversPending'
    BY <1>9, <1>11, <1>13, <1>14, OneMoves
  <1> QED BY <1>10, <1>11, <1>15 DEF RetransInv

\* A walk that only gives PDUs up.
LEMMA RetransOnlyGiveUp ==
    ASSUME TxTypeOK, TxTypeOK', RetransInv, NEW grant \in DataGrants, OnlyGiveUp(grant)
    PROVE  RetransInv'
  <1>1. ctl' = GivenUp(grant) /\ retrans' = retrans /\ pdu' = pdu
    BY DEF OnlyGiveUp
  <1>2. \A i \in Slots : /\ ctl'[i].retransmit = ctl[i].retransmit
                         /\ ctl'[i].retx_payload = ctl[i].retx_payload
    BY <1>1, GivenUpAdds
  <1>3. PendingSlots' = PendingSlots /\ PendingBytes' = PendingBytes
    BY <1>2 DEF PendingSlots, PendingBytes
  <1> QED BY <1>1, <1>2, <1>3 DEF RetransInv, RetransTypes, PendingMarked, RetransCoversPending

\* What a call of rlc_am_ack_pdu or rlc_am_nack_pdu may do to entry i and to the totals.
FairEffect(i, e) ==
    /\ e.pdus \in Int /\ e.bytes \in Int
    /\ Mark(e.ctl) <= Mark(ctl[i]) + e.pdus /\ Bytes(e.ctl) <= Bytes(ctl[i]) + e.bytes
    /\ pdu[i].mem /\ e.ctl.retx_payload # 0 => e.ctl.retransmit

\* No call, or one that refuses.
LEMMA NoEffectIsFair ==
    ASSUME TxTypeOK, RetransInv, NEW i \in Slots, NEW ok
    PROVE  FairEffect(i, Effect(ctl[i], 0, 0, ok))
  <1>1. PICK c \in Entry : c = ctl[i]
    BY DEF TxTypeOK
  <1>2. Mark(c) \in {0, 1} /\ Bytes(c) \in Nat
    BY EntryAdds
  <1>3. PICK e : e = Effect(c, 0, 0, ok)
    OBVIOUS
  <1>4. e.ctl = c /\ e.pdus = 0 /\ e.bytes = 0
    BY <1>3 DEF Effect
  <1>5. pdu[i].mem /\ c.retx_payload # 0 => c.retransmit
    BY <1>1 DEF RetransInv, PendingMarked
  <1>6. FairEffect(i, e)
    BY <1>1, <1>2, <1>4, <1>5 DEF FairEffect
  <1> QED BY <1>1, <1>3, <1>6

\* An acknowledgement of a pending PDU takes its bytes off, and pending PDUs are marked.
LEMMA AckIsFair ==
    ASSUME TxTypeOK, RetransInv, NEW i \in Slots
    PROVE  FairEffect(i, AckPdu(i))
  <1>1. PICK c \in Entry : c = ctl[i]
    BY DEF TxTypeOK
  <1>2. Mark(c) \in {0, 1} /\ Bytes(c) \in Nat /\ c.retx_payload \in Nat
    BY EntryAdds
  <1>3. PICK base : base = [c EXCEPT !.ack = TRUE, !.transmitted = FALSE, !.retransmit = FALSE]
    OBVIOUS
  <1>4. base \in Entry /\ ~base.retransmit /\ base.retx_payload = c.retx_payload
    BY <1>3 DEF Entry
  <1>5. PICK e : e = AckPdu(i)
    OBVIOUS
  <1>6. CASE pdu[i].mem /\ c.retx_payload # 0
    <2>1. e.ctl = [base EXCEPT !.retx_payload = 0, !.holes = <<>>] /\ e.pdus = -1
          /\ e.bytes = -c.retx_payload
      BY <1>1, <1>3, <1>5, <1>6 DEF AckPdu, Effect
    <2>2. ~e.ctl.retransmit /\ e.ctl.retx_payload = 0
      BY <1>4, <2>1 DEF Entry
    <2>3. Mark(e.ctl) = 0 /\ Bytes(e.ctl) = 0
      BY <2>2 DEF Mark, Bytes
    <2>4. c.retransmit
      BY <1>1, <1>6 DEF RetransInv, PendingMarked
    <2>5. Mark(c) = 1 /\ Bytes(c) = c.retx_payload
      BY <2>4 DEF Mark, Bytes
    <2>6. FairEffect(i, e)
      BY <1>1, <1>2, <2>1, <2>2, <2>3, <2>5 DEF FairEffect
    <2> QED BY <1>5, <2>6
  <1>7. CASE ~(pdu[i].mem /\ c.retx_payload # 0)
    <2>1. e.ctl = base /\ e.pdus = 0 /\ e.bytes = 0
      BY <1>1, <1>3, <1>5, <1>7 DEF AckPdu, Effect
    <2>2. Mark(e.ctl) = 0 /\ Bytes(e.ctl) = 0
      BY <1>4, <2>1 DEF Mark, Bytes
    <2>3. ~(pdu[i].mem /\ e.ctl.retx_payload # 0)
      BY <1>4, <1>7, <2>1
    <2>4. FairEffect(i, e)
      BY <1>1, <1>2, <2>1, <2>2, <2>3 DEF FairEffect
    <2> QED BY <1>5, <2>4
  <1> QED BY <1>6, <1>7

\* A PDU made pending, again or anew, for size bytes.
LEMMA PendingIsFair ==
    ASSUME TxTypeOK, NEW i \in Slots, NEW holes, NEW size \in Nat, NEW soStart, NEW more, NEW ok
    PROVE  FairEffect(i, Pending(i, holes, size, soStart, more, ok))
  <1>1. PICK c \in Entry : c = ctl[i]
    BY DEF TxTypeOK
  <1>2. c.retx_payload \in Nat
    BY EntryAdds
  <1>3. PICK e : e = Pending(i, holes, size, soStart, more, ok)
    OBVIOUS
  <1>4. \E n : e.ctl = [c EXCEPT !.retransmit = TRUE, !.retx_payload = size, !.holes = holes,
                                 !.retx_hole_index = 1, !.nack_so_start = soStart,
                                 !.retx_count_next = n]
    BY <1>1, <1>3 DEF Pending, Effect
  <1>5. e.ctl.retransmit /\ e.ctl.retx_payload = size
    BY <1>4 DEF Entry
  <1>6. Mark(e.ctl) = 1 /\ Bytes(e.ctl) = size
    BY <1>5 DEF Mark, Bytes
  <1>7. CASE c.retransmit
    <2>1. e.pdus = 0 /\ e.bytes = size - c.retx_payload
      BY <1>1, <1>3, <1>7 DEF Pending, Effect
    <2>2. Mark(c) = 1 /\ Bytes(c) = c.retx_payload
      BY <1>7 DEF Mark, Bytes
    <2>3. FairEffect(i, e)
      BY <1>1, <1>2, <1>5, <1>6, <2>1, <2>2 DEF FairEffect
    <2> QED BY <1>3, <2>3
  <1>8. CASE ~c.retransmit
    <2>1. e.pdus = 1 /\ e.bytes = size
      BY <1>1, <1>3, <1>8 DEF Pending, Effect
    <2>2. Mark(c) = 0 /\ Bytes(c) = 0
      BY <1>8 DEF Mark, Bytes
    <2>3. FairEffect(i, e)
      BY <1>1, <1>2, <1>5, <1>6, <2>1, <2>2 DEF FairEffect
    <2> QED BY <1>3, <2>3
  <1> QED BY <1>7, <1>8

\* A NACK.
LEMMA NackIsFair ==
    ASSUME TxTypeOK, RetransInv, NEW i \in Slots, NEW ranges \in Seq(SoRange), NEW freed
    PROVE  FairEffect(i, NackPdu(i, ranges, freed))
  <1> DEFINE holes == AcceptedRanges(i, ranges)
  <1>1. pdu[i].payload \in Nat
    BY DEF TxTypeOK, Buffered
  <1>2. BytesOf(holes) \in Nat
    BY <1>1, AcceptedRangesFit, BytesOfFits
  <1> HIDE DEF holes
  <1>3. \/ \E so, more : NackPdu(i, ranges, freed) = Pending(i, <<>>, pdu[i].payload, so, more, TRUE)
        \/ \E so, more, ok : NackPdu(i, ranges, freed) = Pending(i, holes, BytesOf(holes), so, more, ok)
        \/ NackPdu(i, ranges, freed) = Effect(ctl[i], 0, 0, FALSE)
    <2> DEFINE whole == pdu[i].mem /\ i \notin freed /\ ~ctl[i].max_retransmit /\ ranges = <<>> /\ ~ctl[i].ack
               part == pdu[i].mem /\ i \notin freed /\ ~ctl[i].max_retransmit /\ ranges # <<>> /\ holes # <<>>
    <2>1. CASE whole
      BY <2>1 DEF NackPdu
    <2>2. CASE part
      BY <2>2 DEF NackPdu, holes
    <2>3. CASE ~whole /\ ~part
      BY <2>3 DEF NackPdu, holes
    <2> QED BY <2>1, <2>2, <2>3
  <1>4. ASSUME NEW so, NEW more, NackPdu(i, ranges, freed) = Pending(i, <<>>, pdu[i].payload, so, more, TRUE)
        PROVE  FairEffect(i, NackPdu(i, ranges, freed))
    BY <1>1, <1>4, PendingIsFair
  <1>5. ASSUME NEW so, NEW more, NEW ok,
               NackPdu(i, ranges, freed) = Pending(i, holes, BytesOf(holes), so, more, ok)
        PROVE  FairEffect(i, NackPdu(i, ranges, freed))
    BY <1>2, <1>5, PendingIsFair
  <1> QED BY <1>3, <1>4, <1>5, NoEffectIsFair

\* A STATUS PDU: the totals move by the sum of what the calls do to the entries.
LEMMA RetransReceiveStatus ==
    ASSUME TxTypeOK, TxTypeOK', RetransInv, NEW st, StatusOK(st), ReceiveStatus(st)
    PROVE  RetransInv'
  <1>1. \A sn \in DOMAIN st.nacks : st.nacks[sn] \in Seq(SoRange)
    BY DEF StatusOK
  <1>2. CASE UNCHANGED <<ctl, pdu, retrans>>
    BY <1>2 DEF RetransInv, RetransTypes, PendingMarked, RetransCoversPending, PendingBytes, PendingSlots
  <1>3. CASE ApplyStatus(st)
    <2>1. PICK freed, walked :
             /\ ctl' = [i \in Slots |-> [j \in Slots |-> StatusEffect(st, j, freed, walked)][i].ctl]
             /\ pdu' = [i \in Slots |-> [pdu[i] EXCEPT !.mem = @ /\ i \notin freed]]
             /\ retrans' = [pdus |-> retrans.pdus + SumOver([i \in Slots |-> [j \in Slots |-> StatusEffect(st, j, freed, walked)][i].pdus]),
                            bytes |-> retrans.bytes + SumOver([i \in Slots |-> [j \in Slots |-> StatusEffect(st, j, freed, walked)][i].bytes])]
      BY <1>3 DEF ApplyStatus
    <2>2. ASSUME NEW i \in Slots PROVE FairEffect(i, StatusEffect(st, i, freed, walked))
      <3>1. \/ StatusEffect(st, i, freed, walked) = AckPdu(i)
            \/ StatusEffect(st, i, freed, walked) = Effect(ctl[i], 0, 0, TRUE)
            \/ \E sn \in DOMAIN st.nacks :
                  StatusEffect(st, i, freed, walked) = NackPdu(i, st.nacks[sn], freed)
        BY DEF StatusEffect
      <3> QED BY <1>1, <3>1, AckIsFair, NackIsFair, NoEffectIsFair
    <2>3. PICK eff : eff = [j \in Slots |-> StatusEffect(st, j, freed, walked)]
      OBVIOUS
    <2>4. PICK p, b : p = [i \in Slots |-> eff[i].pdus] /\ b = [i \in Slots |-> eff[i].bytes]
      OBVIOUS
    <2>5. /\ ctl' = [i \in Slots |-> eff[i].ctl]
          /\ retrans' = [pdus |-> retrans.pdus + SumOver(p), bytes |-> retrans.bytes + SumOver(b)]
      BY <2>1, <2>3, <2>4
    <2>6. \A i \in Slots : FairEffect(i, eff[i])
      BY <2>2, <2>3
    <2>7. \A i \in Slots :
             /\ eff[i].pdus \in Int /\ eff[i].bytes \in Int
             /\ Mark(eff[i].ctl) <= Mark(ctl[i]) + eff[i].pdus
             /\ Bytes(eff[i].ctl) <= Bytes(ctl[i]) + eff[i].bytes
             /\ pdu[i].mem /\ eff[i].ctl.retx_payload # 0 => eff[i].ctl.retransmit
      BY <2>6 DEF FairEffect
    <2>8. p \in [Slots -> Int] /\ b \in [Slots -> Int]
      BY <2>4, <2>7
    <2>9. \A i \in Slots : /\ Mark(ctl'[i]) <= Mark(ctl[i]) + p[i]
                           /\ Bytes(ctl'[i]) <= Bytes(ctl[i]) + b[i]
      BY <2>4, <2>5, <2>7
    <2>10. SumOver(p) \in Int /\ SumOver(b) \in Int
      <3>2. PICK s \in [0 .. WINDOW_SIZE -> Int] : SumOver(p) = s[WINDOW_SIZE]
        BY <2>8, PartialSums
      <3>3. PICK t \in [0 .. WINDOW_SIZE -> Int] : SumOver(b) = t[WINDOW_SIZE]
        BY <2>8, PartialSums
      <3> QED BY <3>2, <3>3, WindowAssumption
    <2>11. retrans.pdus \in Int /\ retrans.bytes \in Int
      BY DEF RetransInv, RetransTypes
    <2>12. RetransTypes'
      BY <2>5, <2>10, <2>11 DEF RetransTypes
    <2>13. retrans'.pdus >= retrans.pdus + SumOver(p) /\ retrans'.bytes >= retrans.bytes + SumOver(b)
      BY <2>5, <2>10, <2>11
    <2>14. RetransCoversPending'
      BY <2>8, <2>9, <2>12, <2>13, TotalsMove
    <2>15. PendingMarked'
      <3> SUFFICES ASSUME NEW i \in Slots, pdu'[i].mem, ctl'[i].retx_payload # 0
                   PROVE  ctl'[i].retransmit
        BY DEF PendingMarked
      <3>1. pdu[i] \in Buffered /\ pdu'[i] = [pdu[i] EXCEPT !.mem = pdu[i].mem /\ i \notin freed]
        BY <2>1 DEF TxTypeOK
      <3>2. pdu[i].mem
        BY <3>1 DEF Buffered
      <3> QED BY <2>5, <2>7, <3>2
    <2> QED BY <2>12, <2>14, <2>15 DEF RetransInv
  <1> QED BY <1>2, <1>3 DEF ReceiveStatus

\* The walk down from VT(S) finds the highest of the PDUs it looks for.
LEMMA HighestIn ==
    ASSUME TxTypeOK, NEW S \in SUBSET SN, S # {}
    PROVE  HighestSn(S) \in S
  <1>1. vt_a \in SN
    BY DEF TxTypeOK
  <1>2. \A sn \in S : DiffSn(sn, vt_a) \in Nat /\ SN_MODULO - DiffSn(sn, vt_a) \in Nat
    BY <1>1, WindowAssumption DEF SN, SN_MODULO, DiffSn
  <1> DEFINE D == {SN_MODULO - DiffSn(sn, vt_a) : sn \in S}
  <1>3. D \in SUBSET Nat /\ D # {}
    BY <1>2, Zenon
  <1>4. PICK d \in D : \A y \in D : d <= y
    BY <1>3, SmallestExists, Zenon
  <1>5. PICK m \in S : d = SN_MODULO - DiffSn(m, vt_a)
    OBVIOUS
  <1>6. SN_MODULO \in Nat
    BY WindowAssumption DEF SN_MODULO
  <1>7. \A y \in S : DiffSn(y, vt_a) <= DiffSn(m, vt_a)
    <2> TAKE y \in S
    <2>1. d <= SN_MODULO - DiffSn(y, vt_a)
      BY <1>4
    <2> QED BY <1>2, <1>5, <1>6, <2>1
  <1> QED BY <1>7, Zenon DEF HighestSn

\* t-PollRetransmit adds the whole PDU, even one that is pending already.
LEMMA RetransPollRetransmitExpiry ==
    ASSUME TxTypeOK, TxTypeOK', RetransInv, PollRetransmitExpiry
    PROVE  RetransInv'
  <1>0. pdu' = pdu
    BY DEF PollRetransmitExpiry
  <1>1. CASE UNCHANGED <<ctl, retrans>>
    BY <1>0, <1>1 DEF RetransInv, RetransTypes, PendingMarked, RetransCoversPending, PendingBytes, PendingSlots
  <1>2. CASE Unacked # {} /\ ReconsiderPdu(Slot(HighestSn(Unacked))) /\ ~(UNCHANGED <<ctl, retrans>>)
    <2>1. PICK i \in Slots : i = Slot(HighestSn(Unacked))
      <3>1. Unacked \in SUBSET SN
        BY DEF Unacked, Outstanding, Between
      <3> QED BY <1>2, <3>1, HighestIn, SlotInSlots
    <2>2. PICK c \in Entry, n \in Nat : c = ctl[i] /\ n = pdu[i].payload
      BY DEF TxTypeOK, Buffered
    <2>3. PICK e : e = [c EXCEPT !.retransmit = TRUE, !.retx_payload = n,
                                 !.retx_count_next = IF c.retx_count = c.retx_count_next
                                                     THEN c.retx_count_next + 1
                                                     ELSE c.retx_count_next]
      OBVIOUS
    <2>4. /\ ctl' = [ctl EXCEPT ![i] = e]
          /\ retrans' = [pdus |-> retrans.pdus + 1, bytes |-> retrans.bytes + n]
      BY <1>2, <2>1, <2>2, <2>3 DEF ReconsiderPdu
    <2>5. e.retransmit /\ e.retx_payload = n
      BY <2>3 DEF Entry
    <2>6. Mark(e) = 1 /\ Bytes(e) = n
      BY <2>5 DEF Mark, Bytes
    <2>7. retrans.pdus \in Int /\ retrans.bytes \in Int
      BY DEF RetransInv, RetransTypes
    <2>8. RetransTypes'
      BY <2>4, <2>7 DEF RetransTypes
    <2>9. ctl'[i] = e /\ \A j \in Slots : j # i => ctl'[j] = ctl[j]
      BY <2>4 DEF TxTypeOK
    <2>10. PendingMarked'
      BY <1>0, <2>5, <2>9 DEF PendingMarked, RetransInv
    <2>11. \A j \in Slots : /\ Mark(ctl[j]) \in {0, 1} /\ Bytes(ctl[j]) \in Nat
      BY EntryAdds DEF TxTypeOK
    <2>12. /\ Mark(ctl'[i]) <= Mark(ctl[i]) + 1 /\ Bytes(ctl'[i]) <= Bytes(ctl[i]) + n
           /\ \A j \in Slots : j # i => Mark(ctl'[j]) <= Mark(ctl[j]) /\ Bytes(ctl'[j]) <= Bytes(ctl[j])
      BY <2>6, <2>9, <2>11
    <2>13. retrans'.pdus >= retrans.pdus + 1 /\ retrans'.bytes >= retrans.bytes + n
      BY <2>4, <2>7
    <2>14. RetransCoversPending'
      BY <2>8, <2>12, <2>13, OneMoves
    <2> QED BY <2>8, <2>10, <2>14 DEF RetransInv
  <1> QED BY <1>1, <1>2 DEF PollRetransmitExpiry

\* Nothing is pending at first.
LEMMA RetransInit == TxInit => RetransInv
  <1> SUFFICES ASSUME TxInit PROVE RetransInv
    OBVIOUS
  <1>1. \A i \in Slots : ~ctl[i].retransmit /\ ctl[i].retx_payload = 0
    BY DEF TxInit, Fresh
  <1>2. 0 \in Slots
    BY WindowAssumption DEF Slots
  <1>3. PendingSlots = {} /\ PendingBytes = OnlyAt(0, 0)
    BY <1>1 DEF PendingSlots, PendingBytes, OnlyAt
  <1>4. SumOver(PendingBytes) = 0 /\ Cardinality(PendingSlots) = 0
    BY <1>2, <1>3, SumOfOne, FS_EmptySet
  <1>5. retrans = [pdus |-> 0, bytes |-> 0]
    BY DEF TxInit
  <1> QED BY <1>1, <1>4, <1>5 DEF RetransInv, RetransTypes, PendingMarked, RetransCoversPending

\* Every step of the transmitter keeps the totals above what is pending.
LEMMA RetransNext ==
    TxTypeOK /\ TxTypeOK' /\ RetransInv /\ [TxStep]_txVars => RetransInv'
  <1> SUFFICES ASSUME TxTypeOK, TxTypeOK', RetransInv, [TxStep]_txVars PROVE RetransInv'
    OBVIOUS
  <1>1. CASE UNCHANGED <<pdu, ctl, retrans>>
    BY <1>1 DEF RetransInv, RetransTypes, PendingMarked, RetransCoversPending, PendingBytes, PendingSlots
  <1>2. CASE UNCHANGED txVars
    BY <1>1, <1>2 DEF txVars
  <1>3. ASSUME NEW size, DataReq(size) PROVE RetransInv'
    BY <1>1, <1>3 DEF DataReq
  <1>4. ASSUME NEW m, MacTakes(m) PROVE RetransInv'
    BY <1>1, <1>4 DEF MacTakes
  <1> QED BY <1>2, <1>3, <1>4, RetransRetransmit, RetransNewPdu, RetransOnlyGiveUp,
             RetransReceiveStatus, RetransPollRetransmitExpiry DEF TxStep, TxProgress

(***************************************************************************)
(* Whatever STATUS PDUs and timers do, retrans_num_pdus and                *)
(* retrans_num_bytes_to_retransmit never fall below what the entries hold: *)
(* rlc_am_get_pdus looks for every PDU that is to be sent again.           *)
(***************************************************************************)
THEOREM TxRetransCoversPending == TxSpec => []RetransCoversPending
  <1>1. TxSpec => []RetransInv
    BY TxTypeCorrect, RetransInit, RetransNext, NextIsStep, PTL DEF TxSpec
  <1>2. RetransInv => RetransCoversPending
    BY DEF RetransInv
  <1> QED BY <1>1, <1>2, PTL
=============================================================================
