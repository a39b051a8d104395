--------------------------- MODULE RlcAmLinkProof ----------------------------
(***************************************************************************)
(* Proofs about the bearer between two acknowledged-mode peers: its types, *)
(* that the two windows agree, that no byte is lost, and that the bearer   *)
(* implements the byte pipe of RlcAmService, for every window size, every  *)
(* configuration and whatever MAC loses or reorders, as long as STATUS     *)
(* PDUs arrive in order and every PDU that is sent is whole (no segment)   *)
(* and full (no filler).                                                   *)
(***************************************************************************)
EXTENDS RlcAmLink, RlcAmTxProof

-----------------------------------------------------------------------------
(***************************************************************************)
(* The invariant.  Everything the receiver still waits for is in the block *)
(* of its PDU, these PDUs cut the bytes of the SDUs into consecutive       *)
(* pieces, what is on its way and what is stored is a copy of them, and    *)
(* the STATUS PDUs on their way acknowledge nothing beyond VR(R), each at  *)
(* least as much as the one before.                                        *)
(***************************************************************************)
\* No PDU on its way is a segment, and every byte of it was written.
WholePdus == \A m \in data : ~m.rf /\ m.filler = 0

First(sn) == pdu[Slot(sn)].first
Payload(sn) == pdu[Slot(sn)].payload

\* The bytes that left the transmission buffer.
Sent == taken - sdu_occupancy

\* Where the PDU of sn begins; that of VT(S) will begin with the next byte.
Start(sn) == IF sn = vt_s THEN Sent ELSE First(sn)

\* The PDUs that were sent and are not behind VR(R).
Expected == Between(vr_r, vt_s)

Pieces ==
    \A sn \in Expected :
        /\ pdu[Slot(sn)].mem
        /\ Start(NextSn(sn)) = First(sn) + Payload(sn)
        /\ First(sn) + Payload(sn) <= Sent

\* The element of the reception buffer that the whole PDU sn becomes.
Whole(sn) ==
    [sn |-> sn, so |-> 0, first |-> First(sn), len |-> Payload(sn), filler |-> 0, rf |-> FALSE,
     lsf |-> FALSE, all |-> TRUE, reassembled |-> "NO"]

InFlight ==
    \A m \in data :
        /\ ~m.rf /\ m.so = 0 /\ m.filler = 0 /\ m.lsf = FALSE
        /\ DiffSn(vt_s, m.sn) \in 1 .. WINDOW_SIZE
        /\ m.sn \in Expected => m.first = First(m.sn) /\ m.len = Payload(m.sn)

Buffer ==
    \A e \in receiver_buffer :
        /\ e.sn \in SN /\ DiffSn(e.sn, vr_r) \in 1 .. DiffSn(vr_h, vr_r) - 1
        /\ e = Whole(e.sn)

\* VT(A) <= VR(R) <= VR(MS) <= VR(H) <= VT(S), and VR(X) between VR(R) and VR(H).
Order ==
    /\ DiffSn(vr_r, vt_a) <= DiffSn(vt_s, vt_a)
    /\ DiffSn(vr_ms, vr_r) <= DiffSn(vr_h, vr_r)
    /\ DiffSn(vr_h, vr_r) <= DiffSn(vt_s, vr_r)
    /\ Missing(vr_ms)
    /\ t_reordering => vr_x \in SN /\ DiffSn(vr_x, vr_r) \in 1 .. DiffSn(vr_h, vr_r)

\* n bytes from byte a on.
BytesFrom(a, n) == [k \in 1 .. n |-> a + k - 1]

Delivered == delivered = BytesFrom(0, Start(vr_r))

\* A report of whole PDUs.
Report ==
    {st \in [ack_sn : SN, first_nack : SN \cup {Undefined},
             nacks : UNION {[S -> {<<>>}] : S \in SUBSET SN}] :
        st.first_nack \in SN => st.first_nack \in DOMAIN st.nacks}

Reports ==
    \A k \in DOMAIN status :
        /\ DiffSn(NewVtA(status[k]), vt_a) <= DiffSn(vr_r, vt_a)
        /\ \A j \in 1 .. k : DiffSn(NewVtA(status[j]), vt_a) <= DiffSn(NewVtA(status[k]), vt_a)

Flags == {"POLL", "REORDERING"} \cup NoTxMask

RxTypes ==
    /\ vr_r \in SN /\ vr_mr \in SN /\ vr_ms \in SN /\ vr_h \in SN
    /\ vr_x \in SN \cup {Undefined} /\ sn_delayed \in SN \cup {Undefined}
    /\ t_reordering \in BOOLEAN
    /\ status_requested \subseteq Flags
    /\ status \in Seq(Report) /\ Len(status) <= MaxStatus

TxInv == TxTypeOK /\ TxWindow

LinkInv ==
    TxInv /\ RxTypes /\ Order /\ Pieces /\ InFlight /\ Buffer /\ Delivered /\ Reports

-----------------------------------------------------------------------------
(* Sequence numbers, seen from a base. *)

\* Sequence numbers are as far from the base as they are apart from it.
LEMMA DiffSame == \A a, x, y \in SN : (DiffSn(x, a) = DiffSn(y, a)) = (x = y)
  BY WindowAssumption DEF SN, SN_MODULO, DiffSn

\* Moving the base forward keeps the order of what lies ahead of it.
LEMMA DiffShift ==
    \A a, b, x, y \in SN : DiffSn(b, a) <= DiffSn(x, a) /\ DiffSn(x, a) <= DiffSn(y, a)
        => DiffSn(x, b) <= DiffSn(y, b)
  BY WindowAssumption DEF SN, SN_MODULO, DiffSn

\* What lies k ahead of the base.
LEMMA PlusDiff ==
    \A a \in SN : \A k \in 0 .. SN_MODULO - 1 : PlusSn(a, k) \in SN /\ DiffSn(PlusSn(a, k), a) = k
  BY WindowAssumption DEF SN, SN_MODULO, DiffSn, PlusSn

\* The next of what lies k ahead lies k + 1 ahead.
LEMMA NextPlus ==
    \A a \in SN : \A k \in 0 .. SN_MODULO - 2 : NextSn(PlusSn(a, k)) = PlusSn(a, k + 1)
  BY WindowAssumption DEF SN, SN_MODULO, NextSn, PlusSn

\* A cursor stops at the first member of the set ahead of it, or at the end.
LEMMA FirstInIs ==
    ASSUME NEW S, NEW a \in SN, NEW b \in SN
    PROVE  /\ FirstIn(S, a, b) \in SN
           /\ DiffSn(FirstIn(S, a, b), a) <= DiffSn(b, a)
           /\ FirstIn(S, a, b) = b \/ FirstIn(S, a, b) \in S
           /\ \A x \in S : x \in SN /\ DiffSn(x, a) < DiffSn(b, a)
                             => DiffSn(FirstIn(S, a, b), a) <= DiffSn(x, a)
  <1> DEFINE T == S \cap Between(a, b)
  <1>1. \A x \in SN : DiffSn(x, a) \in Nat
    BY SnClosed, WindowAssumption DEF SN_MODULO
  <1>2. \A x : x \in T <=> x \in S /\ x \in SN /\ DiffSn(x, a) < DiffSn(b, a)
    BY DEF Between
  <1>3. CASE T = {}
    <2>1. FirstIn(S, a, b) = b
      BY <1>3, Zenon DEF FirstIn
    <2> QED BY <1>1, <1>2, <1>3, <2>1
  <1>4. CASE T # {}
    <2> DEFINE N == {DiffSn(x, a) : x \in T}
    <2>1. N \in SUBSET Nat /\ N # {}
      BY <1>1, <1>2, <1>4, Zenon
    <2>2. PICK n \in N : \A y \in N : n <= y
      BY <2>1, SmallestExists, Zenon
    <2>3. \E x \in T : \A y \in T : DiffSn(x, a) <= DiffSn(y, a)
      BY <2>2, Zenon
    <2> DEFINE f == CHOOSE x \in T : \A y \in T : DiffSn(x, a) <= DiffSn(y, a)
    <2>4. f \in T /\ \A y \in T : DiffSn(f, a) <= DiffSn(y, a)
      BY <2>3, Zenon
    <2>5. FirstIn(S, a, b) = f
      BY <1>4, Zenon DEF FirstIn
    <2> HIDE DEF f, N, T
    <2> QED BY <1>1, <1>2, <2>4, <2>5
  <1> QED BY <1>3, <1>4

-----------------------------------------------------------------------------
(* Facts about a state of the invariant. *)

\* The numbers the transmitter's entries hold.
LEMMA EntryNumbers ==
    ASSUME TxTypeOK
    PROVE  /\ \A sn \in SN : First(sn) \in Nat /\ Payload(sn) \in Nat
           /\ Sent \in Nat
  <1>1. \A i \in Slots : pdu[i] \in Buffered
    BY DEF TxTypeOK
  <1>2. \A sn \in SN : pdu[Slot(sn)] \in Buffered
    BY <1>1, SlotInSlots
  <1> QED BY <1>2 DEF TxTypeOK, Sent, First, Payload, Buffered

\* Where a PDU begins is a number.
LEMMA StartNumber ==
    ASSUME TxTypeOK, NEW sn \in SN PROVE Start(sn) \in Nat
  BY EntryNumbers DEF Start

\* The receiver's window lies within what is outstanding.
LEMMA Geometry ==
    ASSUME LinkInv
    PROVE  /\ vt_a \in SN /\ vt_s \in SN /\ vr_r \in SN /\ vr_ms \in SN /\ vr_h \in SN
           /\ DiffSn(vt_s, vr_r) = DiffSn(vt_s, vt_a) - DiffSn(vr_r, vt_a)
           /\ DiffSn(vt_s, vr_r) \in 0 .. WINDOW_SIZE
           /\ DiffSn(vr_h, vr_r) \in 0 .. DiffSn(vt_s, vr_r)
           /\ DiffSn(vr_ms, vr_r) \in 0 .. DiffSn(vr_h, vr_r)
           /\ Expected \subseteq Outstanding
           /\ Expected \subseteq SN
  <1>1. /\ vt_a \in SN /\ vt_s \in SN /\ vr_r \in SN /\ vr_ms \in SN /\ vr_h \in SN
        /\ DiffSn(vr_r, vt_a) <= DiffSn(vt_s, vt_a)
        /\ DiffSn(vt_s, vt_a) <= WINDOW_SIZE
        /\ DiffSn(vr_ms, vr_r) <= DiffSn(vr_h, vr_r)
        /\ DiffSn(vr_h, vr_r) <= DiffSn(vt_s, vr_r)
    BY DEF LinkInv, TxInv, TxTypeOK, RxTypes, TxWindow, WindowBounded, Order
  <1>2. DiffSn(vt_s, vr_r) = DiffSn(vt_s, vt_a) - DiffSn(vr_r, vt_a)
    BY <1>1, DiffFromLater
  <1>3. /\ DiffSn(vt_s, vr_r) \in Nat /\ DiffSn(vt_s, vt_a) \in Nat /\ DiffSn(vr_r, vt_a) \in Nat
        /\ DiffSn(vr_ms, vr_r) \in Nat /\ DiffSn(vr_h, vr_r) \in Nat
    BY <1>1, SnClosed, WindowAssumption DEF SN_MODULO
  <1>4. Expected \subseteq Outstanding
    BY <1>1, OutstandingFrom DEF Expected, Outstanding
  <1>5. Expected \subseteq SN
    BY DEF Expected, Between
  <1> QED BY <1>1, <1>2, <1>3, <1>4, <1>5, WindowAssumption

-----------------------------------------------------------------------------
(* The first state. *)

\* Nothing was sent yet.
LEMMA LinkInvInit == LinkInit => LinkInv
  <1> SUFFICES ASSUME LinkInit PROVE LinkInv
    OBVIOUS
  <1>1. TxInv
    BY TypeInit, WindowInit DEF LinkInit, TxInv
  <1>2. /\ vt_a = 0 /\ vt_s = 0 /\ taken = 0 /\ sdu_occupancy = 0 /\ data = {}
        /\ vr_r = 0 /\ vr_mr = WINDOW_SIZE /\ vr_x = Undefined /\ vr_ms = 0 /\ vr_h = 0
        /\ receiver_buffer = {} /\ t_reordering = FALSE /\ status_requested = {}
        /\ sn_delayed = Undefined /\ status = <<>> /\ delivered = <<>>
    BY DEF LinkInit, TxInit, RxInit
  <1>3. 0 \in SN /\ WINDOW_SIZE \in SN /\ DiffSn(0, 0) = 0
    BY WindowAssumption DEF SN, SN_MODULO, DiffSn
  <1>4. RxTypes
    <2>1. <<>> \in Seq(Report) /\ Len(<<>>) = 0
      OBVIOUS
    <2>2. status \in Seq(Report) /\ Len(status) <= MaxStatus
      BY <1>2, <2>1, RxAssumption
    <2> QED BY <1>2, <1>3, <2>2, Zenon DEF RxTypes
  <1>5. Order
    BY <1>2, <1>3 DEF Order, Missing, Of
  <1>6. Expected = {}
    <2>1. \A sn \in SN : DiffSn(sn, 0) >= 0 /\ DiffSn(sn, 0) \in Int
      BY <1>3, SnClosed, WindowAssumption DEF SN_MODULO
    <2>2. Expected = {sn \in SN : DiffSn(sn, 0) < 0}
      BY <1>2, <1>3 DEF Expected, Between
    <2> QED BY <2>1, <2>2
  <1>7. Delivered
    BY <1>2 DEF Delivered, BytesFrom, Start, Sent
  <1> QED BY <1>1, <1>2, <1>4, <1>5, <1>6, <1>7 DEF LinkInv, Pieces, InFlight, Buffer, Reports

-----------------------------------------------------------------------------
(* The transmitter's steps. *)

\* Steps that leave the receiver, the windows and the PDUs alone.
LEMMA FrameOfTx ==
    ASSUME LinkInv, TxInv', InFlight', Sent' = Sent,
           UNCHANGED <<vt_a, vt_s, pdu, rxVars>>
    PROVE  LinkInv'
  <1>1. RxTypes' /\ Order'
    BY DEF LinkInv, RxTypes, Order, Missing, rxVars
  <1>2. /\ Expected' = Expected
        /\ \A sn : First(sn)' = First(sn) /\ Payload(sn)' = Payload(sn) /\ Start(sn)' = Start(sn)
    BY DEF Expected, First, Payload, Start, rxVars
  <1>3. Pieces'
    BY <1>2 DEF LinkInv, Pieces
  <1>4. Buffer'
    BY <1>2 DEF LinkInv, Buffer, Whole, rxVars
  <1>5. Delivered'
    BY <1>2 DEF LinkInv, Delivered, rxVars
  <1>6. Reports'
    BY DEF LinkInv, Reports, rxVars, NewVtA
  <1> QED BY <1>1, <1>3, <1>4, <1>5, <1>6 DEF LinkInv

\* What is on its way only becomes less.
LEMMA InFlightLess ==
    ASSUME InFlight, data' \subseteq data, UNCHANGED <<vt_s, pdu, vr_r>>
    PROVE  InFlight'
  <1>1. Expected' = Expected /\ \A sn : First(sn)' = First(sn) /\ Payload(sn)' = Payload(sn)
    BY DEF Expected, First, Payload
  <1> QED BY <1>1 DEF InFlight

\* rlc_am_data_req
LEMMA LinkDataReq ==
    ASSUME LinkInv, TxInv', NEW size \in SduSizes, DataReq(size), UNCHANGED rxVars
    PROVE  LinkInv'
  <1>1. Sent' = Sent
    BY TxAssumption DEF DataReq, Sent, LinkInv, TxInv, TxTypeOK
  <1>2. UNCHANGED <<vt_a, vt_s, pdu, rxVars>> /\ data' = data
    BY DEF DataReq, windowVars
  <1>3. InFlight'
    BY <1>2, InFlightLess DEF LinkInv, rxVars
  <1> QED BY <1>1, <1>2, <1>3, FrameOfTx

\* A whole PDU that is sent again is a copy of its entry.
LEMMA LinkRetransmit ==
    ASSUME LinkInv, TxInv', NEW grant \in DataGrants, Retransmit(grant), MacLifetime', WholePdus',
           UNCHANGED rxVars
    PROVE  LinkInv'
  <1>1. UNCHANGED <<vt_a, vt_s, pdu, rxVars>> /\ Sent' = Sent /\ vr_r' = vr_r
    BY DEF Retransmit, windowVars, Sent, rxVars
  <1>2. CASE data' = data
    BY <1>1, <1>2, InFlightLess, FrameOfTx DEF LinkInv
  <1>3. ASSUME NEW sn \in Outstanding, NEW p,
               data' = data \cup {DataPdu(Slot(sn), FALSE, 0, pdu[Slot(sn)].payload, p)}
        PROVE  InFlight'
    <2> DEFINE new == DataPdu(Slot(sn), FALSE, 0, pdu[Slot(sn)].payload, p)
    <2>1. pdu[Slot(sn)].sn = sn /\ sn \in SN
      BY DEF LinkInv, TxInv, TxWindow, EntriesAreOwn, Outstanding, Between
    <2>2. First(sn) \in Nat
      BY <2>1, EntryNumbers DEF LinkInv, TxInv
    <2>3. /\ new.sn = sn /\ ~new.rf /\ new.so = 0 /\ new.lsf = FALSE
          /\ new.first = First(sn) /\ new.len = Payload(sn)
      <3>1. /\ new.sn = sn /\ new.rf = FALSE /\ new.so = 0 /\ new.first = First(sn) + 0
            /\ new.len = Payload(sn)
            /\ new.lsf = (FALSE /\ 0 + pdu[Slot(sn)].payload = pdu[Slot(sn)].payload)
        BY <2>1, Zenon DEF DataPdu, First, Payload
      <3>2. new.lsf = FALSE
        BY <3>1, Zenon
      <3> HIDE DEF new
      <3> QED BY <2>2, <3>1, <3>2
    <2>4. Expected' = Expected /\ \A q : First(q)' = First(q) /\ Payload(q)' = Payload(q)
      BY <1>1 DEF Expected, First, Payload
    <2>5. \A m \in data' : DiffSn(vt_s', m.sn) \in 1 .. WINDOW_SIZE
      BY DEF MacLifetime
    <2> HIDE DEF new
    <2>6. data' = data \cup {new}
      BY <1>3 DEF new
    <2>7. new.filler = 0
      BY <2>6 DEF WholePdus
    <2> QED BY <2>3, <2>4, <2>5, <2>6, <2>7 DEF InFlight, LinkInv
  <1>4. ASSUME NEW sn \in Retransmittable(grant), RetransmitWhole(sn, grant) PROVE LinkInv'
    <2>1. sn \in Outstanding
      BY DEF Retransmittable
    <2>2. data' = data \/ \E p : data' = data \cup {DataPdu(Slot(sn), FALSE, 0, pdu[Slot(sn)].payload, p)}
      BY <1>4 DEF RetransmitWhole
    <2> QED BY <1>1, <1>2, <1>3, <2>1, <2>2, FrameOfTx
  <1>5. ASSUME NEW sn \in Retransmittable(grant), RetransmitSegment(sn, grant) PROVE LinkInv'
    <2>1. data' = data \/ \E so, n, p : DataPdu(Slot(sn), TRUE, so, n, p) \in data'
      BY <1>5 DEF RetransmitSegment
    <2>2. \A so, n, p : DataPdu(Slot(sn), TRUE, so, n, p).rf
      BY DEF DataPdu
    <2>3. data' = data
      BY <2>1, <2>2 DEF WholePdus
    <2> QED BY <1>2, <2>3
  <1> QED BY <1>2, <1>4, <1>5 DEF Retransmit

\* PDUs that are given up, and t-PollRetransmit, change nothing the receiver will see.
LEMMA LinkQuiet ==
    ASSUME LinkInv, TxInv', PollRetransmitExpiry \/ \E grant \in DataGrants : OnlyGiveUp(grant),
           UNCHANGED rxVars
    PROVE  LinkInv'
  <1>1. UNCHANGED <<vt_a, vt_s, pdu, rxVars>> /\ data' = data /\ Sent' = Sent /\ vr_r' = vr_r
    BY DEF PollRetransmitExpiry, OnlyGiveUp, windowVars, Sent, rxVars
  <1> QED BY <1>1, InFlightLess, FrameOfTx DEF LinkInv

\* MAC loses a data PDU.
LEMMA LinkLosesData ==
    ASSUME LinkInv, TxInv', NEW m \in data, MacLosesData(m)
    PROVE  LinkInv'
  <1>1. UNCHANGED <<vt_a, vt_s, pdu, rxVars>> /\ data' \subseteq data /\ Sent' = Sent /\ vr_r' = vr_r
    BY DEF MacLosesData, MacTakes, windowVars, Sent, rxVars
  <1> QED BY <1>1, InFlightLess, FrameOfTx DEF LinkInv

\* A new PDU is the next piece, and takes the entry of no PDU the receiver waits for.
LEMMA LinkNewPdu ==
    ASSUME LinkInv, TxInv', NEW grant \in DataGrants, NewPdu(grant), MacLifetime', WholePdus',
           UNCHANGED rxVars
    PROVE  LinkInv'
  <1>1. /\ vt_a \in SN /\ vt_s \in SN /\ vr_r \in SN /\ vr_h \in SN
        /\ DiffSn(vt_s, vr_r) \in 0 .. WINDOW_SIZE
        /\ DiffSn(vt_s, vr_r) = DiffSn(vt_s, vt_a) - DiffSn(vr_r, vt_a)
        /\ DiffSn(vr_h, vr_r) \in 0 .. DiffSn(vt_s, vr_r)
        /\ Expected \subseteq SN
    BY Geometry
  <1>2. DiffSn(vt_s, vt_a) < WINDOW_SIZE /\ vt_a' = vt_a /\ vt_s' = NextSn(vt_s) /\ vt_s' \in SN
    BY <1>1, NewSlotIsFree, SnClosed DEF NewPdu, LinkInv, TxInv
  <1>0. PICK s \in SN : s = vt_s
    BY <1>1
  <1>3. PICK n \in Nat \ {0}, filler \in Nat, p \in BOOLEAN :
           /\ n <= sdu_occupancy /\ sdu_occupancy' = sdu_occupancy - n /\ taken' = taken
           /\ pdu' = [pdu EXCEPT ![Slot(vt_s)] =
                        [sn |-> vt_s, mem |-> TRUE, first |-> Sent, payload |-> n,
                         filler |-> filler]]
           /\ data' = data \cup {[sn |-> vt_s, rf |-> FALSE, so |-> 0, first |-> Sent, len |-> n,
                                  filler |-> filler, lsf |-> FALSE, p |-> p]}
    BY NewPduIs, Zenon DEF LinkInv, TxInv, Sent
  <1>4. PICK new :
           /\ new.sn = vt_s /\ new.rf = FALSE /\ new.so = 0 /\ new.first = Sent /\ new.len = n
           /\ new.lsf = FALSE /\ new.filler = 0
           /\ data' = data \cup {new}
    BY <1>3 DEF WholePdus
  <1>5. /\ pdu' = [pdu EXCEPT ![Slot(vt_s)] = [sn |-> vt_s, mem |-> TRUE, first |-> Sent, payload |-> n,
                                               filler |-> filler]]
        /\ taken' = taken /\ sdu_occupancy' = sdu_occupancy - n
    BY <1>3
  <1>6. Sent' = Sent + n /\ Sent \in Nat
    <2>1. taken \in Nat /\ sdu_occupancy \in Nat /\ Sent \in Nat
      BY EntryNumbers DEF LinkInv, TxInv, TxTypeOK
    <2> QED BY <1>3, <1>5, <2>1 DEF Sent
  <1>7. First(s)' = Sent /\ Payload(s)' = n /\ pdu'[Slot(s)].mem
    <2>1. Slot(vt_s) \in Slots /\ pdu \in [Slots -> Buffered]
      BY <1>1, SlotInSlots DEF LinkInv, TxInv, TxTypeOK
    <2>2. pdu'[Slot(vt_s)] = [sn |-> vt_s, mem |-> TRUE, first |-> Sent, payload |-> n,
                              filler |-> filler]
      BY <1>5, <2>1
    <2> QED BY <1>0, <2>2 DEF First, Payload
  <1>8. ASSUME NEW sn \in Expected
        PROVE  /\ First(sn)' = First(sn) /\ Payload(sn)' = Payload(sn)
               /\ pdu'[Slot(sn)] = pdu[Slot(sn)]
    <2>1. sn \in SN /\ DiffSn(sn, vr_r) < DiffSn(vt_s, vr_r)
      BY DEF Expected, Between
    <2>2. DiffSn(vr_r, vt_a) \in Nat /\ DiffSn(sn, vr_r) \in Nat
      BY <1>1, <2>1, SnClosed, WindowAssumption DEF SN_MODULO
    <2>3. DiffSn(vt_s, vr_r) < WINDOW_SIZE /\ sn # vt_s
      BY <1>1, <1>2, <2>1, <2>2, SnClosed, WindowAssumption DEF SN_MODULO
    <2>4. Slot(sn) # Slot(vt_s)
      <3>1. Slot(sn) = Slot(vt_s) => sn = vt_s \/ DiffSn(sn, vr_r) = DiffSn(vt_s, vr_r) + WINDOW_SIZE
        BY <1>1, <2>1, <2>3, SameSlot
      <3> QED BY <1>1, <2>1, <2>2, <2>3, <3>1, WindowAssumption
    <2>5. Slot(sn) \in Slots /\ pdu \in [Slots -> Buffered]
      BY <2>1, SlotInSlots DEF LinkInv, TxInv, TxTypeOK
    <2>6. pdu'[Slot(sn)] = pdu[Slot(sn)]
      BY <1>5, <2>4, <2>5
    <2> QED BY <2>6 DEF First, Payload
  <1>9. DiffSn(vt_s', vr_r) = DiffSn(vt_s, vr_r) + 1 /\ DiffSn(vt_s, vr_r) < WINDOW_SIZE
    <2>1. DiffSn(vr_r, vt_a) \in Nat /\ DiffSn(vt_s, vt_a) \in Nat
      BY <1>1, SnClosed, WindowAssumption DEF SN_MODULO
    <2>2. DiffSn(vt_s, vr_r) < WINDOW_SIZE
      BY <1>1, <1>2, <2>1, WindowAssumption
    <2> QED BY <1>1, <1>2, <2>2, DiffNext
  <1>10. vr_r' = vr_r /\ Expected' = Expected \cup {vt_s}
    <2>1. vr_r' = vr_r
      BY DEF rxVars
    <2>2. ASSUME NEW x \in SN
          PROVE  (DiffSn(x, vr_r) < DiffSn(vt_s, vr_r) + 1)
                   <=> (DiffSn(x, vr_r) < DiffSn(vt_s, vr_r) \/ x = vt_s)
      <3>1. DiffSn(x, vr_r) \in Nat /\ DiffSn(vt_s, vr_r) \in Nat
        BY <1>1, SnClosed, WindowAssumption DEF SN_MODULO
      <3>2. (DiffSn(x, vr_r) = DiffSn(vt_s, vr_r)) = (x = vt_s)
        BY <1>1, DiffSame
      <3> QED BY <3>1, <3>2
    <2> QED BY <1>1, <1>9, <2>1, <2>2 DEF Expected, Between
  <1>11. ASSUME NEW sn \in SN, DiffSn(sn, vr_r) <= DiffSn(vt_s, vr_r)
         PROVE  Start(sn)' = Start(sn) /\ sn # vt_s'
    <2>1. sn # vt_s'
      BY <1>1, <1>9, <1>11, WindowAssumption
    <2>2. CASE sn = vt_s
      BY <1>0, <1>7, <2>1, <2>2 DEF Start
    <2>3. CASE sn # vt_s
      <3>1. DiffSn(sn, vr_r) # DiffSn(vt_s, vr_r) /\ DiffSn(sn, vr_r) \in Nat
        BY <1>1, <2>3, DiffSame, SnClosed, WindowAssumption DEF SN_MODULO
      <3>2. sn \in Expected
        BY <1>1, <1>11, <3>1 DEF Expected, Between
      <3> QED BY <1>8, <2>1, <2>3, <3>2 DEF Start
    <2> QED BY <2>1, <2>2, <2>3
  <1>12. RxTypes'
    BY DEF LinkInv, RxTypes, rxVars
  <1>13. Order'
    <2>1. DiffSn(vr_r, vt_a) <= DiffSn(vt_s', vt_a)
      <3>1. DiffSn(vt_s', vt_a) = DiffSn(vt_s, vt_a) + 1
        BY <1>1, <1>2, DiffNext
      <3>2. DiffSn(vr_r, vt_a) <= DiffSn(vt_s, vt_a)
        BY DEF LinkInv, Order
      <3> QED BY <1>1, <3>1, <3>2, SnClosed, WindowAssumption DEF SN_MODULO
    <2>2. DiffSn(vr_h, vr_r) <= DiffSn(vt_s', vr_r)
      BY <1>1, <1>9
    <2>3. Missing(vr_ms)'
      BY DEF LinkInv, Order, Missing, rxVars
    <2> QED BY <1>2, <2>1, <2>2, <2>3 DEF LinkInv, Order, rxVars
  <1>14. Pieces'
    <2>1. ASSUME NEW sn \in Expected
          PROVE  /\ pdu'[Slot(sn)].mem
                 /\ Start(NextSn(sn))' = First(sn)' + Payload(sn)'
                 /\ First(sn)' + Payload(sn)' <= Sent'
      <3>1. sn \in SN /\ DiffSn(sn, vr_r) < DiffSn(vt_s, vr_r)
        BY DEF Expected, Between
      <3>2. DiffSn(NextSn(sn), vr_r) <= DiffSn(vt_s, vr_r) /\ NextSn(sn) \in SN
        BY <1>1, <1>9, <3>1, DiffNext, SnClosed, WindowAssumption DEF SN_MODULO
      <3>3. Start(NextSn(sn))' = Start(NextSn(sn))
        BY <1>11, <3>2
      <3>4. /\ pdu[Slot(sn)].mem
            /\ Start(NextSn(sn)) = First(sn) + Payload(sn)
            /\ First(sn) + Payload(sn) <= Sent
        BY DEF LinkInv, Pieces
      <3>5. First(sn) \in Nat /\ Payload(sn) \in Nat
        BY <3>1, EntryNumbers DEF LinkInv, TxInv
      <3> QED BY <1>3, <1>6, <1>8, <3>3, <3>4, <3>5
    <2>2. /\ pdu'[Slot(s)].mem
          /\ Start(NextSn(s))' = First(s)' + Payload(s)'
          /\ First(s)' + Payload(s)' <= Sent'
      <3>1. Start(NextSn(s))' = Sent'
        BY <1>0, <1>2 DEF Start
      <3> QED BY <1>3, <1>6, <1>7, <3>1
    <2> QED BY <1>0, <1>10, <2>1, <2>2 DEF Pieces
  <1>15. InFlight'
    <2>1. \A m \in data' : DiffSn(vt_s', m.sn) \in 1 .. WINDOW_SIZE
      BY DEF MacLifetime
    <2>2. \A m \in data : /\ ~m.rf /\ m.so = 0 /\ m.filler = 0 /\ m.lsf = FALSE
                          /\ DiffSn(vt_s, m.sn) \in 1 .. WINDOW_SIZE
      BY DEF LinkInv, InFlight
    <2>3. DiffSn(vt_s, vt_s) = 0
      BY <1>1, DiffZero
    <2>4. \A m \in data : m.sn # vt_s
      BY <2>2, <2>3
    <2>5. ASSUME NEW m \in data, m.sn \in Expected' PROVE m.first = First(m.sn)' /\ m.len = Payload(m.sn)'
      <3>1. m.sn \in Expected
        BY <1>10, <2>4, <2>5
      <3>2. m.first = First(m.sn) /\ m.len = Payload(m.sn)
        BY <3>1 DEF LinkInv, InFlight
      <3> QED BY <1>8, <3>1, <3>2
    <2>6. new.first = First(new.sn)' /\ new.len = Payload(new.sn)'
      BY <1>0, <1>4, <1>7
    <2> QED BY <1>4, <2>1, <2>2, <2>5, <2>6 DEF InFlight
  <1>16. Buffer'
    <2>1. receiver_buffer' = receiver_buffer /\ vr_h' = vr_h
      BY DEF rxVars
    <2>2. ASSUME NEW e \in receiver_buffer
          PROVE  /\ e.sn \in SN /\ DiffSn(e.sn, vr_r) \in 1 .. DiffSn(vr_h, vr_r) - 1
                 /\ e = Whole(e.sn)'
      <3>1. e.sn \in SN /\ DiffSn(e.sn, vr_r) \in 1 .. DiffSn(vr_h, vr_r) - 1 /\ e = Whole(e.sn)
        BY DEF LinkInv, Buffer
      <3>2. e.sn \in Expected
        BY <1>1, <3>1 DEF Expected, Between
      <3>3. First(e.sn)' = First(e.sn) /\ Payload(e.sn)' = Payload(e.sn)
        BY <1>8, <3>2
      <3>4. Whole(e.sn)' = Whole(e.sn)
        BY <3>3 DEF Whole
      <3> QED BY <3>1, <3>4
    <2> QED BY <1>10, <2>1, <2>2 DEF Buffer
  <1>17. Delivered'
    <2>1. DiffSn(vr_r, vr_r) = 0
      BY <1>1, DiffZero
    <2>2. Start(vr_r)' = Start(vr_r)
      BY <1>1, <1>10, <1>11, <2>1
    <2>3. delivered' = delivered
      BY DEF rxVars
    <2> QED BY <2>2, <2>3 DEF LinkInv, Delivered
  <1>18. Reports'
    BY <1>2 DEF LinkInv, Reports, rxVars, NewVtA
  <1> QED BY <1>12, <1>13, <1>14, <1>15, <1>16, <1>17, <1>18 DEF LinkInv

-----------------------------------------------------------------------------
(* STATUS PDUs. *)

\* A report has the shape the transmitter's lemmas ask for.
LEMMA ReportOK == \A st \in Report : StatusOK(st)
  <1> SUFFICES ASSUME NEW st \in Report PROVE StatusOK(st)
    OBVIOUS
  <1> DEFINE All == UNION {[S -> {<<>>}] : S \in SUBSET SN}
  <1>1. /\ st \in [ack_sn : SN, first_nack : SN \cup {Undefined}, nacks : All]
        /\ st.first_nack \in SN => st.first_nack \in DOMAIN st.nacks
    BY DEF Report
  <1> HIDE DEF All
  <1>2. st.ack_sn \in SN /\ st.first_nack \in SN \cup {Undefined} /\ st.nacks \in All
    BY <1>1
  <1>3. PICK S \in SUBSET SN : st.nacks \in [S -> {<<>>}]
    BY <1>2 DEF All
  <1>4. <<>> \in Seq(SoRange)
    OBVIOUS
  <1>5. \A sn \in DOMAIN st.nacks : st.nacks[sn] \in Seq(SoRange)
    BY <1>3, <1>4
  <1> QED BY <1>1, <1>2, <1>5, Zenon DEF StatusOK, NewVtA

\* A sequence without its k-th element.
LEMMA RemoveAtIs ==
    ASSUME NEW S, NEW s \in Seq(S), NEW k \in DOMAIN s
    PROVE  /\ RemoveAt(s, k) \in Seq(S) /\ Len(RemoveAt(s, k)) = Len(s) - 1
           /\ \A i \in 1 .. Len(s) - 1 : RemoveAt(s, k)[i] = IF i < k THEN s[i] ELSE s[i + 1]
  <1>1. Len(s) \in Nat /\ k \in 1 .. Len(s)
    OBVIOUS
  <1> DEFINE a == SubSeq(s, 1, k - 1)
             b == SubSeq(s, k + 1, Len(s))
  <1>2. a \in Seq(S) /\ Len(a) = k - 1 /\ \A i \in 1 .. k - 1 : a[i] = s[i]
    BY <1>1, SubSeqProperties
  <1>3. b \in Seq(S) /\ Len(b) = Len(s) - k /\ \A i \in 1 .. Len(s) - k : b[i] = s[k + i]
    <2>1. k + 1 \in 1 .. Len(s) + 1 /\ Len(s) \in k .. Len(s)
      BY <1>1
    <2> QED BY <1>1, <2>1, SubSeqProperties
  <1>4. RemoveAt(s, k) = a \o b
    BY DEF RemoveAt
  <1> HIDE DEF a, b
  <1>5. /\ a \o b \in Seq(S) /\ Len(a \o b) = Len(s) - 1
        /\ \A i \in 1 .. Len(s) - 1 : (a \o b)[i] = IF i <= k - 1 THEN a[i] ELSE b[i - (k - 1)]
    <2>1. /\ a \o b \in Seq(S) /\ Len(a \o b) = Len(a) + Len(b)
          /\ \A i \in 1 .. Len(a) + Len(b) : (a \o b)[i] = IF i <= Len(a) THEN a[i] ELSE b[i - Len(a)]
      BY <1>2, <1>3, ConcatProperties
    <2>2. Len(a) + Len(b) = Len(s) - 1
      BY <1>1, <1>2, <1>3
    <2> QED BY <1>2, <2>1, <2>2
  <1>6. ASSUME NEW i \in 1 .. Len(s) - 1 PROVE (a \o b)[i] = IF i < k THEN s[i] ELSE s[i + 1]
    <2>1. CASE i < k
      BY <1>1, <1>2, <1>5, <2>1
    <2>2. CASE ~(i < k)
      <3>1. (a \o b)[i] = b[i - (k - 1)] /\ i - (k - 1) \in 1 .. Len(s) - k /\ k + (i - (k - 1)) = i + 1
        BY <1>1, <1>5, <2>2
      <3> QED BY <1>3, <2>2, <3>1
    <2> QED BY <2>1, <2>2
  <1> QED BY <1>4, <1>5, <1>6

\* A STATUS PDU that MAC takes, the first one if VT(A) moves to what it acknowledges.
LEMMA ReportsLess ==
    ASSUME LinkInv, NEW k \in DOMAIN status, status' = RemoveAt(status, k), vr_r' = vr_r,
           vt_a' = vt_a \/ (k = 1 /\ vt_a' = NewVtA(status[1]))
    PROVE  /\ status' \in Seq(Report) /\ Len(status') <= MaxStatus
           /\ Reports'
  <1>1. /\ status \in Seq(Report) /\ Len(status) <= MaxStatus /\ Len(status) \in Nat
        /\ vr_r \in SN /\ vt_a \in SN
    BY DEF LinkInv, RxTypes, TxInv, TxTypeOK
  <1>2. PICK n \in Nat : n = Len(status)
    BY <1>1
  <1>3. k \in 1 .. n /\ DOMAIN status = 1 .. n
    BY <1>1, <1>2
  <1>4. /\ status' \in Seq(Report) /\ Len(status') = n - 1
        /\ \A i \in 1 .. n - 1 : status'[i] = IF i < k THEN status[i] ELSE status[i + 1]
    BY <1>1, <1>2, RemoveAtIs
  <1>5. DOMAIN status' = 1 .. n - 1
    BY <1>2, <1>4
  <1>6. \A i \in 1 .. n : NewVtA(status[i]) \in SN
    BY <1>1, <1>3, ReportOK DEF StatusOK
  <1>7. \A i \in 1 .. n : /\ DiffSn(NewVtA(status[i]), vt_a) <= DiffSn(vr_r, vt_a)
                          /\ \A j \in 1 .. i : DiffSn(NewVtA(status[j]), vt_a) <= DiffSn(NewVtA(status[i]), vt_a)
    BY <1>3 DEF LinkInv, Reports
  <1>8. Len(status') <= MaxStatus
    BY <1>1, <1>2, <1>4, RxAssumption
  <1>9. ASSUME NEW x \in SN, NEW y \in SN, DiffSn(x, vt_a) <= DiffSn(y, vt_a),
               vt_a' = vt_a \/ DiffSn(vt_a', vt_a) <= DiffSn(x, vt_a), vt_a' \in SN
        PROVE  DiffSn(x, vt_a') <= DiffSn(y, vt_a')
    <2>1. CASE vt_a' = vt_a
      BY <1>9, <2>1
    <2>2. CASE DiffSn(vt_a', vt_a) <= DiffSn(x, vt_a)
      BY <1>1, <1>9, <2>2, DiffShift
    <2> QED BY <1>9, <2>1, <2>2
  <1>10. vt_a' \in SN
    BY <1>1, <1>3, <1>6
  <1>11. ASSUME NEW i \in 1 .. n - 1
         PROVE  \E q \in 1 .. n : /\ status'[i] = status[q]
                                  /\ vt_a' = vt_a \/ DiffSn(vt_a', vt_a) <= DiffSn(NewVtA(status[q]), vt_a)
                                  /\ \A j \in 1 .. i : \E r \in 1 .. q :
                                        /\ status'[j] = status[r]
                                        /\ vt_a' = vt_a \/ DiffSn(vt_a', vt_a) <= DiffSn(NewVtA(status[r]), vt_a)
    <2>1. \A q \in 1 .. n : vt_a' = vt_a \/ DiffSn(vt_a', vt_a) <= DiffSn(NewVtA(status[q]), vt_a)
      BY <1>3, <1>7
    <2>2. CASE i < k
      <3>1. i \in 1 .. n /\ \A j \in 1 .. i : j \in 1 .. n - 1 /\ j < k
        BY <1>3, <2>2
      <3>2. status'[i] = status[i] /\ \A j \in 1 .. i : status'[j] = status[j]
        BY <1>4, <2>2, <3>1
      <3> QED BY <2>1, <3>1, <3>2
    <2>3. CASE ~(i < k)
      <3>1. PICK q \in 1 .. n : q = i + 1
        OBVIOUS
      <3>2. status'[i] = status[q]
        BY <1>4, <2>3, <3>1
      <3>3. ASSUME NEW j \in 1 .. i PROVE \E r \in 1 .. q : status'[j] = status[r]
        <4>1. j \in 1 .. n - 1 /\ j \in 1 .. q /\ j + 1 \in 1 .. q
          BY <3>1
        <4>2. status'[j] = status[j] \/ status'[j] = status[j + 1]
          BY <1>4, <4>1
        <4> QED BY <4>1, <4>2
      <3>4. \A r \in 1 .. q : r \in 1 .. n
        BY <3>1
      <3> QED BY <2>1, <3>2, <3>3, <3>4
    <2> QED BY <2>2, <2>3
  <1>12. ASSUME NEW i \in 1 .. n - 1
         PROVE  /\ DiffSn(NewVtA(status'[i]), vt_a') <= DiffSn(vr_r, vt_a')
                /\ \A j \in 1 .. i : DiffSn(NewVtA(status'[j]), vt_a') <= DiffSn(NewVtA(status'[i]), vt_a')
    <2>1. PICK q \in 1 .. n : /\ status'[i] = status[q]
                              /\ vt_a' = vt_a \/ DiffSn(vt_a', vt_a) <= DiffSn(NewVtA(status[q]), vt_a)
                              /\ \A j \in 1 .. i : \E r \in 1 .. q :
                                    /\ status'[j] = status[r]
                                    /\ vt_a' = vt_a \/ DiffSn(vt_a', vt_a) <= DiffSn(NewVtA(status[r]), vt_a)
      BY <1>11
    <2>2. DiffSn(NewVtA(status[q]), vt_a') <= DiffSn(vr_r, vt_a')
      BY <1>1, <1>6, <1>7, <1>9, <1>10, <2>1
    <2>3. ASSUME NEW j \in 1 .. i
          PROVE  DiffSn(NewVtA(status'[j]), vt_a') <= DiffSn(NewVtA(status[q]), vt_a')
      <3>1. PICK r \in 1 .. q : /\ status'[j] = status[r]
                                /\ vt_a' = vt_a \/ DiffSn(vt_a', vt_a) <= DiffSn(NewVtA(status[r]), vt_a)
        BY <2>1
      <3>2. r \in 1 .. n
        BY <3>1
      <3> QED BY <1>6, <1>7, <1>9, <1>10, <2>1, <3>1, <3>2
    <2> QED BY <2>1, <2>2, <2>3
  <1>13. Reports'
    BY <1>5, <1>12 DEF Reports, NewVtA
  <1> QED BY <1>4, <1>8, <1>13

\* MAC loses a STATUS PDU.
LEMMA LinkLosesStatus ==
    ASSUME LinkInv, TxInv', NEW k \in DOMAIN status, MacLosesStatus(k)
    PROVE  LinkInv'
  <1>1. /\ UNCHANGED <<vt_a, vt_s, pdu, data, taken, sdu_occupancy>>
        /\ UNCHANGED <<vr_r, vr_mr, vr_x, vr_ms, vr_h, receiver_buffer, t_reordering,
                       status_requested, sn_delayed, delivered>>
        /\ status' = RemoveAt(status, k)
    BY DEF MacLosesStatus, MacTakesStatus, txVars
  <1>2. status' \in Seq(Report) /\ Len(status') <= MaxStatus /\ Reports'
    BY <1>1, ReportsLess
  <1>3. RxTypes' /\ Order'
    BY <1>1, <1>2 DEF LinkInv, RxTypes, Order, Missing
  <1>4. /\ Expected' = Expected /\ Sent' = Sent
        /\ \A sn : First(sn)' = First(sn) /\ Payload(sn)' = Payload(sn) /\ Start(sn)' = Start(sn)
    BY <1>1 DEF Expected, First, Payload, Start, Sent
  <1>5. Pieces'
    BY <1>1, <1>4 DEF LinkInv, Pieces
  <1>6. Buffer'
    BY <1>1, <1>4 DEF LinkInv, Buffer, Whole
  <1>7. Delivered'
    BY <1>1, <1>4 DEF LinkInv, Delivered
  <1>8. InFlight'
    BY <1>1, <1>4 DEF LinkInv, InFlight
  <1> QED BY <1>2, <1>3, <1>5, <1>6, <1>7, <1>8 DEF LinkInv

\* A STATUS PDU frees no block the receiver waits for, and moves VT(A) not beyond VR(R).
LEMMA LinkDeliversStatus ==
    ASSUME LinkInv, TxInv', NEW st, 1 \in DOMAIN status, st = status[1],
           ReceiveStatus(st), MacTakesStatus(1)
    PROVE  LinkInv'
  <1>1. /\ UNCHANGED <<vt_s, data, taken, sdu_occupancy>>
        /\ UNCHANGED <<vr_r, vr_mr, vr_x, vr_ms, vr_h, receiver_buffer, t_reordering,
                       status_requested, sn_delayed, delivered>>
        /\ status' = RemoveAt(status, 1)
    BY DEF ReceiveStatus, MacTakesStatus
  <1>2. /\ vt_a \in SN /\ vt_s \in SN /\ vr_r \in SN /\ Expected \subseteq SN
        /\ DiffSn(vr_r, vt_a) <= DiffSn(vt_s, vt_a) /\ DiffSn(vt_s, vt_a) <= WINDOW_SIZE
    BY Geometry DEF LinkInv, Order, TxInv, TxWindow, WindowBounded
  <1>3. st \in Report /\ NewVtA(st) \in SN /\ DiffSn(NewVtA(st), vt_a) <= DiffSn(vr_r, vt_a)
    BY ReportOK DEF LinkInv, RxTypes, Reports, StatusOK
  <1>4. vt_a' = vt_a \/ vt_a' = NewVtA(st)
    BY DEF ReceiveStatus, AcceptStatus
  <1>5. status' \in Seq(Report) /\ Len(status') <= MaxStatus /\ Reports'
    BY <1>1, <1>4, ReportsLess
  <1>6. \A i \in Slots : /\ pdu'[i].first = pdu[i].first /\ pdu'[i].payload = pdu[i].payload
                         /\ pdu[i].mem /\ i \notin FreedSlots(st) => pdu'[i].mem
    <2> SUFFICES ASSUME NEW i \in Slots
                 PROVE  /\ pdu'[i].first = pdu[i].first /\ pdu'[i].payload = pdu[i].payload
                        /\ pdu[i].mem /\ i \notin FreedSlots(st) => pdu'[i].mem
      OBVIOUS
    <2>1. pdu' = pdu \/ pdu'[i] = [pdu[i] EXCEPT !.mem = @ /\ i \notin FreedSlots(st)]
      BY DEF ReceiveStatus, ApplyStatus
    <2>2. pdu[i] \in Buffered
      BY DEF LinkInv, TxInv, TxTypeOK
    <2> QED BY <2>1, <2>2 DEF Buffered
  <1>7. ASSUME NEW sn \in Expected PROVE Slot(sn) \notin FreedSlots(st)
    <2> SUFFICES ASSUME NEW q \in Between(vt_a, NewVtA(st)), Slot(q) = Slot(sn) PROVE FALSE
      BY DEF FreedSlots
    <2>1. q \in SN /\ DiffSn(q, vt_a) < DiffSn(NewVtA(st), vt_a)
      BY DEF Between
    <2>2. sn \in SN /\ DiffSn(sn, vr_r) < DiffSn(vt_s, vr_r)
      BY DEF Expected, Between
    <2>3. DiffSn(vr_r, vt_a) <= DiffSn(sn, vt_a) /\ DiffSn(sn, vt_a) < WINDOW_SIZE
      BY <1>2, <2>2, WindowAssumption DEF SN, SN_MODULO, DiffSn
    <2>4. DiffSn(q, vt_a) < DiffSn(sn, vt_a) /\ DiffSn(q, vt_a) < WINDOW_SIZE
      BY <1>2, <1>3, <2>1, <2>2, <2>3, SnClosed, WindowAssumption DEF SN_MODULO
    <2>5. sn = q \/ DiffSn(sn, vt_a) = DiffSn(q, vt_a) + WINDOW_SIZE
      BY <1>2, <2>1, <2>2, <2>4, SameSlot
    <2> QED BY <1>2, <2>1, <2>2, <2>3, <2>4, <2>5, SnClosed, WindowAssumption DEF SN_MODULO
  <1>8. RxTypes'
    BY <1>1, <1>5 DEF LinkInv, RxTypes
  <1>9. Order'
    <2>1. DiffSn(vr_r, vt_a') <= DiffSn(vt_s, vt_a')
      BY <1>2, <1>3, <1>4, WindowAssumption DEF SN, SN_MODULO, DiffSn
    <2> QED BY <1>1, <2>1 DEF LinkInv, Order, Missing
  <1>10. /\ Expected' = Expected /\ Sent' = Sent
         /\ \A sn \in SN : First(sn)' = First(sn) /\ Payload(sn)' = Payload(sn) /\ Start(sn)' = Start(sn)
    BY <1>1, <1>6, SlotInSlots DEF Expected, First, Payload, Start, Sent
  <1>11. Pieces'
    <2> SUFFICES ASSUME NEW sn \in Expected
                 PROVE  /\ pdu'[Slot(sn)].mem
                        /\ Start(NextSn(sn))' = First(sn)' + Payload(sn)'
                        /\ First(sn)' + Payload(sn)' <= Sent'
      BY <1>10 DEF Pieces
    <2>1. sn \in SN /\ NextSn(sn) \in SN /\ Slot(sn) \in Slots
      BY <1>2, SnClosed, SlotInSlots
    <2>2. pdu[Slot(sn)].mem /\ Start(NextSn(sn)) = First(sn) + Payload(sn) /\ First(sn) + Payload(sn) <= Sent
      BY DEF LinkInv, Pieces
    <2> QED BY <1>6, <1>7, <1>10, <2>1, <2>2
  <1>12. Buffer'
    <2>1. \A sn \in SN : Whole(sn)' = Whole(sn)
      BY <1>10 DEF Whole
    <2> QED BY <1>1, <2>1 DEF LinkInv, Buffer
  <1>13. Delivered'
    BY <1>1, <1>2, <1>10 DEF LinkInv, Delivered
  <1>14. InFlight'
    BY <1>1, <1>2, <1>10 DEF LinkInv, InFlight
  <1> QED BY <1>5, <1>8, <1>9, <1>11, <1>12, <1>13, <1>14 DEF LinkInv

-----------------------------------------------------------------------------
(* The receiver's buffer, while it holds whole PDUs only. *)

WholeBuffer(B) == \A e \in B : e.sn \in SN /\ e = Whole(e.sn)

\* One element at most has a sequence number, and it is complete.
LEMMA WholeOf ==
    ASSUME NEW B, WholeBuffer(B), NEW sn
    PROVE  \/ Of(B, sn) = {}
           \/ /\ Of(B, sn) = {Whole(sn)} /\ Whole(sn) \in B /\ sn \in SN
              /\ Lowest(Of(B, sn)) = Whole(sn) /\ Complete(B, sn)
  <1> SUFFICES ASSUME Of(B, sn) # {}
               PROVE  /\ Of(B, sn) = {Whole(sn)} /\ Whole(sn) \in B /\ sn \in SN
                      /\ Lowest(Of(B, sn)) = Whole(sn) /\ Complete(B, sn)
    OBVIOUS
  <1>1. PICK e \in B : e.sn = sn
    BY DEF Of
  <1>2. e = Whole(sn) /\ sn \in SN
    BY <1>1 DEF WholeBuffer
  <1>3. Of(B, sn) = {Whole(sn)}
    BY <1>1, <1>2 DEF Of, WholeBuffer
  <1>4. Whole(sn).so = 0 /\ Whole(sn).all /\ ~Whole(sn).rf
    BY DEF Whole
  <1>5. Lowest(Of(B, sn)) = Whole(sn)
    <2>1. \E x \in {Whole(sn)} : \A f \in {Whole(sn)} : x.so <= f.so
      BY <1>4
    <2> QED BY <1>3, <2>1 DEF Lowest
  <1>6. Complete(B, sn)
    BY <1>3, <1>4 DEF Complete
  <1> QED BY <1>1, <1>2, <1>3, <1>5, <1>6

\* The reception buffer is such a buffer; VR(R) and VR(H) are missing in it.
LEMMA BufferIsWhole ==
    ASSUME LinkInv
    PROVE  /\ WholeBuffer(receiver_buffer) /\ Missing(vr_r) /\ Missing(vr_h)
           /\ \A sn : ~Partial(sn)
           /\ \A sn : Missing(sn) \/ Complete(receiver_buffer, sn)
  <1>1. \A e \in receiver_buffer : /\ e.sn \in SN /\ DiffSn(e.sn, vr_r) \in 1 .. DiffSn(vr_h, vr_r) - 1
                                   /\ e = Whole(e.sn)
    BY DEF LinkInv, Buffer
  <1>2. WholeBuffer(receiver_buffer)
    BY <1>1 DEF WholeBuffer
  <1>3. DiffSn(vr_r, vr_r) = 0 /\ DiffSn(vr_h, vr_r) \in Nat
    BY Geometry, DiffZero, WindowAssumption
  <1>4. Missing(vr_r) /\ Missing(vr_h)
    BY <1>1, <1>3 DEF Missing, Of
  <1>5. ASSUME NEW sn PROVE ~Partial(sn) /\ (Missing(sn) \/ Complete(receiver_buffer, sn))
    <2>1. Whole(sn).all
      BY DEF Whole
    <2> QED BY <1>2, <2>1, WholeOf DEF Missing, Partial
  <1> QED BY <1>2, <1>4, <1>5

-----------------------------------------------------------------------------
(* The receiver's own steps. *)

\* Steps that leave the transmitter, VR(R), VR(H), the buffer and what was delivered alone.
LEMMA FrameOfRx ==
    ASSUME LinkInv, TxInv', RxTypes', Order', Reports', data' \subseteq data,
           UNCHANGED <<vt_s, pdu, taken, sdu_occupancy, vr_r, vr_h, receiver_buffer, delivered>>
    PROVE  LinkInv'
  <1>1. /\ Expected' = Expected /\ Sent' = Sent
        /\ \A sn : First(sn)' = First(sn) /\ Payload(sn)' = Payload(sn) /\ Start(sn)' = Start(sn)
    BY DEF Expected, First, Payload, Start, Sent
  <1>2. Pieces'
    BY <1>1 DEF LinkInv, Pieces
  <1>3. Buffer'
    BY <1>1 DEF LinkInv, Buffer, Whole
  <1>4. Delivered'
    BY <1>1 DEF LinkInv, Delivered
  <1>5. InFlight'
    BY <1>1 DEF LinkInv, InFlight
  <1> QED BY <1>2, <1>3, <1>4, <1>5 DEF LinkInv

\* The end of a report is a sequence number.
LEMMA AckSnIsSn ==
    ASSUME LinkInv, NEW grant PROVE ReportEnd \in SN /\ AckSn(grant) \in SN
  <1>1. vr_r \in SN /\ vr_ms \in SN /\ DiffSn(vr_ms, vr_r) \in 0 .. SN_MODULO - 1
    BY Geometry, SnClosed
  <1>2. ReportEnd \in SN
    <2>1. CASE receiver_buffer = {}
      BY <1>1, <2>1 DEF ReportEnd
    <2>2. CASE receiver_buffer # {}
      <3> DEFINE T == {DiffSn(e.sn, vr_r) : e \in receiver_buffer}
      <3>1. \A e \in receiver_buffer : DiffSn(e.sn, vr_r) \in 0 .. SN_MODULO - 1
        BY <1>1, SnClosed DEF LinkInv, Buffer
      <3>2. T # {} /\ T \subseteq 0 .. SN_MODULO - 1
        BY <2>2, <3>1, Zenon
      <3>3. SN_MODULO - 1 \in Nat /\ T \in SUBSET Nat /\ \A x \in T : x <= SN_MODULO - 1
        BY <3>2, WindowAssumption DEF SN_MODULO
      <3>4. Max(T) \in T
        BY <3>2, <3>3, MaxOfBounded, Zenon
      <3> HIDE DEF T
      <3>10. Max(T) \in Nat
        BY <3>3, <3>4
      <3>11. Max(T) + 1 \in Nat
        BY <3>10
      <3>5. PICK b \in Nat : b = Max(T) + 1
        BY <3>11
      <3>6. PICK a \in 0 .. SN_MODULO - 1 : a = DiffSn(vr_ms, vr_r)
        BY <1>1
      <3>7. Min({a, b}) \in {a, b} /\ Min({a, b}) <= a
        <4>1. a \in Int /\ b \in Int
          BY <3>5, <3>6
        <4> QED BY <4>1, MinOfTwo
      <3>8. Min({a, b}) \in 0 .. SN_MODULO - 1
        BY <3>5, <3>6, <3>7, WindowAssumption DEF SN_MODULO
      <3>9. ReportEnd = PlusSn(vr_r, Min({a, b}))
        BY <2>2, <3>5, <3>6, Zenon DEF ReportEnd, T
      <3> QED BY <1>1, <3>8, <3>9, PlusDiff
    <2> QED BY <2>1, <2>2
  <1>3. AckSn(grant) \in SN
    <2> DEFINE T == {sn \in Between(vr_r, ReportEnd) : BitsBefore(sn) + BitsNeeded(sn) > 8 * grant}
    <2>1. FirstIn(T, vr_r, ReportEnd) \in SN
      BY <1>1, <1>2, FirstInIs, Zenon
    <2>2. AckSn(grant) = vr_r \/ AckSn(grant) = FirstIn(T, vr_r, ReportEnd)
      BY Zenon DEF AckSn
    <2> QED BY <1>1, <2>1, <2>2
  <1> QED BY <1>2, <1>3

\* A report lists whole PDUs only, and acknowledges everything up to VR(R) and no more.
LEMMA StatusPduIs ==
    ASSUME LinkInv, NEW grant PROVE StatusPdu(grant) \in Report /\ NewVtA(StatusPdu(grant)) = vr_r
  <1> DEFINE ack == AckSn(grant)
             whole == Nacked(grant)
             first == IF whole = {} THEN Undefined
                      ELSE IF whole = {ack} THEN ack ELSE FirstIn(whole, vr_r, ack)
             none == [sn \in whole |-> <<>>]
  <1>1. vr_r \in SN /\ ack \in SN
    BY Geometry, AckSnIsSn
  <1>2. Missing(vr_r) /\ \A sn : ~Partial(sn)
    BY BufferIsWhole
  <1>3. CutRanges(grant) = <<>>
    BY <1>2, Zenon DEF CutRanges
  <1>4. whole = {sn \in Between(vr_r, ack) : Missing(sn)}
    BY <1>2, Zenon DEF Nacked
  <1>5. whole \subseteq SN /\ \A sn \in whole : Missing(sn) /\ sn # ack
    <2>1. \A sn \in Between(vr_r, ack) : sn \in SN /\ DiffSn(sn, vr_r) < DiffSn(ack, vr_r)
      BY DEF Between
    <2>2. DiffSn(ack, vr_r) \in Nat
      BY <1>1, SnClosed, WindowAssumption DEF SN_MODULO
    <2> QED BY <1>4, <2>1, <2>2
  <1>6. StatusPdu(grant) = [ack_sn |-> ack, first_nack |-> first, nacks |-> none]
    <2>1. StatusPdu(grant) =
            [ack_sn |-> ack, first_nack |-> first,
             nacks |-> [sn \in whole |->
                          IF sn = ack THEN CutRanges(grant)
                          ELSE IF Missing(sn) THEN <<>> ELSE SoRanges(sn)]]
      BY <1>3, Zenon DEF StatusPdu
    <2>2. [sn \in whole |-> IF sn = ack THEN CutRanges(grant)
                            ELSE IF Missing(sn) THEN <<>> ELSE SoRanges(sn)] = none
      BY <1>5, Zenon
    <2> QED BY <2>1, <2>2
  <1>7. CASE ack = vr_r
    <2>1. whole = {}
      <3>1. DiffSn(ack, vr_r) = 0
        BY <1>1, <1>7, DiffZero
      <3>2. \A sn \in SN : DiffSn(sn, vr_r) \in Nat
        BY <1>1, SnClosed, WindowAssumption DEF SN_MODULO
      <3> QED BY <1>4, <3>1, <3>2 DEF Between
    <2>2. first = Undefined
      BY <2>1
    <2> HIDE DEF first, none, whole, ack
    <2>3. NewVtA(StatusPdu(grant)) = vr_r
      BY <1>6, <1>7, <2>2 DEF NewVtA
    <2>4. none \in [whole -> {<<>>}]
      BY DEF none
    <2>5. none \in UNION {[S -> {<<>>}] : S \in SUBSET SN}
      BY <1>5, <2>4
    <2>6. ~(Undefined \in SN)
      BY DEF Undefined, SN
    <2>7. StatusPdu(grant) \in Report
      BY <1>1, <1>6, <2>2, <2>5, <2>6 DEF Report
    <2> QED BY <2>3, <2>7
  <1>8. CASE ack # vr_r
    <2>1. DiffSn(vr_r, vr_r) = 0 /\ DiffSn(ack, vr_r) \in Nat \ {0}
      BY <1>1, <1>8, DiffZero, SnClosed, WindowAssumption DEF SN_MODULO
    <2>2. vr_r \in whole
      BY <1>1, <1>2, <1>4, <2>1 DEF Between
    <2>3. whole # {} /\ whole # {ack}
      BY <1>8, <2>2
    <2>4. FirstIn(whole, vr_r, ack) = vr_r
      <3> DEFINE f == FirstIn(whole, vr_r, ack)
      <3>1. f \in SN /\ DiffSn(f, vr_r) <= DiffSn(vr_r, vr_r)
        BY <1>1, <2>1, <2>2, FirstInIs
      <3>2. DiffSn(f, vr_r) = 0
        BY <1>1, <2>1, <3>1, SnClosed, WindowAssumption DEF SN_MODULO
      <3> QED BY <1>1, <3>1, <3>2, DiffZero
    <2>5. first = vr_r
      BY <2>3, <2>4
    <2> HIDE DEF first, none, whole, ack
    <2>6. ~(Undefined \in SN)
      BY DEF Undefined, SN
    <2>7. NewVtA(StatusPdu(grant)) = vr_r
      BY <1>1, <1>6, <2>5, <2>6 DEF NewVtA
    <2>8. none \in [whole -> {<<>>}] /\ vr_r \in DOMAIN none
      BY <2>2 DEF none
    <2>9. none \in UNION {[S -> {<<>>}] : S \in SUBSET SN}
      BY <1>5, <2>8
    <2>10. StatusPdu(grant) \in Report
      BY <1>1, <1>6, <2>5, <2>8, <2>9 DEF Report
    <2> QED BY <2>7, <2>10
  <1> QED BY <1>7, <1>8

\* rlc_am_send_status_pdu: the new report acknowledges at least what the ones before it do.
LEMMA LinkSendStatusPdu ==
    ASSUME LinkInv, TxInv', NEW grant, SendStatusPdu(grant), UNCHANGED txVars
    PROVE  LinkInv'
  <1>1. /\ UNCHANGED <<vt_a, vt_s, pdu, data, taken, sdu_occupancy>>
        /\ UNCHANGED <<vr_r, vr_mr, vr_x, vr_ms, vr_h, receiver_buffer, t_reordering, sn_delayed, delivered>>
    BY DEF SendStatusPdu, txVars
  <1>2. status_requested' \subseteq Flags
    BY DEF SendStatusPdu, Flags, NoTxMask, LinkInv, RxTypes
  <1>3. Order'
    BY <1>1 DEF LinkInv, Order, Missing
  <1>4. CASE status' = status
    <2>1. RxTypes'
      BY <1>1, <1>2, <1>4 DEF LinkInv, RxTypes
    <2>2. Reports'
      BY <1>1, <1>4 DEF LinkInv, Reports, NewVtA
    <2> QED BY <1>1, <1>3, <2>1, <2>2, FrameOfRx
  <1>5. CASE status' = Append(status, StatusPdu(grant)) /\ Len(status) < MaxStatus
    <2>1. PICK st \in Report : st = StatusPdu(grant) /\ NewVtA(st) = vr_r
      BY StatusPduIs
    <2>2. PICK n \in Nat : n = Len(status)
      BY DEF LinkInv, RxTypes
    <2>3. status \in Seq(Report) /\ DOMAIN status = 1 .. n /\ n < MaxStatus
      BY <1>5, <2>2 DEF LinkInv, RxTypes
    <2>4. /\ status' \in Seq(Report) /\ Len(status') = n + 1
          /\ \A i \in 1 .. n : status'[i] = status[i]
          /\ status'[n + 1] = st
      BY <1>5, <2>1, <2>2, <2>3
    <2>5. DOMAIN status' = 1 .. n + 1 /\ Len(status') <= MaxStatus
      BY <2>2, <2>3, <2>4, RxAssumption
    <2>6. RxTypes'
      BY <1>1, <1>2, <2>4, <2>5 DEF LinkInv, RxTypes
    <2>7. \A i \in 1 .. n : /\ DiffSn(NewVtA(status[i]), vt_a) <= DiffSn(vr_r, vt_a)
                            /\ \A j \in 1 .. i : DiffSn(NewVtA(status[j]), vt_a) <= DiffSn(NewVtA(status[i]), vt_a)
      BY <2>3 DEF LinkInv, Reports
    <2>8. ASSUME NEW i \in 1 .. n + 1
          PROVE  /\ DiffSn(NewVtA(status'[i]), vt_a) <= DiffSn(vr_r, vt_a)
                 /\ \A j \in 1 .. i : DiffSn(NewVtA(status'[j]), vt_a) <= DiffSn(NewVtA(status'[i]), vt_a)
      <3>1. DiffSn(vr_r, vt_a) <= DiffSn(vr_r, vt_a)
        BY Geometry, SnClosed, WindowAssumption DEF SN_MODULO
      <3>2. CASE i \in 1 .. n
        <4>1. \A j \in 1 .. i : j \in 1 .. n
          BY <3>2
        <4> QED BY <2>4, <2>7, <3>2, <4>1
      <3>3. CASE i = n + 1
        <4>1. NewVtA(status'[i]) = vr_r
          BY <2>1, <2>4, <3>3
        <4>2. \A j \in 1 .. i : j \in 1 .. n \/ j = i
          BY <3>3
        <4> QED BY <2>4, <2>7, <3>1, <4>1, <4>2
      <3> QED BY <3>2, <3>3
    <2>9. Reports'
      BY <1>1, <2>5, <2>8 DEF Reports, NewVtA
    <2> QED BY <1>1, <1>3, <2>6, <2>9, FrameOfRx
  <1> QED BY <1>4, <1>5 DEF SendStatusPdu

\* t-StatusProhibit
LEMMA LinkStatusProhibitExpiry ==
    ASSUME LinkInv, TxInv', StatusProhibitExpiry, UNCHANGED txVars
    PROVE  LinkInv'
  <1>1. /\ UNCHANGED <<vt_a, vt_s, pdu, data, taken, sdu_occupancy>>
        /\ UNCHANGED <<vr_r, vr_mr, vr_x, vr_ms, vr_h, receiver_buffer, t_reordering, sn_delayed,
                       status, delivered>>
        /\ status_requested' \subseteq status_requested
    BY DEF StatusProhibitExpiry, txVars
  <1>2. RxTypes' /\ Order'
    BY <1>1 DEF LinkInv, RxTypes, Order, Missing
  <1>3. Reports'
    BY <1>1 DEF LinkInv, Reports, NewVtA
  <1> QED BY <1>1, <1>2, <1>3, FrameOfRx

\* t-Reordering moves VR(MS) to a PDU that is missing, up to VR(H).
LEMMA LinkReorderingExpiry ==
    ASSUME LinkInv, TxInv', ReorderingExpiry, UNCHANGED txVars
    PROVE  LinkInv'
  <1> DEFINE ms == IF vr_x = vr_h THEN vr_h ELSE FirstIn(NotComplete, vr_x, vr_h)
  <1>1. /\ UNCHANGED <<vt_a, vt_s, pdu, data, taken, sdu_occupancy>>
        /\ UNCHANGED <<vr_r, vr_mr, vr_h, receiver_buffer, status, delivered>>
        /\ t_reordering
    BY DEF ReorderingExpiry, txVars
  <1>2. /\ vr_r \in SN /\ vr_h \in SN /\ vr_x \in SN
        /\ DiffSn(vr_x, vr_r) <= DiffSn(vr_h, vr_r)
    BY <1>1, Geometry DEF LinkInv, Order
  <1>3. Reports'
    BY <1>1 DEF LinkInv, Reports, NewVtA
  <1>4. CASE UNCHANGED <<vr_ms, vr_x, t_reordering, status_requested, sn_delayed>>
    BY <1>1, <1>3, <1>4, FrameOfRx DEF LinkInv, RxTypes, Order, Missing
  <1>5. CASE /\ t_reordering' = FALSE /\ vr_ms' = ms /\ vr_x' \in {vr_h, vr_x}
             /\ SetTrigger(Undelayed([Trigger EXCEPT !.flags = @ \cup {"REORDERING"}]))
    <2>1. status_requested' \subseteq Flags /\ sn_delayed' \in SN \cup {Undefined}
      <3>1. /\ status_requested' = (status_requested \cup {"REORDERING"}) \ {"DELAYED"}
            /\ sn_delayed' = Undefined
        BY <1>5 DEF SetTrigger, Undelayed, Trigger
      <3> QED BY <3>1 DEF LinkInv, RxTypes, Flags
    <2>2. ms \in SN /\ DiffSn(ms, vr_r) <= DiffSn(vr_h, vr_r) /\ Missing(ms)
      <3>1. CASE vr_x = vr_h
        <4>1. ms = vr_h
          BY <3>1
        <4> HIDE DEF ms
        <4>2. DiffSn(vr_h, vr_r) <= DiffSn(vr_h, vr_r)
          BY <1>2, SnClosed, WindowAssumption DEF SN_MODULO
        <4> QED BY <1>2, <4>1, <4>2, BufferIsWhole
      <3>2. CASE vr_x # vr_h
        <4>1. ms = FirstIn(NotComplete, vr_x, vr_h)
          BY <3>2
        <4> HIDE DEF ms
        <4>2. ms \in SN /\ DiffSn(ms, vr_x) <= DiffSn(vr_h, vr_x) /\ (ms = vr_h \/ ms \in NotComplete)
          BY <1>2, <4>1, FirstInIs
        <4>3. DiffSn(ms, vr_r) <= DiffSn(vr_h, vr_r)
          BY <1>2, <4>2, WindowAssumption DEF SN, SN_MODULO, DiffSn
        <4>4. Missing(ms)
          BY <4>2, BufferIsWhole DEF NotComplete
        <4> QED BY <4>2, <4>3, <4>4
      <3> QED BY <3>1, <3>2
    <2> HIDE DEF ms
    <2>3. RxTypes'
      BY <1>1, <1>2, <1>5, <2>1, <2>2 DEF LinkInv, RxTypes
    <2>4. Missing(vr_ms)'
      BY <1>1, <1>5, <2>2 DEF Missing
    <2>5. Order'
      BY <1>1, <1>5, <2>2, <2>4 DEF LinkInv, Order
    <2> QED BY <1>1, <1>3, <2>3, <2>5, FrameOfRx
  <1> QED BY <1>4, <1>5, Zenon DEF ReorderingExpiry

-----------------------------------------------------------------------------
(* The reception of a data PDU. *)

Triggers == [flags : SUBSET Flags, sn : SN \cup {Undefined}]

\* Whether and when a report is due keeps its types.
LEMMA TriggerTypes ==
    ASSUME NEW m, m.sn \in SN, NEW ok, NEW r, NEW ms, NEW trig \in Triggers
    PROVE  StatusTrigger(m, ok, r, ms, trig) \in Triggers
  <1>1. ASSUME NEW t \in Triggers PROVE Undelayed(t) \in Triggers
    <2>1. t.flags \ {"DELAYED"} \in SUBSET Flags
      BY DEF Triggers
    <2> QED BY <2>1 DEF Undelayed, Triggers
  <1>2. PollTrigger(m, ok, r, ms, trig) \in Triggers
    <2> DEFINE polled == [trig EXCEPT !.flags = @ \cup {"POLL"}]
    <2>1. trig.flags \in SUBSET Flags /\ trig.sn \in SN \cup {Undefined}
      BY DEF Triggers
    <2>2. trig.flags \cup {"POLL"} \in SUBSET Flags /\ polled \in Triggers
      <3>1. trig.flags \cup {"POLL"} \in SUBSET Flags
        BY <2>1 DEF Flags
      <3> QED BY <3>1 DEF Triggers
    <2>3. [flags |-> polled.flags \cup {"DELAYED"}, sn |-> m.sn] \in Triggers
      <3>1. polled.flags \cup {"DELAYED"} \in SUBSET Flags
        BY <2>2 DEF Flags, Triggers, NoTxMask
      <3> HIDE DEF polled
      <3> QED BY <3>1 DEF Triggers
    <2>4. Undelayed(polled) \in Triggers
      BY <1>1, <2>2
    <2>5. \/ PollTrigger(m, ok, r, ms, trig) = trig
          \/ PollTrigger(m, ok, r, ms, trig) = polled
          \/ PollTrigger(m, ok, r, ms, trig) = Undelayed(polled)
          \/ PollTrigger(m, ok, r, ms, trig) = [flags |-> polled.flags \cup {"DELAYED"}, sn |-> m.sn]
      BY Zenon DEF PollTrigger
    <2> HIDE DEF polled
    <2> QED BY <2>2, <2>3, <2>4, <2>5
  <1>3. \/ StatusTrigger(m, ok, r, ms, trig) = PollTrigger(m, ok, r, ms, trig)
        \/ StatusTrigger(m, ok, r, ms, trig) = Undelayed(PollTrigger(m, ok, r, ms, trig))
    BY Zenon DEF StatusTrigger
  <1> QED BY <1>1, <1>2, <1>3

\* The trigger the entity holds.
LEMMA TriggerNow == LinkInv => Trigger \in Triggers
  BY DEF LinkInv, RxTypes, Trigger, Triggers

\* A PDU that holds nothing new only triggers a report.
LEMMA LinkDiscardDataPdu ==
    ASSUME LinkInv, TxInv', NEW m \in data, DiscardDataPdu(m), MacTakes(m)
    PROVE  LinkInv'
  <1>1. /\ UNCHANGED <<vt_a, vt_s, pdu, taken, sdu_occupancy>> /\ data' \subseteq data
        /\ UNCHANGED <<vr_r, vr_mr, vr_x, vr_ms, vr_h, receiver_buffer, t_reordering, status, delivered>>
        /\ SetTrigger(StatusTrigger(m, FALSE, vr_r, vr_ms, Trigger))
    BY DEF DiscardDataPdu, MacTakes, windowVars
  <1>2. m.sn \in SN
    BY DEF LinkInv, TxInv, TxTypeOK, ToMac
  <1>3. PICK trig \in Triggers : status_requested' = trig.flags /\ sn_delayed' = trig.sn
    BY <1>1, <1>2, TriggerTypes, TriggerNow DEF SetTrigger
  <1>4. status_requested' \subseteq Flags /\ sn_delayed' \in SN \cup {Undefined}
    BY <1>3 DEF Triggers
  <1>5. RxTypes' /\ Order'
    BY <1>1, <1>4 DEF LinkInv, RxTypes, Order, Missing
  <1>6. Reports'
    BY <1>1 DEF LinkInv, Reports, NewVtA
  <1> QED BY <1>1, <1>5, <1>6, FrameOfRx

(***************************************************************************)
(* A PDU that is not discarded: it is one the receiver waits for, it is    *)
(* not in the buffer yet, and it is stored as it is.                       *)
(***************************************************************************)
Arrived(sn) ==
    [sn |-> sn, so |-> 0, first |-> First(sn), len |-> Payload(sn), filler |-> 0, rf |-> FALSE,
     lsf |-> FALSE, all |-> FALSE, reassembled |-> "NO"]
With(m) == receiver_buffer \cup {Whole(m.sn)}

\* Inside the receiver's window there is nothing but what it waits for.
LEMMA InWindowIsExpected ==
    ASSUME LinkInv, NEW m \in data, SnInWindow(m.sn, vr_r)
    PROVE  /\ m.sn \in SN /\ m.sn \in Expected
           /\ Element(m) = Arrived(m.sn)
  <1>1. m \in ToMac /\ m.sn \in SN
    BY DEF LinkInv, TxInv, TxTypeOK, ToMac
  <1>2. /\ m.rf = FALSE /\ m.so = 0 /\ m.filler = 0 /\ m.lsf = FALSE
        /\ DiffSn(vt_s, m.sn) \in 1 .. WINDOW_SIZE
    BY <1>1 DEF LinkInv, InFlight, ToMac
  <1>3. vt_s \in SN /\ vr_r \in SN /\ DiffSn(vt_s, vr_r) \in 0 .. WINDOW_SIZE
    BY Geometry
  <1>4. DiffSn(m.sn, vr_r) < DiffSn(vt_s, vr_r)
    BY <1>1, <1>2, <1>3, WindowAssumption DEF SN, SN_MODULO, DiffSn, SnInWindow
  <1>5. m.sn \in Expected
    BY <1>1, <1>4 DEF Expected, Between
  <1>6. m.first = First(m.sn) /\ m.len = Payload(m.sn)
    BY <1>5 DEF LinkInv, InFlight
  <1>7. Payload(m.sn) + 0 = Payload(m.sn)
    BY <1>1, EntryNumbers DEF LinkInv, TxInv
  <1>8. m.len + m.filler = Payload(m.sn)
    BY <1>2, <1>6, <1>7
  <1> QED BY <1>1, <1>2, <1>5, <1>6, <1>8, Zenon DEF Element, Arrived

\* rlc_am_rx_list_check_duplicate_insert_pdu and rlc_am_rx_check_all_byte_segments
LEMMA PlacedIs ==
    ASSUME LinkInv, NEW m \in data, NEW old, SnInWindow(m.sn, vr_r),
           Insert(Element(m), old).how # "duplicate"
    PROVE  /\ Of(receiver_buffer, m.sn) = {}
           /\ Insert(Element(m), old).how = "stored"
           /\ CheckAllByteSegments(Element(m), Insert(Element(m), old)) = With(m)
           /\ AllReceived(Element(m), Insert(Element(m), old)) = TRUE
  <1>1. PICK x : x = Element(m)
    OBVIOUS
  <1>2. x = Arrived(m.sn)
    BY <1>1, InWindowIsExpected
  <1>3. x.sn = m.sn /\ x.rf = FALSE /\ [x EXCEPT !.all = TRUE] = Whole(m.sn)
    <2>1. x.sn = m.sn /\ x.rf = FALSE
      BY <1>2 DEF Arrived
    <2>2. [x EXCEPT !.all = TRUE] = Whole(m.sn)
      <3> DEFINE R == [sn : SN, so : Nat, first : Nat, len : Nat, filler : Nat, rf : BOOLEAN,
                       lsf : BOOLEAN, all : BOOLEAN, reassembled : {"NO"}]
      <3>1. m.sn \in SN /\ First(m.sn) \in Nat /\ Payload(m.sn) \in Nat
        BY EntryNumbers, InWindowIsExpected DEF LinkInv, TxInv
      <3>2. PICK w : w = Whole(m.sn)
        OBVIOUS
      <3>3. x \in R /\ w \in R
        BY <1>2, <3>1, <3>2 DEF Arrived, Whole
      <3>4. /\ x.sn = w.sn /\ x.so = w.so /\ x.first = w.first /\ x.len = w.len /\ x.rf = w.rf
            /\ x.filler = w.filler /\ x.lsf = w.lsf /\ x.reassembled = w.reassembled /\ w.all = TRUE
        BY <1>2, <3>2 DEF Arrived, Whole
      <3>5. [x EXCEPT !.all = TRUE] \in R
        BY <3>3
      <3>6. [x EXCEPT !.all = TRUE] = w
        BY <3>3, <3>4, <3>5
      <3> QED BY <3>2, <3>6
    <2> QED BY <2>1, <2>2
  <1>4. PICK ins : ins = Insert(x, old)
    OBVIOUS
  <1>5. Of(receiver_buffer, x.sn) = {}
    <2>1. CASE receiver_buffer = {}
      BY <2>1 DEF Of
    <2>2. CASE receiver_buffer # {}
      <3>1. ins = HandlePdu(x, old)
        BY <1>3, <1>4, <2>2, Zenon DEF Insert
      <3>2. SUFFICES ASSUME Of(receiver_buffer, x.sn) # {} PROVE FALSE
        OBVIOUS
      <3>3. Lowest(Of(receiver_buffer, x.sn)).all
        <4>1. Whole(x.sn).all
          BY DEF Whole
        <4> QED BY <3>2, <4>1, WholeOf, BufferIsWhole
      <3>4. HandlePdu(x, old) = Duplicate
        BY <3>2, <3>3 DEF HandlePdu
      <3>5. ins.how = "duplicate"
        BY <3>1, <3>4 DEF Duplicate
      <3> QED BY <1>1, <1>4, <3>5
    <2> QED BY <2>1, <2>2
  <1>6. ins = Stored(x, receiver_buffer)
    <2>1. CASE receiver_buffer = {}
      BY <1>4, <2>1 DEF Insert
    <2>2. CASE receiver_buffer # {}
      <3>1. ins = HandlePdu(x, old)
        BY <1>3, <1>4, <2>2, Zenon DEF Insert
      <3> QED BY <1>5, <3>1 DEF HandlePdu
    <2> QED BY <2>1, <2>2
  <1>7. ins.how = "stored" /\ ins.buffer = receiver_buffer \cup {x}
    BY <1>6 DEF Stored
  <1>8. Of(ins.buffer, x.sn) = {x} /\ ins.buffer \ {x} = receiver_buffer
    BY <1>5, <1>7 DEF Of
  <1>9. CheckAllByteSegments(x, ins) = (ins.buffer \ {x}) \cup {[e EXCEPT !.all = TRUE] : e \in {x}}
    BY <1>3, <1>7, <1>8, Zenon DEF CheckAllByteSegments
  <1>10. {[e EXCEPT !.all = TRUE] : e \in {x}} = {Whole(m.sn)}
    BY <1>3, Zenon
  <1>11. AllReceived(x, ins) = TRUE
    BY <1>3, <1>7 DEF AllReceived
  <1> QED BY <1>1, <1>3, <1>4, <1>5, <1>7, <1>8, <1>9, <1>10, <1>11 DEF With

\* The state variables with m in the buffer.
NewH(m) == IF DiffSn(m.sn, vr_r) >= DiffSn(vr_h, vr_r) THEN NextSn(m.sn) ELSE vr_h
NewMs(m) == IF m.sn = vr_ms THEN UpdateVrMs(Element(m), "stored", With(m), NewH(m)) ELSE vr_ms
NewR(m) == IF m.sn = vr_r THEN UpdateVrR(Element(m), "stored", With(m)) ELSE vr_r

\* m is one the receiver waits for and does not have.
Fits(m) == m.sn \in Expected /\ Of(receiver_buffer, m.sn) = {} /\ Element(m) = Arrived(m.sn)

\* VR(H) stays beyond everything in the buffer and within what was sent.
LEMMA NewHIs ==
    ASSUME LinkInv, NEW m \in data, Fits(m)
    PROVE  /\ WholeBuffer(With(m)) /\ m.sn \in SN
           /\ NewH(m) \in SN /\ DiffSn(NewH(m), vr_r) \in 1 .. DiffSn(vt_s, vr_r)
           /\ DiffSn(vr_h, vr_r) <= DiffSn(NewH(m), vr_r)
           /\ DiffSn(m.sn, vr_r) < DiffSn(NewH(m), vr_r)
           /\ \A e \in With(m) : DiffSn(e.sn, vr_r) \in 0 .. DiffSn(NewH(m), vr_r) - 1
           /\ Of(With(m), NewH(m)) = {}
           /\ Whole(m.sn) \in With(m)
  <1>1. /\ vt_s \in SN /\ vr_r \in SN /\ vr_h \in SN
        /\ DiffSn(vt_s, vr_r) \in 0 .. WINDOW_SIZE /\ DiffSn(vr_h, vr_r) \in 0 .. DiffSn(vt_s, vr_r)
    BY Geometry
  <1>2. m.sn \in SN /\ DiffSn(m.sn, vr_r) < DiffSn(vt_s, vr_r)
    BY DEF Fits, Expected, Between
  <1>3. /\ DiffSn(m.sn, vr_r) \in Nat
        /\ DiffSn(NextSn(m.sn), vr_r) = DiffSn(m.sn, vr_r) + 1 /\ NextSn(m.sn) \in SN
    BY <1>1, <1>2, SnClosed, DiffNext, WindowAssumption DEF SN_MODULO
  <1>4. /\ NewH(m) \in SN /\ DiffSn(NewH(m), vr_r) \in 1 .. DiffSn(vt_s, vr_r)
        /\ DiffSn(vr_h, vr_r) <= DiffSn(NewH(m), vr_r)
        /\ DiffSn(m.sn, vr_r) < DiffSn(NewH(m), vr_r)
    <2>1. CASE DiffSn(m.sn, vr_r) >= DiffSn(vr_h, vr_r)
      <3>1. NewH(m) = NextSn(m.sn)
        BY <2>1 DEF NewH
      <3> QED BY <1>1, <1>2, <1>3, <2>1, <3>1
    <2>2. CASE ~(DiffSn(m.sn, vr_r) >= DiffSn(vr_h, vr_r))
      <3>1. NewH(m) = vr_h
        BY <2>2 DEF NewH
      <3> QED BY <1>1, <1>2, <1>3, <2>2, <3>1
    <2> QED BY <2>1, <2>2
  <1>5. Whole(m.sn).sn = m.sn
    BY DEF Whole
  <1>6. WholeBuffer(With(m))
    BY <1>2, <1>5, BufferIsWhole DEF WholeBuffer, With
  <1>7. ASSUME NEW e \in With(m) PROVE DiffSn(e.sn, vr_r) \in 0 .. DiffSn(NewH(m), vr_r) - 1
    <2>1. CASE e = Whole(m.sn)
      BY <1>3, <1>4, <1>5, <2>1
    <2>2. CASE e \in receiver_buffer
      <3>1. DiffSn(e.sn, vr_r) \in 1 .. DiffSn(vr_h, vr_r) - 1
        BY <2>2 DEF LinkInv, Buffer
      <3> QED BY <1>1, <1>4, <3>1
    <2> QED BY <2>1, <2>2 DEF With
  <1>8. Of(With(m), NewH(m)) = {}
    BY <1>4, <1>7 DEF Of
  <1> QED BY <1>2, <1>4, <1>6, <1>7, <1>8 DEF With

\* VR(R) moves to the first PDU that is missing.
LEMMA NewRIs ==
    ASSUME LinkInv, NEW m \in data, Fits(m)
    PROVE  /\ NewR(m) \in SN
           /\ DiffSn(NewR(m), vr_r) \in 0 .. DiffSn(NewH(m), vr_r)
           /\ Of(With(m), NewR(m)) = {}
           /\ \A x \in SN : DiffSn(x, vr_r) < DiffSn(NewR(m), vr_r) => Whole(x) \in With(m)
           /\ m.sn # vr_r => NewR(m) = vr_r
           /\ m.sn = vr_r => NewR(m) # vr_r
  <1>1. vr_r \in SN /\ DiffSn(vr_r, vr_r) = 0 /\ DiffSn(vt_s, vr_r) \in 0 .. WINDOW_SIZE
    BY Geometry, DiffZero
  <1>2. PICK h \in SN : h = NewH(m)
    BY NewHIs
  <1>3. /\ DiffSn(h, vr_r) \in 1 .. WINDOW_SIZE /\ Of(With(m), h) = {} /\ WholeBuffer(With(m))
        /\ Whole(m.sn) \in With(m) /\ m.sn \in SN
    BY <1>1, <1>2, NewHIs, WindowAssumption
  <1>4. CASE m.sn # vr_r
    <2>1. NewR(m) = vr_r
      BY <1>4 DEF NewR
    <2>2. Of(With(m), vr_r) = {}
      <3>1. Of(receiver_buffer, vr_r) = {} /\ Whole(m.sn).sn = m.sn
        BY BufferIsWhole DEF Missing, Whole
      <3> QED BY <1>4, <3>1 DEF Of, With
    <2>3. \A x \in SN : ~(DiffSn(x, vr_r) < 0)
      BY <1>1, SnClosed, WindowAssumption DEF SN_MODULO
    <2> QED BY <1>1, <1>2, <1>3, <1>4, <2>1, <2>2, <2>3
  <1>5. CASE m.sn = vr_r
    <2> DEFINE n == NextSn(vr_r)
               S == {sn \in SN : ~Complete(With(m), sn)}
    <2>1. PICK r : r = FirstIn(S, n, vr_r)
      OBVIOUS
    <2>2. NewR(m) = r
      <3>1. Element(m).sn = m.sn
        BY DEF Element
      <3> QED BY <1>5, <2>1, <3>1 DEF NewR, UpdateVrR
    <2>3. n \in SN /\ DiffSn(vr_r, n) = SN_MODULO - 1
      BY <1>1, WindowAssumption DEF SN, SN_MODULO, NextSn, PlusSn, DiffSn
    <2>4. \A x \in SN : x # vr_r => DiffSn(x, n) = DiffSn(x, vr_r) - 1 /\ DiffSn(x, vr_r) >= 1
      BY <1>1, WindowAssumption DEF SN, SN_MODULO, NextSn, PlusSn, DiffSn
    <2> HIDE DEF n
    <2>5. h \in S /\ h # vr_r /\ DiffSn(h, n) = DiffSn(h, vr_r) - 1
      <3>1. h # vr_r
        BY <1>1, <1>3
      <3>2. ~Complete(With(m), h)
        BY <1>3 DEF Complete
      <3> QED BY <1>2, <2>4, <3>1, <3>2
    <2>6. r \in SN /\ (r = vr_r \/ r \in S) /\ DiffSn(r, n) <= DiffSn(h, n)
      <3>1. DiffSn(h, n) < DiffSn(vr_r, n)
        BY <1>3, <2>3, <2>5, WindowAssumption DEF SN_MODULO
      <3> HIDE DEF S
      <3> QED BY <1>1, <1>2, <2>1, <2>3, <2>5, <3>1, FirstInIs
    <2>7. r # vr_r
      BY <1>3, <2>3, <2>5, <2>6, WindowAssumption DEF SN_MODULO
    <2>8. DiffSn(r, n) = DiffSn(r, vr_r) - 1 /\ DiffSn(r, vr_r) >= 1 /\ DiffSn(r, vr_r) \in Nat
      BY <1>1, <2>4, <2>6, <2>7, SnClosed, WindowAssumption DEF SN_MODULO
    <2>9. DiffSn(r, vr_r) \in 0 .. DiffSn(h, vr_r)
      BY <1>3, <2>5, <2>6, <2>8
    <2>10. Of(With(m), r) = {}
      BY <1>3, <2>6, <2>7, WholeOf
    <2>11. ASSUME NEW x \in SN, DiffSn(x, vr_r) < DiffSn(r, vr_r) PROVE Whole(x) \in With(m)
      <3>1. CASE x = vr_r
        BY <1>3, <1>5, <3>1
      <3>2. CASE x # vr_r
        <4>1. DiffSn(x, n) = DiffSn(x, vr_r) - 1 /\ DiffSn(x, vr_r) \in Nat
          BY <1>1, <2>4, <3>2, SnClosed, WindowAssumption DEF SN_MODULO
        <4>2. DiffSn(x, n) < DiffSn(r, n) /\ DiffSn(x, n) < DiffSn(vr_r, n)
          BY <1>3, <2>3, <2>8, <2>9, <2>11, <4>1, WindowAssumption DEF SN_MODULO
        <4>3. DiffSn(x, n) \in Int /\ DiffSn(r, n) \in Int
          BY <2>8, <4>1
        <4>4. x \notin S
          <5> HIDE DEF S
          <5> QED BY <1>1, <2>1, <2>3, <4>2, <4>3, FirstInIs
        <4>5. Complete(With(m), x)
          BY <4>4
        <4> QED BY <1>3, <4>5, WholeOf DEF Complete
      <3> QED BY <3>1, <3>2
    <2> HIDE DEF S
    <2> QED BY <1>2, <1>5, <2>2, <2>6, <2>7, <2>9, <2>10, <2>11
  <1> QED BY <1>4, <1>5

\* VR(MS) stays at a PDU that is missing, between VR(R) and VR(H).
LEMMA NewMsIs ==
    ASSUME LinkInv, NEW m \in data, Fits(m)
    PROVE  /\ NewMs(m) \in SN
           /\ DiffSn(NewMs(m), vr_r) \in DiffSn(NewR(m), vr_r) .. DiffSn(NewH(m), vr_r)
           /\ Of(With(m), NewMs(m)) = {}
  <1>1. vr_r \in SN /\ vr_ms \in SN /\ DiffSn(vt_s, vr_r) \in 0 .. WINDOW_SIZE
    BY Geometry
  <1>2. PICK h \in SN : h = NewH(m)
    BY NewHIs
  <1>3. /\ DiffSn(h, vr_r) \in 1 .. WINDOW_SIZE /\ Of(With(m), h) = {} /\ WholeBuffer(With(m))
        /\ m.sn \in SN /\ DiffSn(m.sn, vr_r) < DiffSn(h, vr_r) /\ DiffSn(vr_h, vr_r) <= DiffSn(h, vr_r)
    BY <1>1, <1>2, NewHIs, WindowAssumption
  <1>4. PICK r \in SN : r = NewR(m)
    BY NewRIs
  <1>5. \A x \in SN : DiffSn(x, vr_r) < DiffSn(r, vr_r) => Whole(x) \in With(m)
    BY <1>4, NewRIs
  <1>6. ASSUME NEW y \in SN, Of(With(m), y) = {} PROVE DiffSn(y, vr_r) >= DiffSn(r, vr_r)
    <2>1. Whole(y) \notin With(m)
      BY <1>6 DEF Of, Whole
    <2> QED BY <1>1, <1>5, <2>1, SnClosed, WindowAssumption DEF SN_MODULO
  <1>7. ASSUME NEW y \in SN, Of(With(m), y) = {}, DiffSn(y, vr_r) <= DiffSn(h, vr_r)
        PROVE  DiffSn(y, vr_r) \in DiffSn(r, vr_r) .. DiffSn(h, vr_r)
    BY <1>1, <1>2, <1>4, <1>6, <1>7, SnClosed, WindowAssumption DEF SN_MODULO
  <1>8. CASE m.sn # vr_ms
    <2>1. NewMs(m) = vr_ms
      BY <1>8 DEF NewMs
    <2>2. Of(With(m), vr_ms) = {}
      <3>1. Of(receiver_buffer, vr_ms) = {} /\ Whole(m.sn).sn = m.sn
        BY DEF LinkInv, Order, Missing, Whole
      <3> QED BY <1>8, <3>1 DEF Of, With
    <2>3. DiffSn(vr_ms, vr_r) <= DiffSn(h, vr_r)
      BY <1>1, <1>2, <1>3, Geometry, SnClosed, WindowAssumption DEF SN_MODULO
    <2> QED BY <1>1, <1>2, <1>4, <1>7, <2>1, <2>2, <2>3
  <1>9. CASE m.sn = vr_ms
    <2>1. PICK x : x = Element(m) /\ x.sn = m.sn /\ x.so = 0
      BY DEF Fits, Arrived
    <2> DEFINE n == NextSn(m.sn)
               further(sn) == IF sn = x.sn THEN \E e \in Of(With(m), sn) : e.so > x.so
                              ELSE Cardinality(Of(With(m), sn)) > 1
               stops == {sn \in SN : \/ sn = h
                                     \/ Of(With(m), sn) = {}
                                     \/ ~Lowest(Of(With(m), sn)).all
                                     \/ further(PrevSn(sn))}
    <2>2. PICK f : f = FirstIn(stops, n, m.sn)
      OBVIOUS
    <2>3. NewMs(m) = f
      <3>1. NewMs(m) = UpdateVrMs(x, "stored", With(m), h)
        BY <1>2, <1>9, <2>1, Zenon DEF NewMs
      <3>2. UpdateVrMs(x, "stored", With(m), h) = FirstIn(stops, NextSn(x.sn), x.sn)
        BY Zenon DEF UpdateVrMs
      <3> HIDE DEF stops
      <3> QED BY <2>1, <2>2, <3>1, <3>2
    <2>4. ASSUME NEW sn PROVE ~further(sn)
      <3>1. Of(With(m), sn) = {} \/ Of(With(m), sn) = {Whole(sn)}
        BY <1>3, WholeOf
      <3>2. ~(Cardinality(Of(With(m), sn)) > 1)
        BY <3>1, FS_EmptySet, FS_Singleton
      <3>3. ~ \E e \in Of(With(m), sn) : e.so > x.so
        BY <2>1, <3>1 DEF Whole
      <3> QED BY <3>2, <3>3
    <2> HIDE DEF further
    <2>5. \A sn \in stops : Of(With(m), sn) = {}
      <3>1. \A sn : Whole(sn).all
        BY DEF Whole
      <3>2. \A sn : Of(With(m), sn) # {} => Lowest(Of(With(m), sn)).all
        BY <1>3, <3>1, WholeOf
      <3> QED BY <1>3, <2>4, <3>2
    <2>6. h \in stops /\ stops \subseteq SN
      OBVIOUS
    <2> HIDE DEF stops
    <2>7. n \in SN /\ DiffSn(m.sn, n) = SN_MODULO - 1
      BY <1>3, WindowAssumption DEF SN, SN_MODULO, NextSn, PlusSn, DiffSn
    <2>8. DiffSn(h, n) = DiffSn(h, vr_r) - DiffSn(m.sn, vr_r) - 1
      BY <1>1, <1>3, WindowAssumption DEF SN, SN_MODULO, NextSn, PlusSn, DiffSn
    <2>9. DiffSn(h, n) < DiffSn(m.sn, n)
      BY <1>1, <1>3, <2>7, <2>8, SnClosed, WindowAssumption DEF SN_MODULO
    <2>10. f \in SN /\ (f = m.sn \/ f \in stops) /\ DiffSn(f, n) <= DiffSn(h, n)
      <3> HIDE DEF n
      <3> QED BY <1>2, <1>3, <2>2, <2>6, <2>7, <2>9, FirstInIs
    <2>11. f # m.sn
      BY <1>2, <2>7, <2>9, <2>10, SnClosed, WindowAssumption DEF SN_MODULO
    <2>12. DiffSn(f, vr_r) <= DiffSn(h, vr_r)
      BY <1>1, <1>2, <1>3, <2>8, <2>10, WindowAssumption DEF SN, SN_MODULO, NextSn, PlusSn, DiffSn
    <2>13. Of(With(m), f) = {}
      BY <2>5, <2>10, <2>11
    <2> QED BY <1>2, <1>4, <1>7, <2>3, <2>10, <2>12, <2>13
  <1> QED BY <1>8, <1>9

-----------------------------------------------------------------------------
(* Reassembly: the PDUs from VR(R) to the new one leave the list, one per turn of the loop. *)

At(k) == PlusSn(vr_r, k)
From(B, k) == {e \in B : DiffSn(e.sn, vr_r) >= k}

\* The PDUs from VR(R) to VT(S) carry consecutive pieces of the bytes that were sent.
LEMMA Chain ==
    ASSUME LinkInv
    PROVE  /\ \A k \in 0 .. DiffSn(vt_s, vr_r) - 1 :
                 /\ At(k) \in Expected /\ At(k) \in SN /\ DiffSn(At(k), vr_r) = k
                 /\ Start(At(k)) = First(At(k))
                 /\ Start(At(k + 1)) = First(At(k)) + Payload(At(k))
           /\ \A k \in 0 .. DiffSn(vt_s, vr_r) :
                 /\ At(k) \in SN /\ DiffSn(At(k), vr_r) = k
                 /\ Start(At(k)) \in Start(vr_r) .. Sent
           /\ At(0) = vr_r /\ At(DiffSn(vt_s, vr_r)) = vt_s
           /\ Start(vr_r) \in Nat /\ Sent \in Nat
  <1>1. /\ vt_s \in SN /\ vr_r \in SN /\ DiffSn(vt_s, vr_r) \in 0 .. WINDOW_SIZE
        /\ TxTypeOK
    BY Geometry DEF LinkInv, TxInv
  <1>2. PICK D \in Nat : D = DiffSn(vt_s, vr_r) /\ D <= WINDOW_SIZE
    BY <1>1, WindowAssumption
  <1>3. \A k \in 0 .. D : At(k) \in SN /\ DiffSn(At(k), vr_r) = k
    BY <1>1, <1>2, PlusDiff, WindowAssumption DEF At, SN_MODULO
  <1>4. At(0) = vr_r /\ At(D) = vt_s
    BY <1>1, <1>2, WindowAssumption DEF At, PlusSn, DiffSn, SN, SN_MODULO
  <1>5. ASSUME NEW k \in 0 .. D - 1
        PROVE  /\ At(k) \in Expected /\ At(k) \in SN /\ DiffSn(At(k), vr_r) = k
               /\ Start(At(k)) = First(At(k))
               /\ Start(At(k + 1)) = First(At(k)) + Payload(At(k))
               /\ First(At(k)) + Payload(At(k)) <= Sent
    <2>1. At(k) \in SN /\ DiffSn(At(k), vr_r) = k
      BY <1>3
    <2>2. At(k) \in Expected
      BY <1>2, <2>1 DEF Expected, Between
    <2>3. At(k) # vt_s
      BY <1>2, <2>1
    <2>4. NextSn(At(k)) = At(k + 1)
      BY <1>1, <1>2, NextPlus, WindowAssumption DEF At, SN_MODULO
    <2>5. Start(NextSn(At(k))) = First(At(k)) + Payload(At(k)) /\ First(At(k)) + Payload(At(k)) <= Sent
      BY <2>2 DEF LinkInv, Pieces
    <2> QED BY <2>1, <2>2, <2>3, <2>4, <2>5 DEF Start
  <1>6. /\ Sent \in Nat /\ Start(vr_r) \in Nat
        /\ \A sn \in SN : First(sn) \in Nat /\ Payload(sn) \in Nat /\ Start(sn) \in Nat
    BY <1>1, EntryNumbers, StartNumber
  <1> DEFINE T == {k \in Nat : k <= D => Start(At(k)) \in Start(vr_r) .. Sent}
  <1>7. Start(vr_r) <= Sent
    <2>1. CASE D = 0
      BY <1>4, <1>6, <2>1 DEF Start
    <2>2. CASE D # 0
      <3>1. 0 \in 0 .. D - 1
        BY <2>2
      <3>2. Start(At(0)) = First(At(0)) /\ First(At(0)) + Payload(At(0)) <= Sent /\ At(0) \in SN
        BY <1>5, <3>1
      <3> QED BY <1>4, <1>6, <3>2
    <2> QED BY <2>1, <2>2
  <1>8. 0 \in T
    BY <1>4, <1>6, <1>7
  <1>9. ASSUME NEW n \in 0 .. D - 1, n \in T PROVE n + 1 \in T
    <2>1. n \in Nat /\ n <= D /\ n + 1 \in Nat
      OBVIOUS
    <2>2. Start(At(n)) \in Start(vr_r) .. Sent
      BY <1>9, <2>1
    <2>3. /\ Start(At(n)) = First(At(n)) /\ Start(At(n + 1)) = First(At(n)) + Payload(At(n))
          /\ First(At(n)) + Payload(At(n)) <= Sent /\ At(n) \in SN
      BY <1>5
    <2>4. Start(At(n + 1)) \in Start(vr_r) .. Sent
      BY <1>6, <2>2, <2>3
    <2> QED BY <2>1, <2>4
  <1> HIDE DEF T
  <1>10. \A n \in 0 .. D : n \in T
    BY <1>8, <1>9, InductionTo
  <1>11. \A n \in 0 .. D : Start(At(n)) \in Start(vr_r) .. Sent
    BY <1>10 DEF T
  <1> QED BY <1>2, <1>3, <1>4, <1>5, <1>6, <1>11

\* Consecutive bytes, and more.
LEMMA BytesJoin ==
    ASSUME NEW a \in Nat, NEW b \in Nat, NEW c \in Nat, a <= b
    PROVE  BytesFrom(a, b - a) \o BytesFrom(b, c) = BytesFrom(a, b + c - a)
  <1>1. b - a \in Nat /\ b + c - a \in Nat /\ b + c - a = (b - a) + c
    OBVIOUS
  <1>2. /\ BytesFrom(a, b - a) \in Seq(Nat) /\ Len(BytesFrom(a, b - a)) = b - a
        /\ BytesFrom(b, c) \in Seq(Nat) /\ Len(BytesFrom(b, c)) = c
        /\ BytesFrom(a, b + c - a) \in Seq(Nat) /\ Len(BytesFrom(a, b + c - a)) = b + c - a
    BY <1>1 DEF BytesFrom
  <1>3. /\ \A k \in 1 .. b - a : BytesFrom(a, b - a)[k] = a + k - 1
        /\ \A k \in 1 .. c : BytesFrom(b, c)[k] = b + k - 1
        /\ \A k \in 1 .. b + c - a : BytesFrom(a, b + c - a)[k] = a + k - 1
    BY DEF BytesFrom
  <1>4. PICK s, t, u \in Seq(Nat) :
            s = BytesFrom(a, b - a) /\ t = BytesFrom(b, c) /\ u = BytesFrom(a, b + c - a)
    BY <1>2
  <1>5. s \o t \in Seq(Nat) /\ Len(s \o t) = Len(u)
    BY <1>1, <1>2, <1>4
  <1>6. ASSUME NEW k \in 1 .. Len(u) PROVE (s \o t)[k] = u[k]
    <2>1. CASE k <= Len(s)
      BY <1>1, <1>2, <1>3, <1>4, <2>1
    <2>2. CASE ~(k <= Len(s))
      <3>1. (s \o t)[k] = t[k - Len(s)] /\ k - Len(s) \in 1 .. c
        BY <1>1, <1>2, <1>4, <2>2, ConcatProperties
      <3>2. t[k - Len(s)] = b + (k - Len(s)) - 1 /\ Len(s) = b - a
        BY <1>2, <1>3, <1>4, <3>1
      <3>3. k \in 1 .. b + c - a
        BY <1>2, <1>4
      <3>4. u[k] = a + k - 1
        BY <1>3, <1>4, <3>3
      <3>5. ASSUME NEW l, l = b - a PROVE b + (k - l) - 1 = a + k - 1
        BY <1>1, <3>3, <3>5
      <3>6. b + (k - Len(s)) - 1 = a + k - 1
        BY <3>2, <3>5
      <3> QED BY <3>1, <3>2, <3>4, <3>6
    <2> QED BY <2>1, <2>2
  <1>7. s \o t = u
    <2>1. \A k \in 1 .. Len(s \o t) : (s \o t)[k] = u[k]
      BY <1>5, <1>6
    <2> QED BY <1>5, <2>1, SeqEqual
  <1> QED BY <1>4, <1>7

\* The head of a list of whole PDUs.
LEMMA FirstOfIs ==
    ASSUME vr_r \in SN, NEW S, WholeBuffer(S), NEW y \in SN, Whole(y) \in S,
           \A e \in S : DiffSn(y, vr_r) <= DiffSn(e.sn, vr_r)
    PROVE  FirstOf(S, vr_r) = Whole(y)
  <1> DEFINE P(e) == \A f \in S : \/ DiffSn(e.sn, vr_r) < DiffSn(f.sn, vr_r)
                                  \/ e.sn = f.sn /\ e.so <= f.so
  <1>1. /\ \A e \in S : e.sn \in SN /\ e = Whole(e.sn) /\ e.so = 0 /\ DiffSn(e.sn, vr_r) \in Nat
        /\ Whole(y).sn = y /\ Whole(y).so = 0 /\ DiffSn(y, vr_r) \in Nat
    <2>1. \A x : Whole(x).so = 0 /\ Whole(x).sn = x
      BY DEF Whole
    <2> QED BY <2>1, SnClosed, WindowAssumption DEF WholeBuffer, SN_MODULO
  <1>2. P(Whole(y))
    <2> SUFFICES ASSUME NEW f \in S
                 PROVE  \/ DiffSn(Whole(y).sn, vr_r) < DiffSn(f.sn, vr_r)
                        \/ Whole(y).sn = f.sn /\ Whole(y).so <= f.so
      OBVIOUS
    <2>1. DiffSn(y, vr_r) < DiffSn(f.sn, vr_r) \/ DiffSn(y, vr_r) = DiffSn(f.sn, vr_r)
      BY <1>1
    <2>2. DiffSn(y, vr_r) = DiffSn(f.sn, vr_r) => y = f.sn
      BY <1>1, DiffSame
    <2> QED BY <1>1, <2>1, <2>2
  <1>3. ASSUME NEW e \in S, P(e) PROVE e = Whole(y)
    <2>1. DiffSn(e.sn, vr_r) < DiffSn(y, vr_r) \/ e.sn = y
      BY <1>1, <1>3
    <2> QED BY <1>1, <2>1
  <1>4. FirstOf(S, vr_r) = CHOOSE e \in S : P(e)
    BY Zenon DEF FirstOf
  <1> HIDE DEF P
  <1> QED BY <1>2, <1>3, <1>4, Zenon

\* The head of a list that is not empty is an element of it.
LEMMA FirstOfIn ==
    ASSUME vr_r \in SN, NEW S, WholeBuffer(S), S # {}
    PROVE  FirstOf(S, vr_r) \in S
  <1> DEFINE N == {DiffSn(e.sn, vr_r) : e \in S}
  <1>1. \A e \in S : e.sn \in SN /\ e = Whole(e.sn) /\ DiffSn(e.sn, vr_r) \in Nat
    BY SnClosed, WindowAssumption DEF WholeBuffer, SN_MODULO
  <1>2. N \in SUBSET Nat /\ N # {}
    BY <1>1, Zenon
  <1>3. PICK n \in N : \A z \in N : n <= z
    BY <1>2, SmallestExists, Zenon
  <1>4. PICK e \in S : \A f \in S : DiffSn(e.sn, vr_r) <= DiffSn(f.sn, vr_r)
    BY <1>3, Zenon
  <1> HIDE DEF N
  <1>5. FirstOf(S, vr_r) = Whole(e.sn)
    BY <1>1, <1>4, FirstOfIs
  <1> QED BY <1>1, <1>5

\* The loop after k turns; it stops when it reaches the new VR(R).
LoopState(m, k) ==
    [list |-> From(With(m), k), rest |-> From(With(m), k),
     out |-> BytesFrom(Start(vr_r), Start(At(k)) - Start(vr_r)),
     going |-> k < DiffSn(NewR(m), vr_r)]

\* What the loop knows of the list.
LEMMA ListIs ==
    ASSUME LinkInv, NEW m \in data, Fits(m)
    PROVE  /\ vr_r \in SN /\ NewR(m) \in SN
           /\ DiffSn(NewR(m), vr_r) \in 0 .. DiffSn(vt_s, vr_r)
           /\ DiffSn(vt_s, vr_r) \in 0 .. WINDOW_SIZE
           /\ WholeBuffer(With(m))
           /\ \A k \in 0 .. DiffSn(NewR(m), vr_r) :
                 At(k) \in SN /\ DiffSn(At(k), vr_r) = k /\ Whole(At(k)).sn = At(k)
           /\ \A k \in 0 .. DiffSn(NewR(m), vr_r) - 1 : Whole(At(k)) \in With(m)
           /\ At(DiffSn(NewR(m), vr_r)) = NewR(m)
           /\ \A e \in With(m) : e.sn \in SN /\ DiffSn(e.sn, vr_r) \in Nat /\ e.sn # NewR(m)
  <1>1. vr_r \in SN /\ DiffSn(vt_s, vr_r) \in 0 .. WINDOW_SIZE
    BY Geometry
  <1>2. PICK r \in SN : r = NewR(m)
    BY NewRIs
  <1>3. /\ DiffSn(r, vr_r) \in 0 .. DiffSn(vt_s, vr_r) /\ WholeBuffer(With(m)) /\ Of(With(m), r) = {}
        /\ \A x \in SN : DiffSn(x, vr_r) < DiffSn(r, vr_r) => Whole(x) \in With(m)
    BY <1>1, <1>2, NewRIs, NewHIs, WindowAssumption
  <1>4. ASSUME NEW k \in 0 .. DiffSn(r, vr_r)
        PROVE  At(k) \in SN /\ DiffSn(At(k), vr_r) = k /\ Whole(At(k)).sn = At(k)
    <2>1. k \in 0 .. DiffSn(vt_s, vr_r)
      BY <1>1, <1>3, WindowAssumption
    <2> QED BY <2>1, Chain DEF Whole
  <1>5. \A k \in 0 .. DiffSn(r, vr_r) - 1 : Whole(At(k)) \in With(m)
    BY <1>1, <1>3, <1>4, WindowAssumption
  <1>6. At(DiffSn(r, vr_r)) = r
    BY <1>1, <1>3, <1>4, DiffSame, WindowAssumption
  <1>7. \A e \in With(m) : e.sn \in SN /\ DiffSn(e.sn, vr_r) \in Nat /\ e.sn # r
    BY <1>1, <1>3, SnClosed, WindowAssumption DEF WholeBuffer, Of, SN_MODULO
  <1> QED BY <1>1, <1>2, <1>3, <1>4, <1>5, <1>6, <1>7

\* What is left of the list before the turn k, and after it.
LEMMA FromIs ==
    ASSUME LinkInv, NEW m \in data, Fits(m), NEW k \in 0 .. DiffSn(NewR(m), vr_r) - 1
    PROVE  /\ FirstOf(From(With(m), k), vr_r) = Whole(At(k))
           /\ Whole(At(k)) \in From(With(m), k)
           /\ From(With(m), k) \ {Whole(At(k))} = From(With(m), k + 1)
           /\ WholeBuffer(From(With(m), k))
  <1>1. DiffSn(NewR(m), vr_r) \in Nat /\ k \in 0 .. DiffSn(NewR(m), vr_r) /\ k \in Nat
    BY ListIs, WindowAssumption
  <1>2. /\ At(k) \in SN /\ DiffSn(At(k), vr_r) = k /\ Whole(At(k)).sn = At(k)
        /\ Whole(At(k)) \in With(m) /\ WholeBuffer(With(m)) /\ vr_r \in SN
    BY <1>1, ListIs
  <1>3. /\ Whole(At(k)) \in From(With(m), k) /\ WholeBuffer(From(With(m), k))
        /\ \A e \in From(With(m), k) : DiffSn(At(k), vr_r) <= DiffSn(e.sn, vr_r)
    BY <1>1, <1>2 DEF From, WholeBuffer
  <1>4. FirstOf(From(With(m), k), vr_r) = Whole(At(k))
    BY <1>2, <1>3, FirstOfIs
  <1>5. ASSUME NEW e
        PROVE  (e \in From(With(m), k) /\ e # Whole(At(k))) <=> e \in From(With(m), k + 1)
    <2>1. CASE e \in With(m)
      <3>1. e.sn \in SN /\ DiffSn(e.sn, vr_r) \in Nat /\ e = Whole(e.sn)
        BY <1>2, <2>1, ListIs DEF WholeBuffer
      <3>2. (DiffSn(e.sn, vr_r) = k) <=> (e.sn = At(k))
        BY <1>2, <3>1, DiffSame
      <3>3. (e.sn = At(k)) <=> (e = Whole(At(k)))
        BY <1>2, <3>1
      <3>4. DiffSn(e.sn, vr_r) >= k + 1 <=> DiffSn(e.sn, vr_r) >= k /\ DiffSn(e.sn, vr_r) # k
        BY <1>1, <3>1
      <3> QED BY <2>1, <3>2, <3>3, <3>4 DEF From
    <2>2. CASE e \notin With(m)
      BY <2>2 DEF From
    <2> QED BY <2>1, <2>2
  <1>6. From(With(m), k) \ {Whole(At(k))} = From(With(m), k + 1)
    BY <1>5
  <1> QED BY <1>3, <1>4, <1>6

\* The loop goes on exactly as long as it has not reached the new VR(R).
LEMMA GoesIs ==
    ASSUME LinkInv, NEW m \in data, Fits(m), NEW k \in 0 .. DiffSn(NewR(m), vr_r) - 1
    PROVE  Goes(From(With(m), k + 1), Whole(At(k)), vr_r) <=> k + 1 < DiffSn(NewR(m), vr_r)
  <1>1. PICK D \in Nat : D = DiffSn(NewR(m), vr_r) /\ D <= WINDOW_SIZE /\ k \in Nat /\ k < D
    BY ListIs, WindowAssumption
  <1>2. /\ At(k) \in SN /\ DiffSn(At(k), vr_r) = k /\ Whole(At(k)).sn = At(k) /\ vr_r \in SN
        /\ Whole(At(k)).all
    <2>1. k \in 0 .. DiffSn(NewR(m), vr_r) /\ Whole(At(k)).all
      BY <1>1 DEF Whole
    <2> QED BY <2>1, ListIs
  <1>3. PICK R, last : R = From(With(m), k + 1) /\ last = Whole(At(k))
    OBVIOUS
  <1>4. CASE k + 1 < D
    <2>1. k + 1 \in 0 .. DiffSn(NewR(m), vr_r) - 1 /\ k + 1 \in 0 .. DiffSn(NewR(m), vr_r)
      BY <1>1, <1>4
    <2>2. /\ FirstOf(R, vr_r) = Whole(At(k + 1)) /\ R # {}
      BY <1>3, <2>1, FromIs
    <2>3. At(k + 1) \in SN /\ DiffSn(At(k + 1), vr_r) = k + 1 /\ Whole(At(k + 1)).sn = At(k + 1)
      BY <2>1, ListIs
    <2>4. DiffSn(At(k + 1), At(k)) = 1
      BY <1>1, <1>2, <2>3, DiffFromLater
    <2>5. Goes(R, last, vr_r)
      BY <1>2, <1>3, <2>2, <2>3, <2>4 DEF Goes
    <2> QED BY <1>1, <1>3, <1>4, <2>5
  <1>5. CASE ~(k + 1 < D)
    <2>1. k + 1 = D
      BY <1>1, <1>5
    <2>2. ASSUME R # {} PROVE ~Goes(R, last, vr_r)
      <3>1. PICK f : f = FirstOf(R, vr_r)
        OBVIOUS
      <3>2. WholeBuffer(R)
        BY <1>3, ListIs DEF WholeBuffer, From
      <3>3. f \in R
        BY <1>2, <2>2, <3>1, <3>2, FirstOfIn
      <3>4. f.sn \in SN /\ DiffSn(f.sn, vr_r) \in Nat /\ f.sn # NewR(m) /\ DiffSn(f.sn, vr_r) >= k + 1
        BY <1>3, <3>3, ListIs DEF From
      <3>5. DiffSn(f.sn, vr_r) # D
        BY <1>1, <1>2, <3>4, DiffSame, ListIs
      <3>6. DiffSn(f.sn, At(k)) = DiffSn(f.sn, vr_r) - k
        BY <1>1, <1>2, <3>4, DiffFromLater
      <3>7. ~(DiffSn(f.sn, At(k)) < 2) /\ f.sn # At(k)
        BY <1>1, <1>2, <2>1, <3>4, <3>5, <3>6
      <3> QED BY <1>2, <1>3, <3>1, <3>7 DEF Goes
    <2>3. R = {} => ~Goes(R, last, vr_r)
      BY DEF Goes
    <2> QED BY <1>1, <1>3, <1>5, <2>2, <2>3
  <1> QED BY <1>4, <1>5

\* One turn takes one PDU.
LEMMA TurnIs ==
    ASSUME LinkInv, NEW m \in data, Fits(m), NEW k \in 0 .. DiffSn(NewR(m), vr_r) - 1
    PROVE  Turn(LoopState(m, k), vr_r) = LoopState(m, k + 1)
  <1>1. PICK D \in Nat : D = DiffSn(NewR(m), vr_r) /\ D <= DiffSn(vt_s, vr_r) /\ k \in Nat /\ k < D
    BY ListIs, WindowAssumption
  <1>2. PICK s : s = LoopState(m, k)
    OBVIOUS
  <1>3. PICK e : e = Whole(At(k))
    OBVIOUS
  <1>4. /\ s.list = From(With(m), k) /\ s.rest = From(With(m), k) /\ s.going
        /\ s.out = BytesFrom(Start(vr_r), Start(At(k)) - Start(vr_r))
    BY <1>1, <1>2 DEF LoopState
  <1>5. FirstOf(s.rest, vr_r) = e /\ FirstOf(s.list, vr_r) = e /\ s.list \ {e} = From(With(m), k + 1)
    BY <1>3, <1>4, FromIs
  <1>6. e.all /\ e.first = First(At(k)) /\ e.len = Payload(At(k)) /\ e.filler = 0
    BY <1>3 DEF Whole
  <1>7. Turn(s, vr_r) = [list |-> s.list \ {e}, rest |-> s.list \ {e}, out |-> s.out \o BytesIn(e),
                         going |-> Goes(s.list \ {e}, e, vr_r)]
    BY <1>4, <1>5, <1>6 DEF Turn
  <1>8. Goes(s.list \ {e}, e, vr_r) = (k + 1 < DiffSn(NewR(m), vr_r))
    <2>1. Goes(s.list \ {e}, e, vr_r) <=> (k + 1 < DiffSn(NewR(m), vr_r))
      BY <1>3, <1>5, GoesIs
    <2>2. Goes(s.list \ {e}, e, vr_r) \in BOOLEAN
      BY DEF Goes
    <2> QED BY <2>1, <2>2
  <1>9. s.out \o BytesIn(e) = BytesFrom(Start(vr_r), Start(At(k + 1)) - Start(vr_r))
    <2>1. k \in 0 .. DiffSn(vt_s, vr_r) - 1 /\ k \in 0 .. DiffSn(vt_s, vr_r)
      BY <1>1, ListIs, WindowAssumption
    <2>2. /\ Start(At(k)) = First(At(k)) /\ Start(At(k + 1)) = First(At(k)) + Payload(At(k))
          /\ Start(At(k)) \in Start(vr_r) .. Sent /\ Start(vr_r) \in Nat /\ Sent \in Nat
          /\ At(k) \in SN
      BY <2>1, Chain
    <2>3. First(At(k)) \in Nat /\ Payload(At(k)) \in Nat
      BY <2>2, EntryNumbers DEF LinkInv, TxInv
    <2>4. BytesIn(e) = BytesFrom(First(At(k)), Payload(At(k)))
      BY <1>6, <2>3 DEF BytesIn, BytesFrom
    <2>5. PICK a, b, c \in Nat : a = Start(vr_r) /\ b = First(At(k)) /\ c = Payload(At(k))
      BY <2>2, <2>3
    <2>6. a <= b
      BY <2>2, <2>5
    <2>7. BytesFrom(a, b - a) \o BytesFrom(b, c) = BytesFrom(a, b + c - a)
      BY <2>6, BytesJoin
    <2>8. s.out = BytesFrom(a, b - a) /\ BytesIn(e) = BytesFrom(b, c)
      BY <1>4, <2>2, <2>4, <2>5
    <2>9. Start(At(k + 1)) - Start(vr_r) = b + c - a
      BY <2>2, <2>5
    <2> QED BY <2>5, <2>7, <2>8, <2>9
  <1> QED BY <1>2, <1>5, <1>7, <1>8, <1>9, Zenon DEF LoopState

\* The loop has stopped.
LEMMA TurnStops ==
    ASSUME NEW m \in data, NEW D \in Nat, D = DiffSn(NewR(m), vr_r)
    PROVE  Turn(LoopState(m, D), vr_r) = LoopState(m, D)
  <1>1. PICK s : s = LoopState(m, D)
    OBVIOUS
  <1>2. ~s.going
    <2>1. s.going = (D < DiffSn(NewR(m), vr_r))
      BY <1>1, Zenon DEF LoopState
    <2>2. ~(D < DiffSn(NewR(m), vr_r))
      OBVIOUS
    <2> QED BY <2>1, <2>2
  <1>3. Turn(s, vr_r) = s
    BY <1>2 DEF Turn
  <1> QED BY <1>1, <1>3

\* A list of whole PDUs is finite, and holds all that leave it.
LEMMA ListSize ==
    ASSUME LinkInv, NEW m \in data, Fits(m)
    PROVE  /\ Cardinality(With(m)) \in Nat
           /\ DiffSn(NewR(m), vr_r) <= Cardinality(With(m))
  <1>1. PICK D \in Nat : D = DiffSn(NewR(m), vr_r)
    BY ListIs, WindowAssumption
  <1>2. PICK B : B = With(m)
    OBVIOUS
  <1>3. \A e \in B : e.sn \in SN /\ e = Whole(e.sn)
    BY <1>2, ListIs DEF WholeBuffer
  <1>4. IsFiniteSet(B)
    <2> DEFINE f == [e \in B |-> e.sn]
    <2>1. f \in Injection(B, SN)
      <3>1. f \in [B -> SN] /\ \A e \in B : f[e] = e.sn
        BY <1>3
      <3>2. \A x, y \in B : f[x] = f[y] => x = y
        BY <1>3, <3>1
      <3> HIDE DEF f
      <3> QED BY <3>1, <3>2 DEF Injection, IsInjective
    <2>2. IsFiniteSet(SN)
      BY FS_Interval, WindowAssumption DEF SN, SN_MODULO
    <2> HIDE DEF f
    <2> QED BY <2>1, <2>2, FS_Injection
  <1>5. D <= Cardinality(B) /\ Cardinality(B) \in Nat
    <2> DEFINE g == [k \in 0 .. D - 1 |-> Whole(At(k))]
    <2>1. g \in [0 .. D - 1 -> B] /\ \A k \in 0 .. D - 1 : g[k] = Whole(At(k))
      BY <1>1, <1>2, ListIs
    <2>2. \A k, l \in 0 .. D - 1 : Whole(At(k)) = Whole(At(l)) => k = l
      <3>1. \A k \in 0 .. D - 1 : Whole(At(k)).sn = At(k) /\ DiffSn(At(k), vr_r) = k
        BY <1>1, ListIs
      <3> QED BY <3>1
    <2>3. g \in Injection(0 .. D - 1, B)
      <3> HIDE DEF g
      <3> QED BY <2>1, <2>2 DEF Injection, IsInjective
    <2> HIDE DEF g
    <2>4. Cardinality(0 .. D - 1) <= Cardinality(B)
      BY <1>4, <2>3, FS_Injection
    <2>5. Cardinality(0 .. D - 1) = D
      BY FS_Interval
    <2>6. Cardinality(B) \in Nat
      BY <1>4, FS_CardinalityType
    <2> QED BY <2>4, <2>5, <2>6
  <1> QED BY <1>1, <1>2, <1>5

\* A number of turns that is large enough takes every PDU up to the new VR(R).
LEMMA LoopIs ==
    ASSUME LinkInv, NEW m \in data, Fits(m), NEW turns \in Nat, DiffSn(NewR(m), vr_r) <= turns
    PROVE  LET loop[k \in 0 .. turns] ==
                   IF k = 0 THEN LoopState(m, 0) ELSE Turn(loop[k - 1], vr_r)
           IN  loop[turns] = LoopState(m, DiffSn(NewR(m), vr_r))
  <1>1. PICK D \in Nat : D = DiffSn(NewR(m), vr_r) /\ D <= turns
    BY ListIs, WindowAssumption
  <1> DEFINE upTo(k) == IF k < D THEN k ELSE D
             IsLoop(h) == h = [k \in 0 .. turns |-> IF k = 0 THEN LoopState(m, 0)
                                                    ELSE Turn(h[k - 1], vr_r)]
             g == [k \in 0 .. turns |-> LoopState(m, upTo(k))]
  <1>2. ASSUME NEW k \in 1 .. turns
        PROVE  Turn(LoopState(m, upTo(k - 1)), vr_r) = LoopState(m, upTo(k))
    <2>1. CASE k <= D
      <3>1. upTo(k - 1) = k - 1 /\ upTo(k) = k /\ k - 1 \in 0 .. D - 1 /\ (k - 1) + 1 = k
        BY <2>1
      <3> HIDE DEF upTo
      <3>2. Turn(LoopState(m, k - 1), vr_r) = LoopState(m, (k - 1) + 1)
        BY <1>1, <3>1, TurnIs
      <3> QED BY <3>1, <3>2
    <2>2. CASE ~(k <= D)
      <3>1. upTo(k - 1) = D /\ upTo(k) = D
        BY <2>2
      <3> HIDE DEF upTo
      <3> QED BY <1>1, <3>1, TurnStops
    <2> QED BY <2>1, <2>2
  <1>3. upTo(0) = 0 /\ upTo(turns) = D
    BY <1>1
  <1> HIDE DEF upTo
  <1>4. IsLoop(g)
    <2>1. ASSUME NEW k \in 0 .. turns
          PROVE  g[k] = IF k = 0 THEN LoopState(m, 0) ELSE Turn(g[k - 1], vr_r)
      <3>1. CASE k = 0
        BY <1>3, <3>1
      <3>2. CASE k # 0
        <4>1. k \in 1 .. turns /\ k - 1 \in 0 .. turns
          BY <3>2
        <4>2. g[k - 1] = LoopState(m, upTo(k - 1)) /\ g[k] = LoopState(m, upTo(k))
          BY <4>1
        <4> HIDE DEF g
        <4> QED BY <1>2, <3>2, <4>1, <4>2
      <3> QED BY <3>1, <3>2
    <2> QED BY <2>1
  <1> DEFINE s == CHOOSE h : IsLoop(h)
  <1>5. IsLoop(s)
    BY <1>4, Zenon
  <1> HIDE DEF s
  <1> DEFINE T == {k \in Nat : k <= turns => s[k] = LoopState(m, upTo(k))}
  <1>6. 0 \in T
    <2>1. s[0] = LoopState(m, 0)
      BY <1>5
    <2> QED BY <1>3, <2>1
  <1>7. ASSUME NEW n \in 0 .. turns - 1, n \in T PROVE n + 1 \in T
    <2>1. n + 1 \in 1 .. turns /\ n + 1 \in 0 .. turns /\ n + 1 # 0 /\ (n + 1) - 1 = n /\ n + 1 \in Nat
          /\ n <= turns
      OBVIOUS
    <2>2. s[n] = LoopState(m, upTo(n))
      BY <1>7, <2>1
    <2>3. s[n + 1] = Turn(s[(n + 1) - 1], vr_r)
      BY <1>5, <2>1
    <2>4. s[n + 1] = LoopState(m, upTo(n + 1))
      BY <1>2, <2>1, <2>2, <2>3
    <2> QED BY <2>1, <2>4
  <1> HIDE DEF T
  <1>8. \A n \in 0 .. turns : n \in T
    BY <1>6, <1>7, InductionTo
  <1>9. s[turns] = LoopState(m, D)
    BY <1>3, <1>8 DEF T
  <1>10. s = CHOOSE h : h = [k \in 0 .. turns |-> IF k = 0 THEN LoopState(m, 0)
                                                  ELSE Turn(h[k - 1], vr_r)]
    BY DEF s
  <1> QED BY <1>1, <1>9, <1>10

\* rlc_am_rx_list_reassemble_rlc_sdus: the bytes up to the new VR(R) come out, the rest stays.
LEMMA ReassembleIs ==
    ASSUME LinkInv, NEW m \in data, Fits(m), m.sn = vr_r
    PROVE  /\ Reassemble(With(m), vr_r).buffer = From(With(m), DiffSn(NewR(m), vr_r))
           /\ Reassemble(With(m), vr_r).bytes
                = BytesFrom(Start(vr_r), Start(NewR(m)) - Start(vr_r))
  <1>1. PICK B : B = With(m)
    OBVIOUS
  <1>2. PICK D \in Nat : D = DiffSn(NewR(m), vr_r) /\ D # 0 /\ At(D) = NewR(m)
    <2>1. DiffSn(NewR(m), vr_r) # 0
      BY ListIs, NewRIs, DiffZero
    <2> QED BY <2>1, ListIs, WindowAssumption
  <1>3. From(B, 0) = B
    BY <1>1, ListIs DEF From
  <1>4. FirstOf(B, vr_r) = Whole(At(0)) /\ ~Whole(At(0)).rf
    <2>1. 0 \in 0 .. DiffSn(NewR(m), vr_r) - 1
      BY <1>2
    <2> QED BY <1>1, <1>3, <2>1, FromIs DEF Whole
  <1>5. WithoutDelivered(B, vr_r) = B
    BY <1>4 DEF WithoutDelivered
  <1> DEFINE near == DiffSn(FirstOf(B, vr_r).sn, FirstOf(B, vr_r).sn) < 2
             start == [list |-> B, rest |-> B, out |-> <<>>, going |-> B = B \/ (B # {} /\ near)]
             turns == Cardinality(B) * Cardinality(B)
             loop[k \in 0 .. turns] == IF k = 0 THEN start ELSE Turn(loop[k - 1], vr_r)
  <1>6. Reassemble(B, vr_r) = [buffer |-> loop[turns].list, bytes |-> loop[turns].out]
    BY <1>5, ZenonT(60) DEF Reassemble
  <1>7. start = LoopState(m, 0)
    <2>1. (B = B \/ (B # {} /\ near)) = (0 < D)
      <3>1. (B = B \/ (B # {} /\ near)) = TRUE
        BY Zenon
      <3>2. (0 < D) = TRUE
        BY <1>2
      <3> QED BY <3>1, <3>2, Zenon
    <2>2. BytesFrom(Start(vr_r), Start(At(0)) - Start(vr_r)) = <<>>
      <3>1. Start(At(0)) - Start(vr_r) = 0
        BY Chain
      <3>2. BytesFrom(Start(vr_r), 0) = <<>>
        BY DEF BytesFrom
      <3> QED BY <3>1, <3>2
    <2> HIDE DEF near
    <2> QED BY <1>1, <1>2, <1>3, <2>1, <2>2, Zenon DEF LoopState
  <1>8. turns \in Nat /\ D <= turns
    <2>1. PICK n \in Nat : n = Cardinality(B) /\ D <= n
      BY <1>1, <1>2, ListSize
    <2>2. n * n \in Nat /\ n <= n * n
      OBVIOUS
    <2> QED BY <2>1, <2>2
  <1> HIDE DEF turns, start
  <1>9. loop[turns] = LoopState(m, D)
    BY <1>2, <1>7, <1>8, LoopIs
  <1>10. /\ LoopState(m, D).list = From(B, D)
         /\ LoopState(m, D).out = BytesFrom(Start(vr_r), Start(At(D)) - Start(vr_r))
    BY <1>1 DEF LoopState
  <1> HIDE DEF loop
  <1>11. Reassemble(B, vr_r).buffer = loop[turns].list /\ Reassemble(B, vr_r).bytes = loop[turns].out
    BY <1>6
  <1> QED BY <1>1, <1>2, <1>9, <1>10, <1>11

\* What waits for nothing is not marked for delivery, and the head of the list is VR(R).
LEMMA MarkIs ==
    ASSUME LinkInv, NEW m \in data, Fits(m), m.sn = vr_r
    PROVE  /\ MarkPending(With(m), vr_r, NewR(m)) = With(m)
           /\ NeedsReassembly(With(m), vr_r, NewR(m))
  <1>1. PICK B, r : B = With(m) /\ r = NewR(m)
    OBVIOUS
  <1>2. /\ WholeBuffer(B) /\ Of(B, r) = {} /\ Whole(vr_r) \in B /\ vr_r # r /\ vr_r \in SN
    BY <1>1, NewHIs, NewRIs, Geometry
  <1>3. HeadSn(B, vr_r) = vr_r
    <2> DEFINE P(e) == \A f \in B : DiffSn(e.sn, vr_r) <= DiffSn(f.sn, vr_r)
    <2>1. \A e \in B : e.sn \in SN /\ e = Whole(e.sn) /\ DiffSn(e.sn, vr_r) \in Nat
      BY <1>2, SnClosed, WindowAssumption DEF WholeBuffer, SN_MODULO
    <2>2. Whole(vr_r).sn = vr_r /\ DiffSn(vr_r, vr_r) = 0
      BY <1>2, DiffZero DEF Whole
    <2>3. P(Whole(vr_r))
      BY <2>1, <2>2
    <2>4. \A e \in B : P(e) => e = Whole(vr_r)
      <3> SUFFICES ASSUME NEW e \in B, P(e) PROVE e = Whole(vr_r)
        OBVIOUS
      <3>1. DiffSn(e.sn, vr_r) <= 0
        BY <1>2, <2>2
      <3>2. e.sn = vr_r
        BY <1>2, <2>1, <3>1, DiffZero
      <3> QED BY <2>1, <3>2
    <2>5. HeadSn(B, vr_r) = (CHOOSE e \in B : P(e)).sn
      BY Zenon DEF HeadSn
    <2> HIDE DEF P
    <2>6. (CHOOSE e \in B : P(e)) = Whole(vr_r)
      BY <1>2, <2>3, <2>4, Zenon
    <2> QED BY <2>2, <2>5, <2>6
  <1>4. \A S : InSequence(S) \subseteq S
    BY DEF InSequence, Run
  <1>5. InSequenceDue(B, r) = {}
    BY <1>2, <1>4 DEF InSequenceDue
  <1>6. {e \in InSequenceDue(B, vr_r) : e.rf} = {}
    <2>1. \A e \in B : ~e.rf
      <3>1. \A sn : ~Whole(sn).rf
        BY DEF Whole
      <3> QED BY <1>2, <3>1 DEF WholeBuffer
    <2> QED BY <1>4, <2>1 DEF InSequenceDue, Of
  <1>7. MarkPending(B, vr_r, r) = B
    <2> DEFINE due == IF B = {} THEN {}
                      ELSE InSequenceDue(B, r)
                             \cup {e \in InSequenceDue(B, HeadSn(B, vr_r)) : e.rf}
    <2>1. due = {}
      BY <1>3, <1>5, <1>6
    <2>2. MarkPending(B, vr_r, r)
            = (B \ due) \cup {[e EXCEPT !.reassembled = "PENDING"] : e \in due}
      BY Zenon DEF MarkPending
    <2> HIDE DEF due
    <2>3. {[e EXCEPT !.reassembled = "PENDING"] : e \in due} = {}
      BY <2>1, Zenon
    <2> QED BY <2>1, <2>2, <2>3
  <1>8. NeedsReassembly(B, vr_r, r)
    BY <1>2, <1>3 DEF NeedsReassembly
  <1> QED BY <1>1, <1>7, <1>8

\* When t-Reordering runs on, and when it starts anew.
Stays(m) == t_reordering /\ ~StopsReordering(NewR(m))
Starts(m) == ~Stays(m) /\ NewH(m) # NewR(m)

\* The assignments of rlc_am_receive_process_data_pdu once the PDU is in the buffer.
Placed(m) ==
    /\ vr_h' = NewH(m) /\ vr_r' = NewR(m) /\ vr_ms' \in {NewMs(m), NewH(m)}
    /\ vr_mr' = PlusSn(NewR(m), WINDOW_SIZE)
    /\ vr_x' = IF Starts(m) THEN NewH(m) ELSE IF StopsReordering(NewR(m)) THEN Undefined ELSE vr_x
    /\ t_reordering' \in BOOLEAN /\ (t_reordering' => Stays(m) \/ Starts(m))
    /\ status_requested' \subseteq Flags /\ sn_delayed' \in SN \cup {Undefined}
    /\ receiver_buffer' = From(With(m), DiffSn(NewR(m), vr_r))
    /\ delivered' = delivered \o BytesFrom(Start(vr_r), Start(NewR(m)) - Start(vr_r))

\* PlaceDataPdu puts a PDU the receiver waits for into the buffer, or dies on an assertion.
LEMMA PlaceIs ==
    ASSUME LinkInv, NEW m \in data, NEW old, PlaceDataPdu(m, old)
    PROVE  /\ Fits(m) /\ UNCHANGED status
           /\ \/ UNCHANGED <<vr_r, vr_mr, vr_x, vr_ms, vr_h, receiver_buffer, t_reordering,
                             status_requested, sn_delayed, delivered>>
              \/ Placed(m)
  <1> DEFINE x == Element(m)
             ins == Insert(x, old)
             buffer == CheckAllByteSegments(x, ins)
             all == AllReceived(x, ins)
             h == IF DiffSn(x.sn, vr_r) >= DiffSn(vr_h, vr_r) THEN NextSn(x.sn) ELSE vr_h
             ms == IF x.sn = vr_ms /\ all THEN UpdateVrMs(x, ins.how, buffer, h) ELSE vr_ms
             r == IF x.sn = vr_r /\ all THEN UpdateVrR(x, ins.how, buffer) ELSE vr_r
             reassemble == x.sn = vr_r /\ NeedsReassembly(buffer, vr_r, r)
             stays == t_reordering /\ ~StopsReordering(r)
             starts == ~stays /\ h # r
             noTimer == starts /\ ~ReorderingConfigured
             newMs == IF noTimer THEN h ELSE ms
             trig == IF noTimer
                     THEN Undelayed([Trigger EXCEPT !.flags = @ \cup {"REORDERING"}]) ELSE Trigger
             marked == MarkPending(buffer, vr_r, r)
             dies == UNCHANGED <<vr_r, vr_mr, vr_x, vr_ms, vr_h, receiver_buffer, t_reordering,
                                 status_requested, sn_delayed, delivered>>
             goesOn ==
                /\ vr_h' = h /\ vr_r' = r /\ vr_ms' = newMs
                /\ vr_mr' = PlusSn(r, WINDOW_SIZE)
                /\ vr_x' = IF starts THEN h ELSE IF StopsReordering(r) THEN Undefined ELSE vr_x
                /\ t_reordering' = (stays \/ (starts /\ ReorderingConfigured))
                /\ SetTrigger(StatusTrigger(m, TRUE, r, newMs, trig))
                /\ receiver_buffer' = IF reassemble THEN Reassemble(marked, vr_r).buffer
                                      ELSE IF x.sn = vr_r THEN marked ELSE buffer
                /\ delivered' = IF reassemble THEN delivered \o Reassemble(marked, vr_r).bytes
                                ELSE delivered
  <1>1. /\ SnInWindow(m.sn, vr_r) /\ ins.how # "duplicate" /\ UNCHANGED status
        /\ dies \/ goesOn
    BY Zenon DEF PlaceDataPdu
  <1>2. Fits(m) /\ m.sn \in SN
    BY <1>1, InWindowIsExpected, PlacedIs DEF Fits
  <1>3. x.sn = m.sn
    BY DEF Element
  <1>4. ins.how = "stored" /\ buffer = With(m) /\ all = TRUE
    BY <1>1, PlacedIs
  <1> HIDE DEF ins, buffer, all
  <1>5. h = NewH(m)
    BY <1>3 DEF NewH
  <1> HIDE DEF h
  <1>6. ms = NewMs(m) /\ r = NewR(m)
    <2>1. ms = IF m.sn = vr_ms THEN UpdateVrMs(x, ins.how, buffer, h) ELSE vr_ms
      BY <1>3, <1>4
    <2>2. r = IF m.sn = vr_r THEN UpdateVrR(x, ins.how, buffer) ELSE vr_r
      BY <1>3, <1>4
    <2>3. ms = IF m.sn = vr_ms THEN UpdateVrMs(x, "stored", With(m), NewH(m)) ELSE vr_ms
      BY <1>4, <1>5, <2>1
    <2>4. r = IF m.sn = vr_r THEN UpdateVrR(x, "stored", With(m)) ELSE vr_r
      BY <1>4, <2>2
    <2> HIDE DEF ms, r
    <2> QED BY <2>3, <2>4, Zenon DEF NewMs, NewR
  <1> HIDE DEF ms, r
  <1>7. stays = Stays(m) /\ starts = Starts(m)
    BY <1>5, <1>6, Zenon DEF Stays, Starts
  <1>8. trig \in Triggers
    <2>1. Undelayed([Trigger EXCEPT !.flags = @ \cup {"REORDERING"}]) \in Triggers
      <3>1. Trigger.flags \in SUBSET Flags
        BY TriggerNow DEF Triggers
      <3>2. Undelayed([Trigger EXCEPT !.flags = @ \cup {"REORDERING"}])
              = [flags |-> (Trigger.flags \cup {"REORDERING"}) \ {"DELAYED"}, sn |-> Undefined]
        BY DEF Undelayed, Trigger
      <3>3. (Trigger.flags \cup {"REORDERING"}) \ {"DELAYED"} \in SUBSET Flags
        BY <3>1 DEF Flags
      <3> QED BY <3>2, <3>3 DEF Triggers
    <2> QED BY <2>1, TriggerNow
  <1>9. newMs \in {NewMs(m), NewH(m)}
    BY <1>5, <1>6
  <1> HIDE DEF stays, starts, noTimer, newMs, trig
  <1>10. SUFFICES ASSUME goesOn PROVE Placed(m)
    BY <1>1, <1>2
  <1>11. status_requested' \subseteq Flags /\ sn_delayed' \in SN \cup {Undefined}
    <2>1. PICK t \in Triggers : status_requested' = t.flags /\ sn_delayed' = t.sn
      BY <1>2, <1>8, <1>10, TriggerTypes DEF SetTrigger
    <2> QED BY <2>1 DEF Triggers
  <1>12. /\ receiver_buffer' = From(With(m), DiffSn(NewR(m), vr_r))
         /\ delivered' = delivered \o BytesFrom(Start(vr_r), Start(NewR(m)) - Start(vr_r))
    <2>1. CASE m.sn = vr_r
      <3>1. reassemble /\ marked = With(m)
        BY <1>2, <1>3, <1>4, <1>6, <2>1, MarkIs
      <3> HIDE DEF reassemble, marked
      <3>2. /\ receiver_buffer' = Reassemble(With(m), vr_r).buffer
            /\ delivered' = delivered \o Reassemble(With(m), vr_r).bytes
        BY <1>10, <3>1
      <3> QED BY <1>2, <2>1, <3>2, ReassembleIs
    <2>2. CASE m.sn # vr_r
      <3>1. receiver_buffer' = With(m) /\ delivered' = delivered
        BY <1>3, <1>4, <1>10, <2>2
      <3>2. NewR(m) = vr_r /\ DiffSn(vr_r, vr_r) = 0
        BY <1>2, <2>2, NewRIs, Geometry, DiffZero
      <3>3. From(With(m), 0) = With(m)
        BY <1>2, ListIs DEF From
      <3>4. Start(vr_r) \in Nat /\ Start(vr_r) - Start(vr_r) = 0
        BY Chain
      <3>5. BytesFrom(Start(vr_r), 0) = <<>>
        BY DEF BytesFrom
      <3>6. delivered \in Seq(Nat)
        BY <3>4 DEF LinkInv, Delivered, BytesFrom
      <3>7. delivered \o <<>> = delivered
        BY <3>6, ConcatEmptySeq
      <3> QED BY <3>1, <3>2, <3>3, <3>4, <3>5, <3>7
    <2> QED BY <2>1, <2>2
  <1>13. /\ vr_h' = NewH(m) /\ vr_r' = NewR(m) /\ vr_ms' \in {NewMs(m), NewH(m)}
         /\ vr_mr' = PlusSn(NewR(m), WINDOW_SIZE)
    BY <1>5, <1>6, <1>9, <1>10
  <1>14. vr_x' = IF Starts(m) THEN NewH(m) ELSE IF StopsReordering(NewR(m)) THEN Undefined ELSE vr_x
    BY <1>5, <1>6, <1>7, <1>10
  <1>15. t_reordering' \in BOOLEAN /\ (t_reordering' => Stays(m) \/ Starts(m))
    BY <1>7, <1>10, Zenon
  <1> QED BY <1>11, <1>12, <1>13, <1>14, <1>15 DEF Placed

\* The reception of a PDU the receiver waits for keeps the invariant.
LEMMA LinkPlaced ==
    ASSUME LinkInv, TxInv', NEW m \in data, Fits(m), Placed(m), MacTakes(m), UNCHANGED status
    PROVE  LinkInv'
  <1>1. UNCHANGED <<vt_a, vt_s, pdu, taken, sdu_occupancy, status>> /\ data' \subseteq data
    BY DEF MacTakes, windowVars
  <1>2. PICK a, b, s, r, h : a = vt_a /\ b = vr_r /\ s = vt_s /\ r = NewR(m) /\ h = NewH(m)
    OBVIOUS
  <1>3. /\ a \in SN /\ b \in SN /\ s \in SN /\ r \in SN /\ h \in SN
        /\ DiffSn(s, b) = DiffSn(s, a) - DiffSn(b, a) /\ DiffSn(s, b) \in 0 .. WINDOW_SIZE
        /\ DiffSn(h, b) \in 0 .. DiffSn(s, b) /\ DiffSn(r, b) \in 0 .. DiffSn(h, b)
    BY <1>2, Geometry, NewHIs, NewRIs, WindowAssumption
  <1>4. DiffSn(s, a) <= WINDOW_SIZE
    BY <1>2 DEF LinkInv, TxInv, TxWindow, WindowBounded
  <1>5. /\ DiffSn(s, r) = DiffSn(s, b) - DiffSn(r, b) /\ DiffSn(h, r) = DiffSn(h, b) - DiffSn(r, b)
        /\ DiffSn(r, a) = DiffSn(b, a) + DiffSn(r, b)
        /\ \A y \in SN : DiffSn(y, r) < DiffSn(s, r) => DiffSn(y, b) < DiffSn(s, b)
    BY <1>3, <1>4, WindowAssumption DEF SN, SN_MODULO, DiffSn
  <1>6. \A y \in SN : DiffSn(y, b) \in Nat /\ DiffSn(y, a) \in Nat /\ DiffSn(y, r) \in Nat
    BY <1>3, SnClosed, WindowAssumption DEF SN_MODULO
  <1>7. \A y \in SN : DiffSn(y, b) >= DiffSn(r, b) => DiffSn(y, r) = DiffSn(y, b) - DiffSn(r, b)
    BY <1>3, <1>6, DiffFromLater
  <1>8. /\ vr_h' = h /\ vr_r' = r /\ vt_s' = s /\ vt_a' = a
        /\ vr_ms' \in {NewMs(m), h} /\ vr_mr' = PlusSn(r, WINDOW_SIZE)
        /\ receiver_buffer' = From(With(m), DiffSn(r, b))
    BY <1>1, <1>2 DEF Placed
  <1>9. /\ \A sn : First(sn)' = First(sn) /\ Payload(sn)' = Payload(sn) /\ Start(sn)' = Start(sn)
        /\ \A sn : Whole(sn)' = Whole(sn)
        /\ Sent' = Sent
    BY <1>1 DEF First, Payload, Start, Sent, Whole
  <1>10. Expected' \subseteq Expected
    <2>1. Expected' = Between(r, s) /\ Expected = Between(b, s)
      BY <1>2, <1>8 DEF Expected
    <2> QED BY <1>5, <2>1 DEF Between
  <1>11. PICK n : n = vr_ms'
    OBVIOUS
  <1>12. n \in SN /\ DiffSn(n, b) \in DiffSn(r, b) .. DiffSn(h, b) /\ Of(With(m), n) = {}
    <2>1. /\ NewMs(m) \in SN /\ DiffSn(NewMs(m), b) \in DiffSn(r, b) .. DiffSn(h, b)
          /\ Of(With(m), NewMs(m)) = {} /\ Of(With(m), h) = {}
      BY <1>2, NewMsIs, NewHIs
    <2> QED BY <1>3, <1>8, <1>11, <2>1
  <1>13. ASSUME t_reordering' PROVE vr_x' \in SN /\ DiffSn(vr_x', r) \in 1 .. DiffSn(h, r)
    <2>1. CASE Starts(m)
      <3>1. vr_x' = h /\ h # r
        BY <1>2, <2>1 DEF Placed, Starts
      <3>2. DiffSn(h, r) # 0
        BY <1>3, <3>1, DiffZero
      <3>3. DiffSn(h, r) \in 1 .. DiffSn(h, r)
        BY <1>3, <1>6, <3>2
      <3> QED BY <1>3, <3>1, <3>3
    <2>2. CASE ~Starts(m)
      <3>1. t_reordering /\ ~StopsReordering(r)
        BY <1>2, <1>13, <2>2 DEF Placed, Stays
      <3>2. PICK x : x = vr_x /\ x = vr_x'
        BY <1>2, <2>2, <3>1 DEF Placed
      <3>3. x # r /\ (SnInWindow(x, r) \/ x = PlusSn(r, WINDOW_SIZE))
        BY <3>1, <3>2 DEF StopsReordering
      <3>4. x \in SN /\ DiffSn(x, b) \in 1 .. DiffSn(vr_h, b) /\ DiffSn(vr_h, b) <= DiffSn(h, b)
        BY <1>2, <3>1, <3>2, NewHIs DEF LinkInv, Order
      <3>5. DiffSn(x, r) <= WINDOW_SIZE /\ DiffSn(x, r) # 0
        <4>1. DiffSn(x, r) \in Nat
          BY <1>6, <3>4
        <4>2. x = PlusSn(r, WINDOW_SIZE) => DiffSn(x, r) = WINDOW_SIZE
          BY <1>3, <3>4, DiffWindow
        <4>3. DiffSn(x, r) # 0
          BY <1>3, <3>3, <3>4, DiffZero
        <4> QED BY <3>3, <4>1, <4>2, <4>3, WindowAssumption DEF SnInWindow
      <3>6. vr_h \in SN
        BY Geometry
      <3>7. DiffSn(x, b) >= DiffSn(r, b)
        BY <1>3, <3>4, <3>5, <3>6, WindowAssumption DEF SN, SN_MODULO, DiffSn
      <3>8. DiffSn(x, r) = DiffSn(x, b) - DiffSn(r, b)
        BY <1>7, <3>4, <3>7
      <3>9. DiffSn(x, r) \in 1 .. DiffSn(h, r)
        BY <1>3, <1>5, <1>6, <3>4, <3>5, <3>6, <3>8
      <3> QED BY <3>2, <3>4, <3>9
    <2> QED BY <2>1, <2>2
  <1>14. Order'
    <2>1. DiffSn(r, a) <= DiffSn(s, a) /\ DiffSn(h, r) <= DiffSn(s, r)
      BY <1>3, <1>5, <1>6
    <2>2. DiffSn(n, r) <= DiffSn(h, r)
      BY <1>3, <1>5, <1>6, <1>7, <1>12
    <2>3. Of(receiver_buffer', n) = {}
      BY <1>8, <1>12 DEF Of, From
    <2> QED BY <1>8, <1>11, <1>13, <2>1, <2>2, <2>3 DEF Order, Missing
  <1>15. Pieces'
    <2>1. ASSUME NEW sn \in Expected'
          PROVE  /\ pdu'[Slot(sn)].mem /\ Start(NextSn(sn))' = First(sn)' + Payload(sn)'
                 /\ First(sn)' + Payload(sn)' <= Sent'
      <3>1. sn \in Expected
        BY <1>10
      <3>2. /\ pdu[Slot(sn)].mem /\ Start(NextSn(sn)) = First(sn) + Payload(sn)
            /\ First(sn) + Payload(sn) <= Sent
        BY <3>1 DEF LinkInv, Pieces
      <3> QED BY <1>1, <1>9, <3>2
    <2> QED BY <2>1 DEF Pieces
  <1>16. InFlight'
    BY <1>1, <1>9, <1>10 DEF LinkInv, InFlight
  <1>17. Buffer'
    <2>1. ASSUME NEW e \in From(With(m), DiffSn(r, b))
          PROVE  /\ e.sn \in SN /\ DiffSn(e.sn, r) \in 1 .. DiffSn(h, r) - 1 /\ e = Whole(e.sn)
      <3>1. e \in With(m) /\ DiffSn(e.sn, b) >= DiffSn(r, b)
        BY <1>2 DEF From
      <3>2. /\ e.sn \in SN /\ e = Whole(e.sn) /\ DiffSn(e.sn, b) \in 0 .. DiffSn(h, b) - 1 /\ e.sn # r
        BY <1>2, <3>1, NewHIs, ListIs DEF WholeBuffer
      <3>3. DiffSn(e.sn, r) # 0
        BY <1>3, <3>2, DiffZero
      <3>4. DiffSn(e.sn, r) = DiffSn(e.sn, b) - DiffSn(r, b)
        BY <1>7, <3>1, <3>2
      <3>5. DiffSn(e.sn, r) \in 1 .. DiffSn(h, r) - 1
        BY <1>3, <1>5, <1>6, <3>2, <3>3, <3>4
      <3> QED BY <3>2, <3>5
    <2> QED BY <1>8, <1>9, <2>1 DEF Buffer
  <1>18. Delivered'
    <2>1. PICK i, j \in Nat : i = Start(b) /\ j = Start(r) /\ i <= j
      <3>1. /\ DiffSn(r, b) \in 0 .. DiffSn(s, b) /\ At(DiffSn(r, b)) = r
        BY <1>2, ListIs
      <3>2. Start(r) \in Start(b) .. Sent /\ Start(b) \in Nat /\ Sent \in Nat
        BY <1>2, <3>1, Chain
      <3> QED BY <3>2
    <2>2. delivered = BytesFrom(0, i)
      BY <1>2, <2>1 DEF LinkInv, Delivered
    <2>3. delivered' = delivered \o BytesFrom(i, j - i)
      BY <1>2, <2>1 DEF Placed
    <2>4. BytesFrom(0, i - 0) \o BytesFrom(i, j - i) = BytesFrom(0, i + (j - i) - 0)
      <3>1. 0 \in Nat /\ j - i \in Nat /\ 0 <= i
        BY <2>1
      <3> QED BY <3>1, BytesJoin
    <2>5. i - 0 = i /\ i + (j - i) - 0 = j
      BY <2>1
    <2>6. delivered' = BytesFrom(0, j)
      BY <2>2, <2>3, <2>4, <2>5
    <2>7. Start(vr_r)' = j
      <3>1. Start(r)' = j
        BY <1>9, <2>1
      <3> QED BY <1>8, <3>1 DEF Start
    <2> QED BY <2>6, <2>7 DEF Delivered
  <1>19. Reports'
    <2>1. ASSUME NEW k \in DOMAIN status
          PROVE  /\ DiffSn(NewVtA(status[k]), a) <= DiffSn(r, a)
                 /\ \A j \in 1 .. k : DiffSn(NewVtA(status[j]), a) <= DiffSn(NewVtA(status[k]), a)
      <3>1. NewVtA(status[k]) \in SN
        <4>1. status[k] \in Report
          BY DEF LinkInv, RxTypes
        <4> QED BY <4>1, ReportOK DEF StatusOK
      <3>2. /\ DiffSn(NewVtA(status[k]), a) <= DiffSn(b, a)
            /\ \A j \in 1 .. k : DiffSn(NewVtA(status[j]), a) <= DiffSn(NewVtA(status[k]), a)
        BY <1>2 DEF LinkInv, Reports
      <3> QED BY <1>3, <1>5, <1>6, <3>1, <3>2
    <2> QED BY <1>1, <1>8, <2>1 DEF Reports, NewVtA
  <1>20. RxTypes'
    <2>1. vr_x' \in SN \cup {Undefined}
      BY <1>2, <1>3 DEF Placed, LinkInv, RxTypes
    <2>2. PlusSn(r, WINDOW_SIZE) \in SN
      BY <1>3, SnClosed
    <2> QED BY <1>1, <1>3, <1>8, <1>11, <1>12, <2>1, <2>2 DEF Placed, LinkInv, RxTypes
  <1> QED BY <1>14, <1>15, <1>16, <1>17, <1>18, <1>19, <1>20 DEF LinkInv

\* rlc_am_receive_process_data_pdu
LEMMA LinkDeliversData ==
    ASSUME LinkInv, TxInv', NEW m \in data, MacDeliversData(m)
    PROVE  LinkInv'
  <1>1. MacTakes(m) /\ (DiscardDataPdu(m) \/ \E old \in StaleFlags : PlaceDataPdu(m, old))
    BY DEF MacDeliversData, ReceiveDataPdu
  <1>2. CASE DiscardDataPdu(m)
    BY <1>1, <1>2, LinkDiscardDataPdu
  <1>3. ASSUME NEW old \in StaleFlags, PlaceDataPdu(m, old) PROVE LinkInv'
    <2>1. Fits(m) /\ UNCHANGED status
      BY <1>3, PlaceIs
    <2>2. CASE Placed(m)
      BY <1>1, <2>1, <2>2, LinkPlaced
    <2>3. CASE UNCHANGED <<vr_r, vr_mr, vr_x, vr_ms, vr_h, receiver_buffer, t_reordering,
                           status_requested, sn_delayed, delivered>>
      <3>1. UNCHANGED <<vt_a, vt_s, pdu, taken, sdu_occupancy, status>> /\ data' \subseteq data
        BY <1>1, <2>1 DEF MacTakes, windowVars
      <3>2. RxTypes' /\ Order'
        BY <2>3, <3>1 DEF LinkInv, RxTypes, Order, Missing
      <3>3. Reports'
        BY <2>3, <3>1 DEF LinkInv, Reports, NewVtA
      <3> QED BY <2>3, <3>1, <3>2, <3>3, FrameOfRx
    <2> QED BY <1>3, <2>2, <2>3, PlaceIs
  <1> QED BY <1>1, <1>2, <1>3

-----------------------------------------------------------------------------
(* The steps of the bearer. *)

\* Each of them is a step of the transmitter, or leaves it alone.
LEMMA LinkStepIsTxStep == LinkInv /\ [LinkNext]_vars => [TxStep]_txVars
  <1> SUFFICES ASSUME LinkInv, [LinkNext]_vars PROVE TxStep \/ UNCHANGED txVars
    OBVIOUS
  <1>1. CASE UNCHANGED vars
    BY <1>1 DEF vars
  <1>2. CASE \E size \in SduSizes : DataReq(size) /\ UNCHANGED rxVars
    BY <1>2 DEF TxStep
  <1>3. CASE TxProgress \/ UNCHANGED txVars
    BY <1>3 DEF TxStep
  <1>4. ASSUME NEW m \in data, MacLosesData(m) \/ MacDeliversData(m) PROVE TxStep
    BY <1>4 DEF TxStep, MacLosesData, MacDeliversData
  <1>5. ASSUME NEW k \in DOMAIN status, MacDeliversStatus(k) PROVE TxStep
    <2>1. PICK st : st = status[k]
      OBVIOUS
    <2>2. st \in Report
      BY <2>1 DEF LinkInv, RxTypes
    <2>3. StatusOK(st) /\ ReceiveStatus(st)
      BY <1>5, <2>1, <2>2, ReportOK DEF MacDeliversStatus
    <2> QED BY <2>3 DEF TxStep
  <1>6. ReceivableStatus \subseteq DOMAIN status
    BY DEF ReceivableStatus
  <1> QED BY <1>1, <1>2, <1>3, <1>4, <1>5, <1>6 DEF LinkNext, Progress, MacLosesStatus

\* So the transmitter keeps its types and its window.
LEMMA TxInvNext == LinkInv /\ [LinkNext]_vars => TxInv'
  BY LinkStepIsTxStep, TypeNext, WindowNext DEF LinkInv, TxInv

\* Every step of the bearer keeps the invariant.
LEMMA LinkInvNext ==
    ASSUME ~StatusReorder, LinkInv, WholePdus', [LinkNext]_vars
    PROVE  LinkInv'
  <1>1. TxInv'
    BY TxInvNext
  <1>2. CASE UNCHANGED vars
    <2>1. UNCHANGED <<vt_a, vt_s, pdu, rxVars>> /\ Sent' = Sent /\ data' \subseteq data
      BY <1>2 DEF vars, txVars, Sent
    <2>2. InFlight'
      BY <2>1, InFlightLess DEF LinkInv, rxVars
    <2> QED BY <1>1, <2>1, <2>2, FrameOfTx
  <1>3. ASSUME NEW size \in SduSizes, DataReq(size), UNCHANGED rxVars PROVE LinkInv'
    BY <1>1, <1>3, LinkDataReq
  <1>4. CASE TxProgress /\ MacLifetime' /\ UNCHANGED rxVars
    BY <1>1, <1>4, LinkRetransmit, LinkNewPdu, LinkQuiet DEF TxProgress
  <1>5. CASE RxStep /\ UNCHANGED txVars
    BY <1>1, <1>5, LinkSendStatusPdu, LinkStatusProhibitExpiry, LinkReorderingExpiry DEF RxStep
  <1>6. ASSUME NEW m \in data, MacLosesData(m) \/ MacDeliversData(m) PROVE LinkInv'
    BY <1>1, <1>6, LinkLosesData, LinkDeliversData
  <1>7. ASSUME NEW k \in DOMAIN status, MacLosesStatus(k) PROVE LinkInv'
    BY <1>1, <1>7, LinkLosesStatus
  <1>8. ASSUME NEW k \in ReceivableStatus, MacDeliversStatus(k) PROVE LinkInv'
    <2>1. k = 1 /\ 1 \in DOMAIN status
      BY DEF ReceivableStatus
    <2>2. PICK st : st = status[1]
      OBVIOUS
    <2>3. ReceiveStatus(st) /\ MacTakesStatus(1)
      BY <1>8, <2>1, <2>2 DEF MacDeliversStatus
    <2> QED BY <1>1, <2>1, <2>2, <2>3, LinkDeliversStatus
  <1> QED BY <1>2, <1>3, <1>4, <1>5, <1>6, <1>7, <1>8 DEF LinkNext, Progress

(***************************************************************************)
(* The invariant holds as long as no PDU was sent in segments.             *)
(***************************************************************************)
LEMMA LinkInvariant ==
    ASSUME ~StatusReorder
    PROVE  LinkSpec /\ []WholePdus => []LinkInv
  <1>1. LinkInv /\ WholePdus' /\ [LinkNext]_vars => LinkInv'
    BY LinkInvNext
  <1> QED BY <1>1, LinkInvInit, PTL DEF LinkSpec

-----------------------------------------------------------------------------
(* What the invariant says about the bearer. *)

(***************************************************************************)
(* The types of both sides hold for every window size and configuration,   *)
(* while the PDUs sent are whole and full: no sequence number leaves       *)
(* 0 .. SN_MODULO - 1 when the numbers wrap around (the RLC_AM_NEXT_SN     *)
(* masks of rlc_am_receiver.c).                                            *)
(***************************************************************************)
THEOREM LinkTypeCorrect ==
    ASSUME ~StatusReorder
    PROVE  LinkSpec /\ []WholePdus => []LinkTypeOK
  <1>1. LinkInv => LinkTypeOK
    <2> SUFFICES ASSUME LinkInv PROVE LinkTypeOK
      OBVIOUS
    <2>1. ASSUME NEW e \in receiver_buffer
          PROVE  /\ e.sn \in SN /\ e.so \in Nat /\ e.len \in Nat
                 /\ e.reassembled \in {"NO", "PENDING", "REASSEMBLED"}
      <3>1. e.sn \in SN /\ e = Whole(e.sn)
        BY BufferIsWhole DEF WholeBuffer
      <3>2. Payload(e.sn) \in Nat
        BY <3>1, EntryNumbers DEF LinkInv, TxInv
      <3>3. Whole(e.sn).so = 0 /\ Whole(e.sn).len = Payload(e.sn) /\ Whole(e.sn).reassembled = "NO"
        BY DEF Whole
      <3> QED BY <3>1, <3>2, <3>3
    <2>2. delivered \in Seq(Nat \cup {Unwritten})
      <3>1. Start(vr_r) \in Nat
        BY Chain
      <3> QED BY <3>1 DEF LinkInv, Delivered, BytesFrom
    <2> QED BY <2>1, <2>2 DEF LinkInv, TxInv, RxTypes, LinkTypeOK, Flags
  <1> QED BY <1>1, LinkInvariant, PTL

(***************************************************************************)
(* The two windows agree, while the PDUs sent are whole and full: the      *)
(* receiver never waits for a PDU whose block the transmitter has freed,   *)
(* and VR(R) <= VR(MS) <= VR(H) <= VT(S)                                   *)
(* (rlc_am_receive_process_control_pdu moves VT(A) on the word of a STATUS *)
(* PDU, rlc_am_rx_update_vr_r and rlc_am_rx_update_vr_ms move the others). *)
(***************************************************************************)
THEOREM LinkWindowsAgree ==
    ASSUME ~StatusReorder
    PROVE  LinkSpec /\ []WholePdus => []WindowsAgree
  <1>1. LinkInv => WindowsAgree
    <2> SUFFICES ASSUME LinkInv PROVE WindowsAgree
      OBVIOUS
    <2>1. /\ vt_a \in SN /\ vt_s \in SN /\ vr_r \in SN /\ vr_h \in SN
          /\ DiffSn(vt_s, vr_r) = DiffSn(vt_s, vt_a) - DiffSn(vr_r, vt_a)
          /\ DiffSn(vr_h, vr_r) \in 0 .. DiffSn(vt_s, vr_r)
      BY Geometry
    <2>2. DiffSn(vr_h, vt_a) <= DiffSn(vt_s, vt_a)
      BY <2>1, WindowAssumption DEF SN, SN_MODULO, DiffSn
    <2> QED BY <2>2 DEF LinkInv, Order, WindowsAgree
  <1> QED BY <1>1, LinkInvariant, PTL

\* A byte that was sent and not delivered is in the block of one of the PDUs the receiver waits for.
LEMMA ByteIsHeld ==
    ASSUME LinkInv, NEW b \in Start(vr_r) .. Sent - 1
    PROVE  \E i \in Slots : pdu[i].mem /\ b \in BytesOfPdu(i)
  <1>1. PICK n \in Nat : n = DiffSn(vt_s, vr_r)
    BY Geometry, WindowAssumption
  <1>2. /\ \A k \in 0 .. n : Start(At(k)) \in Nat
        /\ At(0) = vr_r /\ At(n) = vt_s /\ Start(vr_r) \in Nat /\ Sent \in Nat /\ b \in Nat
    <2>1. Start(vr_r) \in Nat /\ Sent \in Nat
      BY Chain
    <2>2. \A k \in 0 .. n : Start(At(k)) \in Start(vr_r) .. Sent
      BY <1>1, Chain
    <2> QED BY <1>1, <2>1, <2>2, Chain
  <1> DEFINE K == {k \in 0 .. n : b < Start(At(k))}
  <1>3. n \in K
    BY <1>2 DEF Start
  <1>4. K \in SUBSET Nat /\ K # {}
    BY <1>3
  <1>5. PICK k \in K : \A j \in K : k <= j
    BY <1>4, SmallestExists, Zenon
  <1>6. k \in 1 .. n /\ k - 1 \in 0 .. n - 1 /\ (k - 1) + 1 = k /\ k - 1 \notin K
    <2>1. k # 0
      BY <1>2
    <2> QED BY <1>5, <2>1
  <1>7. Start(At(k - 1)) <= b /\ b < Start(At(k))
    BY <1>2, <1>6
  <1>8. PICK q : q = At(k - 1)
    OBVIOUS
  <1>9. /\ q \in Expected /\ q \in SN /\ Start(q) = First(q)
        /\ Start(At(k)) = First(q) + Payload(q)
    BY <1>1, <1>6, <1>8, Chain
  <1>10. Slot(q) \in Slots /\ pdu[Slot(q)].mem /\ First(q) \in Nat /\ Payload(q) \in Nat
    BY <1>9, SlotInSlots, EntryNumbers DEF LinkInv, TxInv, Pieces
  <1>11. b \in First(q) .. First(q) + Payload(q) - 1
    BY <1>2, <1>7, <1>8, <1>9, <1>10
  <1> QED BY <1>10, <1>11 DEF BytesOfPdu, First, Payload

(***************************************************************************)
(* No byte is lost while the PDUs sent are whole and full: what left the   *)
(* transmission buffer and has not been delivered is in the block of a PDU *)
(* that is held for retransmission, although rlc_am_ack_pdu frees blocks   *)
(* on the word of a STATUS PDU alone.                                      *)
(***************************************************************************)
THEOREM LinkNoByteLost ==
    ASSUME ~StatusReorder
    PROVE  LinkSpec /\ []WholePdus => []NoByteLost
  <1>1. LinkInv => NoByteLost
    <2> SUFFICES ASSUME LinkInv PROVE NoByteLost
      OBVIOUS
    <2>1. Start(vr_r) \in Nat /\ delivered = BytesFrom(0, Start(vr_r))
      BY Chain DEF LinkInv, Delivered
    <2>2. Len(delivered) = Start(vr_r)
      BY <2>1 DEF BytesFrom
    <2> QED BY <2>2, ByteIsHeld DEF NoByteLost, Sent
  <1> QED BY <1>1, LinkInvariant, PTL

-----------------------------------------------------------------------------
(* The byte pipe. *)

\* What a reception delivers are the next bytes, as many as there are at most.
LEMMA DeliveryIsNext ==
    ASSUME LinkInv, NEW m \in data, MacDeliversData(m)
    PROVE  /\ UNCHANGED taken
           /\ \/ UNCHANGED delivered
              \/ \E n \in 1 .. taken - Len(delivered) :
                    delivered' = delivered \o [k \in 1 .. n |-> Len(delivered) + k - 1]
  <1>1. /\ UNCHANGED taken
        /\ DiscardDataPdu(m) \/ \E old \in StaleFlags : PlaceDataPdu(m, old)
    BY DEF MacDeliversData, MacTakes, ReceiveDataPdu
  <1>2. CASE DiscardDataPdu(m)
    BY <1>1, <1>2 DEF DiscardDataPdu
  <1>3. ASSUME NEW old \in StaleFlags, PlaceDataPdu(m, old), delivered' # delivered
        PROVE  \E n \in 1 .. taken - Len(delivered) :
                  delivered' = delivered \o [k \in 1 .. n |-> Len(delivered) + k - 1]
    <2>1. Fits(m) /\ Placed(m)
      BY <1>3, PlaceIs
    <2>2. PICK i, j \in Nat : /\ i = Start(vr_r) /\ j = Start(NewR(m)) /\ i <= j /\ j <= Sent
      <3>1. /\ DiffSn(NewR(m), vr_r) \in 0 .. DiffSn(vt_s, vr_r)
            /\ At(DiffSn(NewR(m), vr_r)) = NewR(m)
        BY <2>1, ListIs
      <3>2. Start(NewR(m)) \in Start(vr_r) .. Sent /\ Start(vr_r) \in Nat /\ Sent \in Nat
        BY <3>1, Chain
      <3> QED BY <3>2
    <2>3. delivered = BytesFrom(0, i) /\ delivered' = delivered \o BytesFrom(i, j - i)
      BY <2>1, <2>2 DEF LinkInv, Delivered, Placed
    <2>4. Len(delivered) = i /\ delivered \in Seq(Nat)
      BY <2>2, <2>3 DEF BytesFrom
    <2>5. j # i
      <3>1. SUFFICES ASSUME j = i PROVE FALSE
        OBVIOUS
      <3>2. BytesFrom(i, j - i) = <<>>
        BY <2>2, <3>1 DEF BytesFrom
      <3>3. delivered \o <<>> = delivered
        BY <2>4, ConcatEmptySeq
      <3> QED BY <1>3, <2>3, <3>2, <3>3
    <2>6. Sent <= taken /\ taken \in Nat
      BY TxAssumption DEF Sent, LinkInv, TxInv, TxTypeOK
    <2>7. j - i \in 1 .. taken - i
      BY <2>2, <2>5, <2>6, EntryNumbers DEF LinkInv, TxInv
    <2>8. BytesFrom(i, j - i) = [k \in 1 .. j - i |-> i + k - 1]
      BY DEF BytesFrom
    <2> QED BY <2>3, <2>4, <2>7, <2>8
  <1> QED BY <1>1, <1>2, <1>3

\* Every step of the bearer hands bytes over, delivers the next bytes, or is none of the pipe's.
LEMMA LinkStepIsServiceStep ==
    LinkInv /\ [LinkNext]_vars => [Service!ServiceNext]_(Service!serviceVars)
  <1> SUFFICES ASSUME LinkInv, [LinkNext]_vars
               PROVE  Service!ServiceNext \/ UNCHANGED <<taken, delivered>>
    BY DEF Service!serviceVars
  <1>1. CASE UNCHANGED vars
    BY <1>1 DEF vars, txVars, rxVars
  <1>2. ASSUME NEW size \in SduSizes, DataReq(size), UNCHANGED rxVars PROVE Service!ServiceNext
    <2>1. Service!Accept(size)
      BY <1>2 DEF Service!Accept, DataReq, rxVars
    <2> QED BY <2>1 DEF Service!ServiceNext
  <1>3. CASE TxProgress /\ UNCHANGED rxVars
    BY <1>3 DEF TxProgress, Retransmit, NewPdu, OnlyGiveUp, PollRetransmitExpiry, rxVars
  <1>4. CASE RxStep /\ UNCHANGED txVars
    BY <1>4 DEF RxStep, SendStatusPdu, StatusProhibitExpiry, ReorderingExpiry, txVars
  <1>5. ASSUME NEW m \in data, MacLosesData(m) PROVE UNCHANGED <<taken, delivered>>
    BY <1>5 DEF MacLosesData, MacTakes, rxVars
  <1>6. ASSUME NEW m \in data, MacDeliversData(m)
        PROVE  Service!ServiceNext \/ UNCHANGED <<taken, delivered>>
    BY <1>6, DeliveryIsNext DEF Service!ServiceNext, Service!Deliver
  <1>7. ASSUME NEW k, MacLosesStatus(k) \/ MacDeliversStatus(k) PROVE UNCHANGED <<taken, delivered>>
    BY <1>7 DEF MacLosesStatus, MacDeliversStatus, MacTakesStatus, ReceiveStatus, txVars
  <1> QED BY <1>1, <1>2, <1>3, <1>4, <1>5, <1>6, <1>7 DEF LinkNext, Progress

(***************************************************************************)
(* The bearer implements the byte pipe while the PDUs sent are whole and   *)
(* full: whatever MAC loses or reorders and whenever the timers expire,    *)
(* bytes come out in order, each once, none made up                        *)
(* (rlc_am_receive_process_data_pdu, rlc_am_reassembly.c).  Without the    *)
(* hypothesis it does not: a filler of rlc_am_segment_10 comes out as      *)
(* bytes nobody wrote, and a truncated segment may make bytes come out     *)
(* twice (link_stale.cfg).                                                 *)
(***************************************************************************)
THEOREM LinkImplementsService ==
    ASSUME ~StatusReorder
    PROVE  LinkSpec /\ []WholePdus => ImplementsService
  <1>1. LinkInit => Service!ServiceInit
    BY DEF LinkInit, TxInit, RxInit, Service!ServiceInit
  <1> QED BY <1>1, LinkInvariant, LinkStepIsServiceStep, PTL
          DEF LinkSpec, ImplementsService, Service!ServiceSpec

=============================================================================
