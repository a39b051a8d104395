------------------------------- MODULE RlcAmTx -------------------------------
(***************************************************************************)
(* The transmitting side of an RLC acknowledged-mode entity: rlc_am.c,     *)
(* rlc_am_segment.c, rlc_am_retransmit.c, rlc_am_status_report.c (the      *)
(* reception of a STATUS PDU) and rlc_am_timer_poll_retransmit.c.          *)
(*                                                                         *)
(* The bytes of the SDUs given to the entity are numbered 0, 1, 2, ...; a  *)
(* PDU carries an interval of them, so the payload of a PDU is the number  *)
(* of its first byte and its length.  `ends` says where the SDUs end: an   *)
(* SDU that ends inside a PDU takes a length indicator there, and where no *)
(* length indicator fits the PDU has a filler, bytes nobody wrote.  How    *)
(* the receiver cuts SDUs out of the stream (framing info) is left out, as *)
(* are the limits of 128 SDUs to a PDU and of 11 bits to a length          *)
(* indicator.                                                              *)
(***************************************************************************)
EXTENDS RlcAmSn, Sequences, FiniteSets, FiniteSetsExt

CONSTANTS
    DataGrants,          \* transport-block sizes (bytes) MAC may offer for a data PDU
    SduSizes,            \* sizes of the SDUs the upper layer hands over
    MaxBytes,            \* bound: bytes handed over in a behaviour
    MaxInFlight,         \* bound: data PDUs between the two MAC layers
    max_retx_threshold,  \* configuration: maxRetxThreshold
    poll_pdu,            \* configuration: pollPDU
    poll_byte,           \* configuration: pollByte
    RangeLists           \* the lists of SO ranges a NACK of a STATUS PDU may carry

ASSUME TxAssumption ==
    /\ DataGrants \subseteq Nat
    /\ SduSizes \subseteq Nat \ {0}
    /\ MaxBytes \in Nat
    /\ MaxInFlight \in Nat
    /\ max_retx_threshold \in Nat
    /\ poll_pdu \in Nat
    /\ poll_byte \in Nat
    /\ RangeLists \subseteq Seq([start : Nat, stop : Nat])

HEADER == 2          \* RLC_AM_HEADER_MIN_SIZE: header of a PDU without length indicator
SEGMENT_HEADER == 4  \* RLC_AM_PDU_SEGMENT_HEADER_MIN_SIZE
MAX_HOLES == 16      \* RLC_AM_MAX_HOLES_REPORT_PER_PDU
SO_END_ALL == 32767  \* RLC_AM_STATUS_PDU_SO_END_ALL_BYTES, 0x7FFF

VARIABLES
    vt_a, vt_s, vt_ms,   \* rlc_am_entity_t
    poll_sn,             \* POLL_SN, or Undefined
    poll,                \* c_pdu_without_poll, c_byte_without_poll, force_poll
    t_poll_retransmit,   \* .running
    sdu_occupancy,       \* sdu_buffer_occupancy
    taken,               \* bytes handed over by the upper layer so far
    ends,                \* where the SDUs end: the numbers of the bytes that follow them
    pdu,                 \* tx_data_pdu_buffer: what the PDU is
    ctl,                 \* tx_data_pdu_buffer: its acknowledgement and retransmission state
    retrans,             \* retrans_num_pdus, retrans_num_bytes_to_retransmit
    data,                \* data PDUs given to MAC, neither received nor lost yet
    tx_fatal             \* the AssertFatal that stopped the process, or "none"

windowVars == <<vt_a, vt_s, vt_ms>>
pollVars == <<poll_sn, poll, t_poll_retransmit>>
txVars == <<vt_a, vt_s, vt_ms, poll_sn, poll, t_poll_retransmit, sdu_occupancy, taken, ends,
            pdu, ctl, retrans, data, tx_fatal>>

Outstanding == Between(vt_a, vt_s)

(***************************************************************************)
(* One entry of tx_data_pdu_buffer, rlc_am_tx_data_pdu_management_t.       *)
(* `mem` is mem_block != NULL; `filler` the bytes at the end of the PDU    *)
(* that nobody wrote.  num_holes is Len(holes); retx_hole_index counts     *)
(* from 1 here.                                                            *)
(***************************************************************************)
NoPdu == [sn |-> 0, mem |-> FALSE, first |-> 0, payload |-> 0, filler |-> 0]

Fresh == [ack |-> FALSE, retransmit |-> FALSE, transmitted |-> FALSE, max_retransmit |-> FALSE,
          retx_count |-> 0, retx_count_next |-> 0, retx_payload |-> 0,
          holes |-> <<>>, retx_hole_index |-> 1, nack_so_start |-> 0]

TxInit ==
    /\ vt_a = 0 /\ vt_s = 0 /\ vt_ms = WINDOW_SIZE
    /\ poll_sn = 0
    /\ poll = [pdus |-> 0, bytes |-> 0, force |-> FALSE]
    /\ t_poll_retransmit = FALSE
    /\ sdu_occupancy = 0 /\ taken = 0 /\ ends = {}
    /\ pdu = [i \in Slots |-> NoPdu]
    /\ ctl = [i \in Slots |-> Fresh]
    /\ retrans = [pdus |-> 0, bytes |-> 0]
    /\ data = {}
    /\ tx_fatal = "none"

Room == Cardinality(data) < MaxInFlight

-----------------------------------------------------------------------------
\* rlc_am_data_req: the upper layer hands an SDU over.  One that finds input_sdus full is dropped:
\* it is never handed over, and a step that drops it changes nothing here (but see Pdcp).
DataReq(size) ==
    /\ tx_fatal = "none"
    /\ taken + size <= MaxBytes
    /\ taken' = taken + size
    /\ ends' = ends \cup {taken + size}
    /\ sdu_occupancy' = sdu_occupancy + size
    /\ UNCHANGED <<windowVars, pollVars, pdu, ctl, retrans, data, tx_fatal>>

(***************************************************************************)
(* rlc_am_pdu_polling: decides the P bit of the PDU that is about to leave *)
(* and, when it is set, resets the counters, records POLL_SN and restarts  *)
(* t-PollRetransmit.  s, ms, occupancy and pending are vt_s, vt_ms,        *)
(* sdu_buffer_occupancy and retrans_num_bytes_to_retransmit as the caller  *)
(* has left them; size is 0 for a retransmission.                          *)
(***************************************************************************)
Counted(size) ==
    [poll EXCEPT !.pdus = IF size = 0 \/ poll_pdu = 0 THEN @ ELSE @ + 1,
                 !.bytes = IF poll_byte = 0 THEN @ ELSE @ + size]

\* Mutant of PollNeeded: the last PDU of a burst does not poll.
PollNeededNotLast(size, s, occupancy, pending) ==
    \/ size # 0 /\ poll_pdu # 0 /\ Counted(size).pdus >= poll_pdu
    \/ size # 0 /\ poll_byte # 0 /\ Counted(size).bytes >= poll_byte
    \/ s = vt_ms
    \/ poll.force

\* A configured value 0 stands for the "infinite" of the configuration.
PollNeeded(size, s, occupancy, pending) ==
    \/ size # 0 /\ poll_pdu # 0 /\ Counted(size).pdus >= poll_pdu
    \/ size # 0 /\ poll_byte # 0 /\ Counted(size).bytes >= poll_byte
    \/ occupancy = 0 /\ pending = 0
    \/ s = vt_ms
    \/ poll.force

Polling(size, s, occupancy, pending) ==
    IF PollNeeded(size, s, occupancy, pending)
    THEN /\ poll' = [pdus |-> 0, bytes |-> 0, force |-> FALSE]
         /\ poll_sn' = PrevSn(s)
         /\ t_poll_retransmit' = TRUE
    ELSE /\ poll' = Counted(size)
         /\ UNCHANGED <<poll_sn, t_poll_retransmit>>

-----------------------------------------------------------------------------
(***************************************************************************)
(* Length indicators: 12 bits for every SDU that ends before the last of   *)
(* the n bytes from byte `from` on, rounded up to bytes.  Longest is how   *)
(* many bytes, max at most, a PDU with `room` bytes behind its fixed       *)
(* header takes.                                                           *)
(***************************************************************************)
EndsInside(from, n) == {b \in ends : from < b /\ b < from + n}
LiBytes(from, n) == (3 * Cardinality(EndsInside(from, n)) + 1) \div 2
Longest(from, max, room) == Max({n \in 1 .. max : n + LiBytes(from, n) <= room})

-----------------------------------------------------------------------------
(***************************************************************************)
(* rlc_am_get_pdu_to_retransmit walks from VT(A) to VT(S) and retransmits  *)
(* the first PDU it can: the whole of it when all of it is pending and the *)
(* grant is large enough, else a segment of it.  On its way it gives up,   *)
(* for good, PDUs whose retransmission count is over the threshold.        *)
(***************************************************************************)
Due(sn) == ctl[Slot(sn)].retransmit /\ ~ctl[Slot(sn)].max_retransmit

\* header_and_payload_size
PduSize(i) == HEADER + LiBytes(pdu[i].first, pdu[i].payload) + pdu[i].payload + pdu[i].filler

SendsWhole(sn, grant) ==
    /\ ctl[Slot(sn)].retx_payload = pdu[Slot(sn)].payload
    /\ grant >= PduSize(Slot(sn))

GrantFits(sn, grant) == SendsWhole(sn, grant) \/ grant >= SEGMENT_HEADER + 1

TooManyRetx(sn) == ctl[Slot(sn)].retx_count_next > max_retx_threshold

Retransmittable(grant) ==
    {sn \in Outstanding : Due(sn) /\ GrantFits(sn, grant) /\ ~TooManyRetx(sn)}

\* The PDU that is sent; VT(S) when there is none.
PduToRetransmit(grant) == FirstIn(Retransmittable(grant), vt_a, vt_s)

\* The entries visited up to the one sent, and those of them that are given up.
Visited(grant) ==
    {sn \in Outstanding : DiffSn(sn, vt_a) <= DiffSn(PduToRetransmit(grant), vt_a)}

GivenUp(grant) ==
    [i \in Slots |->
        IF \E sn \in Visited(grant) :
              Slot(sn) = i /\ Due(sn) /\ GrantFits(sn, grant) /\ TooManyRetx(sn)
        THEN [ctl[i] EXCEPT !.max_retransmit = TRUE]
        ELSE ctl[i]]

\* The AssertFatals on every due PDU the walk meets.
RetransmitAsserts(grant) ==
    /\ retrans.pdus > 0 /\ vt_a # vt_s
    /\ \A sn \in Visited(grant) :
          Due(sn) => /\ pdu[Slot(sn)].sn = sn
                     /\ ctl[Slot(sn)].transmitted
                     /\ ctl[Slot(sn)].retx_payload > 0

(***************************************************************************)
(* rlc_am_retransmit_get_am_segment: the next piece of the first hole that *)
(* is not finished.  With no hole recorded the whole PDU is one hole.  It  *)
(* stops the process on a PDU with a filler: the sizes of its header and   *)
(* payload do not add up.                                                  *)
(***************************************************************************)
Holes(i) == IF ctl[i].holes = <<>> THEN <<[start |-> 0, stop |-> pdu[i].payload - 1]>>
            ELSE ctl[i].holes
HoleIndex(i) == IF ctl[i].holes = <<>> THEN 1 ELSE ctl[i].retx_hole_index
Hole(i) == Holes(i)[HoleIndex(i)]
HoleSize(i) == Hole(i).stop - Hole(i).start + 1

SegmentSize(i, grant) ==
    Longest(pdu[i].first + Hole(i).start, HoleSize(i), grant - SEGMENT_HEADER)

SegmentAsserts(i, grant) ==
    /\ pdu[i].mem
    /\ pdu[i].filler = 0
    /\ ctl[i].holes = <<>> => ctl[i].retx_payload = pdu[i].payload
    /\ Hole(i).start <= Hole(i).stop
    /\ EndsInside(pdu[i].first, pdu[i].payload) # {} => SegmentSize(i, grant) < pdu[i].payload
    /\ ctl[i].retx_payload >= SegmentSize(i, grant)
    /\ retrans.bytes >= SegmentSize(i, grant)

\* The entry after a segment of n bytes was cut out of its current hole.
AfterSegment(i, n) ==
    LET hole == HoleIndex(i)
        left == ctl[i].retx_payload - n
        base == [ctl[i] EXCEPT !.retx_payload = left,
                               !.retransmit = left # 0,
                               !.retx_count = ctl[i].retx_count_next]
    IN  CASE n < HoleSize(i) ->
               [base EXCEPT !.holes = [Holes(i) EXCEPT ![hole].start = @ + n],
                            !.retx_hole_index = hole,
                            !.nack_so_start = Hole(i).start + n]
          [] n = HoleSize(i) /\ hole < Len(Holes(i)) ->
               [base EXCEPT !.holes = Holes(i),
                            !.retx_hole_index = hole + 1,
                            !.nack_so_start = Holes(i)[hole + 1].start]
          [] OTHER ->
               [base EXCEPT !.holes = <<>>, !.retx_hole_index = 1, !.nack_so_start = 0]

AfterWhole(i) == [ctl[i] EXCEPT !.retx_payload = 0, !.retransmit = FALSE,
                                !.retx_count = ctl[i].retx_count_next]

\* What MAC is given: an AMD PDU, or an AMD PDU segment (rf) of n bytes from offset so.
DataPdu(i, rf, so, n, p) ==
    [sn |-> pdu[i].sn, rf |-> rf, so |-> so, first |-> pdu[i].first + so, len |-> n,
     filler |-> IF rf THEN 0 ELSE pdu[i].filler, lsf |-> rf /\ so + n = pdu[i].payload, p |-> p]

RetransmitWhole(sn, grant) ==
    LET i == Slot(sn)
        pending == retrans.bytes - ctl[i].retx_payload
    IN  /\ SendsWhole(sn, grant)
        /\ IF pdu[i].mem
           THEN /\ retrans' = [pdus |-> retrans.pdus - 1, bytes |-> pending]
                /\ ctl' = [GivenUp(grant) EXCEPT ![i] = AfterWhole(i)]
                /\ Polling(0, vt_s, sdu_occupancy, pending)
                /\ data' = data \cup {DataPdu(i, FALSE, 0, pdu[i].payload,
                                              PollNeeded(0, vt_s, sdu_occupancy, pending))}
                /\ UNCHANGED tx_fatal
           ELSE /\ tx_fatal' = "get_copy"
                /\ UNCHANGED <<pollVars, ctl, retrans, data>>

RetransmitSegment(sn, grant) ==
    LET i == Slot(sn)
        n == SegmentSize(i, grant)
        pending == retrans.bytes - n
    IN  /\ ~SendsWhole(sn, grant)
        /\ IF SegmentAsserts(i, grant)
           THEN /\ retrans' = [pdus |-> retrans.pdus - IF ctl[i].retx_payload = n THEN 1 ELSE 0,
                               bytes |-> pending]
                /\ ctl' = [GivenUp(grant) EXCEPT ![i] = AfterSegment(i, n)]
                /\ Polling(0, vt_s, sdu_occupancy, pending)
                /\ data' = data \cup {DataPdu(i, TRUE, Hole(i).start, n,
                                              PollNeeded(0, vt_s, sdu_occupancy, pending))}
                /\ UNCHANGED tx_fatal
           ELSE /\ tx_fatal' = "get_am_segment"
                /\ UNCHANGED <<pollVars, ctl, retrans, data>>

\* The second part of rlc_am_get_pdus, when it finds a PDU to retransmit or dies in the attempt.
Retransmit(grant) ==
    /\ tx_fatal = "none"
    /\ retrans.bytes # 0 /\ grant > HEADER /\ Room
    /\ \/ /\ ~RetransmitAsserts(grant)
          /\ tx_fatal' = "get_pdu_to_retransmit"
          /\ UNCHANGED <<pollVars, ctl, retrans, data>>
       \/ /\ RetransmitAsserts(grant)
          /\ \E sn \in Retransmittable(grant) \cap {PduToRetransmit(grant)} :
                RetransmitWhole(sn, grant) \/ RetransmitSegment(sn, grant)
    /\ UNCHANGED <<windowVars, sdu_occupancy, taken, ends, pdu>>

(***************************************************************************)
(* The rest of rlc_am_get_pdus: nothing was retransmitted (but PDUs may    *)
(* have been given up), and rlc_am_segment_10 builds one new PDU in the    *)
(* entry of VT(S).  Its first pass counts the length indicators.  When the *)
(* PDU can take no byte behind an SDU that ends in it, it reduces          *)
(* pdu_remaining_size ("reduce the size of the PDU") but not               *)
(* data_pdu_size, of which tb_size is computed: the PDU keeps its size,    *)
(* and the bytes behind the SDU are a filler.                              *)
(***************************************************************************)
NothingRetransmitted(grant) ==
    retrans.bytes = 0 \/ (RetransmitAsserts(grant) /\ Retransmittable(grant) = {})

AfterWalk(grant) == IF retrans.bytes = 0 THEN ctl ELSE GivenUp(grant)

NewPdu(grant) ==
    LET i == Slot(vt_s)
        first == taken - sdu_occupancy
        room == Min({grant - HEADER, sdu_occupancy + LiBytes(first, sdu_occupancy)})
        n == Longest(first, sdu_occupancy, room)
        filler == room - n - LiBytes(first, n)
        p == PollNeeded(n, NextSn(vt_s), sdu_occupancy - n, retrans.bytes)
    IN  /\ tx_fatal = "none"
        /\ grant > HEADER /\ sdu_occupancy # 0 /\ vt_s # vt_ms /\ Room
        /\ NothingRetransmitted(grant)
        /\ pdu' = [pdu EXCEPT ![i] = [sn |-> vt_s, mem |-> TRUE, first |-> first, payload |-> n,
                                      filler |-> filler]]
        /\ ctl' = [AfterWalk(grant) EXCEPT ![i] = [Fresh EXCEPT !.transmitted = TRUE]]
        /\ vt_s' = NextSn(vt_s)
        /\ sdu_occupancy' = sdu_occupancy - n
        /\ Polling(n, NextSn(vt_s), sdu_occupancy - n, retrans.bytes)
        /\ data' = data \cup {[sn |-> vt_s, rf |-> FALSE, so |-> 0, first |-> first,
                               len |-> n, filler |-> filler, lsf |-> FALSE, p |-> p]}
        /\ UNCHANGED <<vt_a, vt_ms, taken, ends, retrans, tx_fatal>>

\* A grant that only makes the walk give PDUs up.
OnlyGiveUp(grant) ==
    /\ tx_fatal = "none"
    /\ grant > HEADER /\ retrans.bytes # 0
    /\ NothingRetransmitted(grant)
    /\ sdu_occupancy = 0 \/ vt_s = vt_ms
    /\ ctl' = GivenUp(grant)
    /\ UNCHANGED <<windowVars, pollVars, sdu_occupancy, taken, ends, pdu, retrans, data, tx_fatal>>

-----------------------------------------------------------------------------
(***************************************************************************)
(* rlc_am_receive_process_control_pdu.  A STATUS PDU is an ACK_SN and the  *)
(* NACKs before it; the consecutive NACKs of one sequence number are one   *)
(* list of SO ranges here, <<>> for a NACK of the whole PDU.  first_nack   *)
(* is the first NACK_SN of the list, Undefined if there is none.  Left out *)
(* are STATUS PDUs no receiver builds: with NACK_SNs out of order, or the  *)
(* first of them behind ACK_SN or more than a window before it.            *)
(***************************************************************************)
NackLists(S) == [S -> RangeLists]

\* A NACK of ACK_SN itself, the trace of a report cut short, is never looked at.
Status ==
    [ack_sn : SN, first_nack : {Undefined}, nacks : NackLists({})]
    \cup UNION {UNION {
        [ack_sn : {b}, first_nack : {a},
         nacks : UNION {NackLists(S \cup {a}) : S \in SUBSET Between(a, b)}]
        : b \in {sn \in SN : DiffSn(sn, a) <= WINDOW_SIZE}} : a \in SN}

\* What one call does to an entry, and to the two totals; ok is the status it returns.
Effect(c, pdus, bytes, ok) == [ctl |-> c, pdus |-> pdus, bytes |-> bytes, ok |-> ok]

\* Mutant of AckPdu: the bytes taken off the total are those of the whole PDU.
AckPduWholePayload(i) ==
    Effect([ctl[i] EXCEPT !.ack = TRUE, !.transmitted = FALSE, !.retransmit = FALSE,
                          !.retx_payload = 0, !.holes = <<>>],
           IF ctl[i].retransmit THEN -1 ELSE 0,
           IF ctl[i].retransmit THEN -pdu[i].payload ELSE 0, TRUE)

\* rlc_am_ack_pdu on entry i (whether it frees the block is in `pdu`).
AckPdu(i) ==
    LET base == [ctl[i] EXCEPT !.ack = TRUE, !.transmitted = FALSE, !.retransmit = FALSE]
        wasPending == pdu[i].mem /\ ctl[i].retx_payload # 0
    IN  IF wasPending
        THEN Effect([base EXCEPT !.retx_payload = 0, !.holes = <<>>],
                    -1, -ctl[i].retx_payload, ~ctl[i].ack)
        ELSE Effect(base, 0, 0, TRUE)

\* rlc_am_nack_pdu with the ranges of one NACK_SN, in order, up to the first it refuses.
Clipped(i, ranges) ==
    [k \in 1 .. Len(ranges) |->
        IF ranges[k].stop = SO_END_ALL THEN [ranges[k] EXCEPT !.stop = pdu[i].payload - 1]
        ELSE ranges[k]]

\* Mutant of AcceptedRanges: SOend is not compared with the size of the PDU.
AcceptedRangesUnbounded(i, ranges) ==
    LET r == Clipped(i, ranges)
        fine == {k \in 1 .. Min({Len(ranges), MAX_HOLES}) :
                    k > 1 => r[k].start > r[k - 1].stop}
    IN  SubSeq(r, 1, Max({0} \cup {k \in fine : 1 .. k \subseteq fine}))

AcceptedRanges(i, ranges) ==
    LET r == Clipped(i, ranges)
        fine == {k \in 1 .. Min({Len(ranges), MAX_HOLES}) :
                    /\ r[k].start <= r[k].stop /\ r[k].stop < pdu[i].payload
                    /\ k > 1 => r[k].start > r[k - 1].stop}
    IN  SubSeq(r, 1, Max({0} \cup {k \in fine : 1 .. k \subseteq fine}))

BytesOf(ranges) == Cardinality(UNION {ranges[k].start .. ranges[k].stop : k \in DOMAIN ranges})

\* The entry becomes, or stays, pending for the bytes of `holes` (all of it: <<>>).
Pending(i, holes, size, soStart, more, ok) ==
    LET c == ctl[i]
        again == IF more /\ c.retx_count = c.retx_count_next THEN 1 ELSE 0
    IN  Effect([c EXCEPT !.retransmit = TRUE, !.retx_payload = size, !.holes = holes,
                         !.retx_hole_index = 1, !.nack_so_start = soStart,
                         !.retx_count_next = @ + again],
               IF c.retransmit THEN 0 ELSE 1,
               IF c.retransmit THEN size - c.retx_payload ELSE size,
               ok)

\* The assertion on every range that is looked at: SOstart is not behind SOend.
NackAsserts(i, ranges, freed) ==
    pdu[i].mem /\ i \notin freed =>
        LET accepted == IF ctl[i].max_retransmit THEN 0 ELSE Len(AcceptedRanges(i, ranges))
        IN  \A k \in DOMAIN ranges \cap (1 .. accepted + 1) : ranges[k].start <= ranges[k].stop

NackPdu(i, ranges, freed) ==
    LET c == ctl[i]
        holes == AcceptedRanges(i, ranges)
        considered == pdu[i].mem /\ i \notin freed /\ ~c.max_retransmit
    IN  CASE considered /\ ranges = <<>> /\ ~c.ack ->
                Pending(i, <<>>, pdu[i].payload, 0, ~c.retransmit \/ c.nack_so_start # 0, TRUE)
          [] considered /\ ranges # <<>> /\ holes # <<>> ->
                Pending(i, holes, BytesOf(holes), holes[1].start,
                        ~c.retransmit \/ holes[1].start < c.nack_so_start,
                        Len(holes) = Len(ranges))
          [] OTHER -> Effect(c, 0, 0, FALSE)   \* refused

\* Mutant of StatusInRange: every ACK_SN is believed.
AnyStatus(st) == st.ack_sn \in SN

\* The status is looked at only if it acknowledges nothing that was not sent.
StatusInRange(st) == DiffSn(vt_s, vt_a) >= DiffSn(st.ack_sn, vt_a)

\* The first cursor runs to the first NACK_SN, or to ACK_SN, and acknowledges and frees.
NewVtA(st) == IF st.first_nack = Undefined THEN st.ack_sn ELSE st.first_nack
FreedSlots(st) == {Slot(sn) : sn \in Between(vt_a, NewVtA(st))}

\* The second runs on to ACK_SN, and stops at the first NACK that is refused.
Refused(st) ==
    {sn \in DOMAIN st.nacks \cap Between(NewVtA(st), st.ack_sn) :
        ~NackPdu(Slot(sn), st.nacks[sn], FreedSlots(st)).ok}

Walked(st) ==
    LET last == FirstIn(Refused(st), NewVtA(st), st.ack_sn)
    IN  Between(NewVtA(st), st.ack_sn) \cap
            {sn \in SN : DiffSn(sn, NewVtA(st)) <= DiffSn(last, NewVtA(st))}

StatusEffect(st, i, freed, walked) ==
    LET here == {sn \in walked : Slot(sn) = i}
    IN  IF i \in freed THEN AckPdu(i)
        ELSE IF here = {} THEN Effect(ctl[i], 0, 0, TRUE)
        ELSE LET sn == CHOOSE sn \in here : TRUE
             IN  IF sn \in DOMAIN st.nacks THEN NackPdu(i, st.nacks[sn], freed) ELSE AckPdu(i)

\* "acked twice but is pending for Retx", and what rlc_am_nack_pdu asserts.
AssertsOf(st) ==
    LET freed == FreedSlots(st)
        walked == Walked(st)
    IN  /\ \A i \in Slots : pdu[i].mem /\ ctl[i].retx_payload # 0 /\ ctl[i].ack =>
              i \notin freed /\ \A sn \in walked \ DOMAIN st.nacks : Slot(sn) # i
        /\ \A sn \in walked \cap DOMAIN st.nacks : NackAsserts(Slot(sn), st.nacks[sn], freed)

\* The sum of a number per entry, over the whole buffer.
SumOver(f) ==
    LET sum[k \in 0 .. WINDOW_SIZE] == IF k = 0 THEN 0 ELSE sum[k - 1] + f[k - 1]
    IN  sum[WINDOW_SIZE]

\* What the calls do to the entries, before the handler knows whether it accepts the status.
ApplyStatus(st) ==
    LET freed == FreedSlots(st)
        walked == Walked(st)
        effect == [i \in Slots |-> StatusEffect(st, i, freed, walked)]
    IN  /\ ctl' = [i \in Slots |-> effect[i].ctl]
        /\ pdu' = [i \in Slots |-> [pdu[i] EXCEPT !.mem = @ /\ i \notin freed]]
        /\ retrans' = [pdus |-> retrans.pdus + SumOver([i \in Slots |-> effect[i].pdus]),
                       bytes |-> retrans.bytes + SumOver([i \in Slots |-> effect[i].bytes])]

\* Mutant of AcceptStatus: the window moves to ACK_SN and forgets the NACKs before it.
AcceptStatusToAckSn(st) ==
    /\ vt_a' = st.ack_sn
    /\ vt_ms' = PlusSn(st.ack_sn, WINDOW_SIZE)
    /\ UNCHANGED <<t_poll_retransmit, poll_sn>>

\* The window moves, and t-PollRetransmit stops if the status answers the poll.
AcceptStatus(st) ==
    /\ vt_a' = NewVtA(st)
    /\ vt_ms' = PlusSn(NewVtA(st), WINDOW_SIZE)
    /\ IF poll_sn # Undefined /\ DiffSn(st.ack_sn, vt_a) > DiffSn(poll_sn, vt_a)
       THEN t_poll_retransmit' = FALSE /\ poll_sn' = Undefined
       ELSE UNCHANGED <<t_poll_retransmit, poll_sn>>

ReceiveStatus(st) ==
    /\ tx_fatal = "none"
    /\ \/ /\ ~StatusInRange(st)
          /\ UNCHANGED <<ctl, pdu, retrans, vt_a, vt_ms, poll_sn, t_poll_retransmit, tx_fatal>>
       \/ /\ StatusInRange(st)
          /\ IF AssertsOf(st)
             THEN /\ ApplyStatus(st)
                  /\ IF Refused(st) = {} THEN AcceptStatus(st)
                     ELSE UNCHANGED <<vt_a, vt_ms, poll_sn, t_poll_retransmit>>
                  /\ UNCHANGED tx_fatal
             ELSE /\ tx_fatal' = "status_pdu"
                  /\ UNCHANGED <<ctl, pdu, retrans, vt_a, vt_ms, poll_sn, t_poll_retransmit>>
    /\ UNCHANGED <<vt_s, poll, sdu_occupancy, taken, ends, data>>

-----------------------------------------------------------------------------
(***************************************************************************)
(* rlc_am_check_timer_poll_retransmit, when the timer has expired.  The    *)
(* walk goes down from VT(S) - 1 to VT(A) for a PDU to send again.         *)
(***************************************************************************)
NothingToSend == (sdu_occupancy = 0 /\ retrans.bytes = 0) \/ vt_s = vt_ms

Unacked == {sn \in Outstanding : ~ctl[Slot(sn)].ack /\ ~ctl[Slot(sn)].max_retransmit}
HighestSn(S) == CHOOSE sn \in S : \A other \in S : DiffSn(other, vt_a) <= DiffSn(sn, vt_a)
WalkedDown ==
    {sn \in Outstanding : Unacked = {} \/ DiffSn(sn, vt_a) >= DiffSn(HighestSn(Unacked), vt_a)}

\* Mutant of ReconsiderPdu: the PDU is neither marked nor counted as due again.
ReconsiderNothing(i) == i \in Slots /\ UNCHANGED <<ctl, retrans>>

ReconsiderPdu(i) ==
    /\ ctl' = [ctl EXCEPT ![i].retransmit = TRUE,
                          ![i].retx_payload = pdu[i].payload,
                          ![i].retx_count_next =
                              IF ctl[i].retx_count = @ THEN @ + 1 ELSE @]
    /\ retrans' = [pdus |-> retrans.pdus + 1, bytes |-> retrans.bytes + pdu[i].payload]

PollRetransmitExpiry ==
    /\ tx_fatal = "none"
    /\ t_poll_retransmit
    /\ t_poll_retransmit' = FALSE
    /\ \/ /\ NothingToSend
          /\ \E sn \in WalkedDown : ~pdu[Slot(sn)].mem
          /\ tx_fatal' = "t_poll_retransmit"
          /\ UNCHANGED <<ctl, retrans>>
       \/ /\ NothingToSend
          /\ \A sn \in WalkedDown : pdu[Slot(sn)].mem
          /\ IF Unacked = {} THEN UNCHANGED <<ctl, retrans>>
             ELSE ReconsiderPdu(Slot(HighestSn(Unacked)))
          /\ UNCHANGED tx_fatal
       \/ ~NothingToSend /\ UNCHANGED <<ctl, retrans, tx_fatal>>
    /\ poll' = [poll EXCEPT !.force = IF tx_fatal' = "none" THEN TRUE ELSE @]
    /\ UNCHANGED <<windowVars, poll_sn, sdu_occupancy, taken, ends, pdu, data>>

\* MAC takes a data PDU: it is delivered to the peer, or lost.
MacTakes(m) ==
    /\ data' = data \ {m}
    /\ UNCHANGED <<windowVars, pollVars, sdu_occupancy, taken, ends, pdu, ctl, retrans, tx_fatal>>

-----------------------------------------------------------------------------
TxProgress ==
    \/ \E grant \in DataGrants : Retransmit(grant) \/ NewPdu(grant) \/ OnlyGiveUp(grant)
    \/ PollRetransmitExpiry

\* The transmitter with a peer that may send any STATUS PDU.
TxNext ==
    \/ \E size \in SduSizes : DataReq(size)
    \/ TxProgress
    \/ \E m \in data : MacTakes(m)
    \/ \E st \in Status : ReceiveStatus(st)

TxSpec == TxInit /\ [][TxNext]_txVars

-----------------------------------------------------------------------------
Buffered == [sn : SN, mem : BOOLEAN, first : Nat, payload : Nat, filler : Nat]

Entry ==
    [ack : BOOLEAN, retransmit : BOOLEAN, transmitted : BOOLEAN, max_retransmit : BOOLEAN,
     retx_count : Nat, retx_count_next : Nat, retx_payload : Nat,
     holes : Seq([start : Nat, stop : Nat]), retx_hole_index : Nat, nack_so_start : Nat]

ToMac == [sn : SN, rf : BOOLEAN, so : Nat, first : Nat, len : Nat \ {0}, filler : Nat,
          lsf : BOOLEAN, p : BOOLEAN]

\* The retransmission state c fits a PDU of `payload` bytes.
FitsPayload(c, payload) ==
    /\ c.retx_payload <= payload
    /\ c.holes # <<>> => c.retx_hole_index \in DOMAIN c.holes
    /\ \A k \in DOMAIN c.holes : c.holes[k].start <= c.holes[k].stop /\ c.holes[k].stop < payload

(***************************************************************************)
(* Types, and what the buffer's entries may hold whatever ranges a STATUS  *)
(* PDU reports: rlc_am_nack_pdu records only holes inside the PDU, so that *)
(* no more than its payload is ever pending, and every PDU handed to MAC   *)
(* carries at least one byte.  (The totals in retrans are the subject of   *)
(* RetransCoversPending.)                                                  *)
(***************************************************************************)
TxTypeOK ==
    /\ vt_a \in SN /\ vt_s \in SN /\ vt_ms \in SN
    /\ poll_sn \in SN \cup {Undefined}
    /\ poll \in [pdus : Nat, bytes : Nat, force : BOOLEAN]
    /\ t_poll_retransmit \in BOOLEAN
    /\ taken \in 0 .. MaxBytes /\ sdu_occupancy \in 0 .. taken /\ ends \subseteq 1 .. taken
    /\ pdu \in [Slots -> Buffered]
    /\ ctl \in [Slots -> Entry]
    /\ \A i \in Slots : FitsPayload(ctl[i], pdu[i].payload)
    /\ data \subseteq ToMac

WindowBounded == DiffSn(vt_s, vt_a) <= WINDOW_SIZE /\ vt_ms = PlusSn(vt_a, WINDOW_SIZE)
EntriesAreOwn == \A sn \in Outstanding : pdu[Slot(sn)].sn = sn
BlocksAreOutstanding ==
    \A i \in Slots : pdu[i].mem => pdu[i].sn \in Outstanding /\ Slot(pdu[i].sn) = i

(***************************************************************************)
(* The transmitting window: whatever STATUS PDUs arrive, at most           *)
(* AM_Window_Size sequence numbers are outstanding, VT(MS) is the end of   *)
(* the window, the entry of an outstanding sequence number is its own (no  *)
(* two share one), and a block that is still held belongs to an            *)
(* outstanding PDU (rlc_am_receive_process_control_pdu, rlc_am_segment_10).*)
(***************************************************************************)
TxWindow == WindowBounded /\ EntriesAreOwn /\ BlocksAreOutstanding

(***************************************************************************)
(* A buffered PDU is never overwritten by a new one: an entry changes its  *)
(* PDU only after the block was freed by an acknowledgement                *)
(* (rlc_am_segment_10 reuses tx_data_pdu_buffer[vt_s % 512] blindly).      *)
(***************************************************************************)
NeverOverwritten ==
    [][\A i \in Slots : <<pdu'[i].sn, pdu'[i].first>> # <<pdu[i].sn, pdu[i].first>>
                           => ~pdu[i].mem]_txVars

\* The entries marked for retransmission, and what is to be sent again of each entry.
PendingSlots == {i \in Slots : ctl[i].retransmit}
PendingBytes == [i \in Slots |-> IF ctl[i].retransmit THEN ctl[i].retx_payload ELSE 0]

(***************************************************************************)
(* Nothing pending is forgotten: the two totals that make rlc_am_get_pdus  *)
(* look for a retransmission never fall below what the entries hold, so a  *)
(* PDU marked for retransmission is always looked for.                     *)
(***************************************************************************)
RetransCoversPending ==
    /\ retrans.bytes >= SumOver(PendingBytes)
    /\ retrans.pdus >= Cardinality(PendingSlots)
=============================================================================
