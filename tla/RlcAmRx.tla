------------------------------- MODULE RlcAmRx -------------------------------
(***************************************************************************)
(* The receiving side of an RLC acknowledged-mode entity: rlc_am_receiver, *)
(* rlc_am_rx_list, rlc_am_reassembly, rlc_am_timer_reordering,             *)
(* rlc_am_timer_status_prohibit and the building of STATUS PDUs in         *)
(* rlc_am_status_report.c.                                                 *)
(*                                                                         *)
(* receiver_buffer is a list the code keeps sorted by (SN, SO); here it is *)
(* the set of its elements, and "next" and "previous" mean that order.     *)
(***************************************************************************)
EXTENDS RlcAmSn, Sequences, FiniteSets, SequencesExt

CONSTANTS
    StatusGrants,          \* transport-block sizes (bytes) MAC may offer for a STATUS PDU
    MaxStatus,             \* bound: STATUS PDUs between the two MAC layers
    TimerConfigs,          \* the sets of timers RRC may configure with a duration other than 0
    StaleFlags             \* what all_segments_received may hold in a block from the pool

ASSUME RxAssumption ==
    /\ StatusGrants \subseteq Nat
    /\ MaxStatus \in Nat
    /\ TimerConfigs \subseteq SUBSET {"t_reordering", "t_status_prohibit"}
    /\ StaleFlags \subseteq BOOLEAN

VARIABLES
    configured,        \* the timers whose ms_duration is not 0
    vr_r, vr_mr, vr_x, vr_ms, vr_h,  \* rlc_am_entity_t
    receiver_buffer,   \* the received PDUs and PDU segments
    t_reordering,      \* .running
    status_requested,  \* the RLC_AM_STATUS_* flags that are set
    sn_delayed,        \* sn_status_triggered_delayed
    status,            \* STATUS PDUs given to MAC and not received yet, oldest first
    delivered,         \* the bytes handed to the upper layer, in that order
    rx_fatal           \* the AssertFatal that stopped the process, or "none"

rxVars == <<configured, vr_r, vr_mr, vr_x, vr_ms, vr_h, receiver_buffer,
            t_reordering, status_requested, sn_delayed, status, delivered, rx_fatal>>

NoTxMask == {"PROHIBIT", "DELAYED"}  \* RLC_AM_STATUS_NO_TX_MASK
STATUS_SO_END_ALL == 32767           \* RLC_AM_STATUS_PDU_SO_END_ALL_BYTES

ReorderingConfigured == "t_reordering" \in configured
ProhibitConfigured == "t_status_prohibit" \in configured

\* The entity as rlc_am_init and one call of rlc_am_configure leave it.
RxInit ==
    /\ configured \in TimerConfigs
    /\ vr_r = 0 /\ vr_mr = WINDOW_SIZE /\ vr_x = Undefined /\ vr_ms = 0 /\ vr_h = 0
    /\ receiver_buffer = {}
    /\ t_reordering = FALSE
    /\ status_requested = {} /\ sn_delayed = Undefined
    /\ status = <<>>
    /\ delivered = <<>>
    /\ rx_fatal = "none"

-----------------------------------------------------------------------------
(* The elements of one sequence number. *)
Of(buffer, sn) == {e \in buffer : e.sn = sn}
End(e) == e.so + e.len
Lowest(S) == CHOOSE e \in S : \A f \in S : e.so <= f.so
Highest(S) == CHOOSE e \in S : \A f \in S : f.so <= e.so

\* The elements that follow the lowest one without a gap, and it.
Run(S) == {e \in S : \A f \in S : f.so <= e.so =>
                        f = Lowest(S) \/ \E g \in S \ {f} : End(g) = f.so}

\* The same from byte 0 on.
InSequence(S) == IF S # {} /\ Lowest(S).so = 0 THEN Run(S) ELSE {}

\* The bytes of an element; those of a filler were not written.
Unwritten == -1
BytesIn(e) == [k \in 1 .. e.len |-> IF k <= e.len - e.filler THEN e.first + k - 1 ELSE Unwritten]

(***************************************************************************)
(* create_new_segment_from_pdu: bytes a .. z of the payload of x as a new  *)
(* segment.  all_segments_received is not written, so the new block keeps  *)
(* whatever the pool block held before: `old`.                             *)
(***************************************************************************)
Truncated(x, a, z, old) ==
    [x EXCEPT !.so = a, !.first = @ + a - x.so, !.len = z - a + 1, !.rf = TRUE,
              !.filler = Cardinality({k \in a .. z : k >= End(x) - x.filler}),
              !.lsf = (x.lsf \/ ~x.rf) /\ z = End(x) - 1, !.all = old]

\* What an insertion leaves: the buffer, and whether x itself is in it or was freed.
Stored(x, buffer) == [how |-> "stored", buffer |-> buffer \cup {x}]
Replaced(buffer) == [how |-> "freed", buffer |-> buffer]
Duplicate == [how |-> "duplicate", buffer |-> receiver_buffer]
Dies(where) == [how |-> where, buffer |-> receiver_buffer]

(***************************************************************************)
(* rlc_am_rx_list_handle_pdu: a whole PDU.  Stored segments of it are      *)
(* replaced, except that in-sequence segments of VR(R), which may have     *)
(* been delivered already, are kept and only the rest of the PDU is added. *)
(***************************************************************************)
HandlePdu(x, old) ==
    LET S == Of(receiver_buffer, x.sn)
        kept == InSequence(S)
        rest == Truncated(x, End(Highest(kept)), x.len - 1, old)
    IN  CASE S = {} -> Stored(x, receiver_buffer)
          [] S # {} /\ Lowest(S).all -> Duplicate
          [] S # {} /\ ~Lowest(S).all /\ (x.sn # vr_r \/ Lowest(S).so # 0) ->
                IF receiver_buffer = S
                THEN Dies("list2_insert_before_element")   \* nothing is left to insert before
                ELSE Stored(x, receiver_buffer \ S)
          [] OTHER -> Replaced((receiver_buffer \ S) \cup kept \cup {rest})

(***************************************************************************)
(* rlc_am_rx_list_handle_pdu_segment: bytes a .. z of a PDU.  Bytes that   *)
(* are stored already are cut off at both ends, stored segments that lie   *)
(* inside are dropped, and what remains is stored as a new segment.        *)
(***************************************************************************)
\* The last step, for what begins at a and follows the stored elements up to `prev`.
StoreRemainder(x, S, a, before, old) ==
    LET z == End(x) - 1
        inside == {e \in S \ before : End(e) - 1 <= z}
        beyond == (S \ before) \ inside
        stop == IF beyond # {} /\ z >= Lowest(beyond).so THEN Lowest(beyond).so - 1 ELSE z
    IN  IF a <= stop /\ (a # x.so \/ stop # z)
        THEN Replaced((receiver_buffer \ inside) \cup {Truncated(x, a, stop, old)})
        ELSE Dies("handle_pdu_segment")   \* "Duplicate elimination error"

OverlappingSegment(x, S, old) ==
    LET z == End(x) - 1
        passed == {e \in S : End(e) <= x.so}
        from == IF passed = {} THEN Lowest(S) ELSE Highest(passed)
        run == Run({e \in S : e.so >= from.so})
        last == Highest(run)
    IN  CASE \A e \in S \ passed : e.so > z -> Stored(x, receiver_buffer)
          [] (\E e \in S \ passed : e.so <= z) /\ z < End(last) -> Duplicate
          [] OTHER ->
                StoreRemainder(x, S, IF x.so < End(last) THEN End(last) ELSE x.so,
                               {e \in S : e.so <= last.so}, old)

HandlePduSegment(x, old) ==
    LET S == Of(receiver_buffer, x.sn)
        z == End(x) - 1
    IN  IF S = {} THEN Stored(x, receiver_buffer)
        ELSE IF Lowest(S).all \/ \E e \in S : e.so <= x.so /\ z < End(e) THEN Duplicate
        ELSE IF x.so >= Lowest(S).so THEN OverlappingSegment(x, S, old)
        ELSE IF z < Lowest(S).so THEN Stored(x, receiver_buffer)
        ELSE StoreRemainder(x, S, x.so, {}, old)

\* rlc_am_rx_list_check_duplicate_insert_pdu
Insert(x, old) ==
    IF receiver_buffer = {} THEN Stored(x, {})
    ELSE IF x.rf THEN HandlePduSegment(x, old) ELSE HandlePdu(x, old)

-----------------------------------------------------------------------------
(***************************************************************************)
(* The state variables after x was placed in the buffer.  When x was freed *)
(* by the insertion the code goes on with the freed block: its contents    *)
(* are intact and it is linked to nothing.                                 *)
(***************************************************************************)
\* rlc_am_rx_check_all_byte_segments, rlc_am_rx_mark_all_segments_received
AllBytesIn(S) ==
    /\ Lowest(S).so = 0
    /\ \E e \in Run(S) : e # Lowest(S) /\ e.lsf

CheckAllByteSegments(x, ins) ==
    LET S == Of(ins.buffer, x.sn)
    IN  IF ins.how = "stored" /\ (~x.rf \/ AllBytesIn(S))
        THEN (ins.buffer \ S) \cup {[e EXCEPT !.all = TRUE] : e \in S}
        ELSE ins.buffer

AllReceived(x, ins) == IF ins.how = "freed" THEN ~x.rf ELSE ~x.rf \/ AllBytesIn(Of(ins.buffer, x.sn))

\* Mutant of UpdateVrMs: PDUs received before are not skipped.
UpdateVrMsByOne(x, how, buffer, h) == NextSn(x.sn)

\* rlc_am_rx_update_vr_ms: one element after another, as long as the next one is VR(MS).
UpdateVrMs(x, how, buffer, h) ==
    LET further(sn) == IF sn = x.sn THEN \E e \in Of(buffer, sn) : e.so > x.so
                       ELSE Cardinality(Of(buffer, sn)) > 1
        stops == {sn \in SN : \/ sn = h
                              \/ Of(buffer, sn) = {}
                              \/ ~Lowest(Of(buffer, sn)).all
                              \/ further(PrevSn(sn))}
    IN  IF how = "freed" THEN NextSn(x.sn) ELSE FirstIn(stops, NextSn(x.sn), x.sn)

\* rlc_am_rx_update_vr_r
Complete(buffer, sn) ==
    /\ Of(buffer, sn) # {}
    /\ \A e \in Of(buffer, sn) : e.all
    /\ \E e \in Of(buffer, sn) : ~e.rf \/ e.lsf

UpdateVrR(x, how, buffer) ==
    IF how = "freed" THEN NextSn(x.sn)
    ELSE FirstIn({sn \in SN : ~Complete(buffer, sn)}, NextSn(x.sn), x.sn)

-----------------------------------------------------------------------------
(***************************************************************************)
(* rlc_am_rx_check_vr_reassemble and rlc_am_rx_list_reassemble_rlc_sdus.   *)
(* old is VR(R) at entry (the head of the list is the element nearest to   *)
(* it), r is the new one.                                                  *)
(***************************************************************************)
HeadSn(buffer, old) ==
    (CHOOSE e \in buffer : \A f \in buffer : DiffSn(e.sn, old) <= DiffSn(f.sn, old)).sn

ReassembleAsserts(buffer, old, r) ==
    buffer # {} =>
        LET head == Of(buffer, HeadSn(buffer, old))
        IN  /\ HeadSn(buffer, old) # r => ~Lowest(head).rf \/ Lowest(head).all
            /\ Of(buffer, r) # {} => ~Lowest(Of(buffer, r)).all

\* In-sequence segments become due for delivery: those of VR(R), and those of the head.
InSequenceDue(buffer, sn) == {e \in InSequence(Of(buffer, sn)) : e.reassembled = "NO"}

MarkPending(buffer, old, r) ==
    LET due == IF buffer = {} THEN {}
               ELSE InSequenceDue(buffer, r) \cup {e \in InSequenceDue(buffer, HeadSn(buffer, old)) : e.rf}
    IN  (buffer \ due) \cup {[e EXCEPT !.reassembled = "PENDING"] : e \in due}

NeedsReassembly(buffer, old, r) ==
    buffer # {} /\ (HeadSn(buffer, old) # r \/ InSequenceDue(buffer, r) # {})

\* The first of some elements, in the order of the list: by SN from VR(R) on, then by SO.
FirstOf(S, old) ==
    CHOOSE e \in S : \A f \in S : \/ DiffSn(e.sn, old) < DiffSn(f.sn, old)
                                  \/ e.sn = f.sn /\ e.so <= f.so

\* The list, without the segments at its head that were delivered before their PDU was complete.
WithoutDelivered(list, old) ==
    LET head == FirstOf(list, old)
        done == {e \in Of(list, head.sn) :
                    \A f \in Of(list, head.sn) : f.so <= e.so => f.reassembled = "REASSEMBLED"}
    IN  IF head.all /\ head.rf THEN list \ done ELSE list

(***************************************************************************)
(* One turn of the loop: s.rest is what the list holds from its cursor on. *)
(* What a complete PDU makes it take from the list is always the head.     *)
(***************************************************************************)
\* Mutant of Goes: the loop stops at the end of a PDU, though VR(R) has moved further.
GoesNoFurther(rest, last, old) ==
    rest # {} /\ FirstOf(rest, old).sn = last.sn

Goes(rest, last, old) ==
    LET e == FirstOf(rest, old)
    IN  /\ rest # {}
        /\ \/ DiffSn(e.sn, last.sn) < 2 /\ last.all
           \/ e.sn = last.sn /\ e.reassembled # "NO"

Turn(s, old) ==
    LET e == FirstOf(s.rest, old)
        head == FirstOf(s.list, old)
        to(list, rest, out) == [list |-> list, rest |-> rest, out |-> s.out \o out,
                                going |-> Goes(rest, e, old)]
    IN  CASE ~s.going -> s
          [] s.going /\ e.all -> to(s.list \ {head}, s.list \ {head}, BytesIn(head))
          [] s.going /\ ~e.all /\ e.reassembled = "PENDING" ->
                to((s.list \ {e}) \cup {[e EXCEPT !.reassembled = "REASSEMBLED"]},
                   s.rest \ {e}, BytesIn(e))
          [] s.going /\ ~e.all /\ e.reassembled = "REASSEMBLED" -> to(s.list, s.rest \ {e}, <<>>)
          [] OTHER -> [s EXCEPT !.going = FALSE]

Reassemble(buffer, old) ==
    LET list == WithoutDelivered(buffer, old)
        near == DiffSn(FirstOf(list, old).sn, FirstOf(buffer, old).sn) < 2
        start == [list |-> list, rest |-> list, out |-> <<>>,
                  going |-> list = buffer \/ (list # {} /\ near)]
        turns == Cardinality(list) * Cardinality(list)
        loop[k \in 0 .. turns] == IF k = 0 THEN start ELSE Turn(loop[k - 1], old)
    IN  [buffer |-> loop[turns].list, bytes |-> loop[turns].out]

-----------------------------------------------------------------------------
(***************************************************************************)
(* Triggering a status report, the last part of                            *)
(* rlc_am_receive_process_data_pdu.  ok: the PDU was placed in the buffer. *)
(***************************************************************************)
Behind(sn, r, ms) == ~SnInWindow(sn, r) \/ DiffSn(sn, r) < DiffSn(ms, r)

Undelayed(trig) == [flags |-> trig.flags \ {"DELAYED"}, sn |-> Undefined]

PollTrigger(m, ok, r, ms, trig) ==
    LET polled == [trig EXCEPT !.flags = @ \cup {"POLL"}]
    IN  IF ~m.p \/ ("DELAYED" \notin trig.flags /\ trig.flags \cap {"POLL", "REORDERING"} # {})
        THEN trig
        ELSE IF ~ok \/ Behind(m.sn, r, ms) THEN Undelayed(polled)
        ELSE IF trig.sn = Undefined
        THEN [flags |-> polled.flags \cup {"DELAYED"}, sn |-> m.sn]
        ELSE polled

StatusTrigger(m, ok, r, ms, trig) ==
    LET polled == PollTrigger(m, ok, r, ms, trig)
    IN  IF ok /\ "DELAYED" \in polled.flags /\ Behind(polled.sn, r, ms)
        THEN Undelayed(polled) ELSE polled

Trigger == [flags |-> status_requested, sn |-> sn_delayed]

SetTrigger(trig) == status_requested' = trig.flags /\ sn_delayed' = trig.sn

-----------------------------------------------------------------------------
(***************************************************************************)
(* rlc_am_receive_process_data_pdu: the PDU is outside the window or holds *)
(* nothing new and is discarded, or it is placed in the buffer.            *)
(***************************************************************************)
Element(m) ==
    [sn |-> m.sn, so |-> m.so, first |-> m.first, len |-> m.len + m.filler, filler |-> m.filler,
     rf |-> m.rf, lsf |-> m.lsf, all |-> FALSE, reassembled |-> "NO"]

DiscardDataPdu(m) ==
    /\ ~SnInWindow(m.sn, vr_r) \/ Insert(Element(m), FALSE).how = "duplicate"
    /\ SetTrigger(StatusTrigger(m, FALSE, vr_r, vr_ms, Trigger))
    /\ UNCHANGED <<vr_r, vr_mr, vr_x, vr_ms, vr_h, receiver_buffer, t_reordering,
                   status, delivered, rx_fatal>>

\* t-Reordering is stopped when what it waited for is there, and started for what is not.
StopsReordering(r) ==
    /\ t_reordering \/ (~ReorderingConfigured /\ vr_x # Undefined)
    /\ vr_x = r \/ (~SnInWindow(vr_x, r) /\ vr_x # PlusSn(r, WINDOW_SIZE))

PlaceDataPdu(m, old) ==
    LET x == Element(m)
        ins == Insert(x, old)
        buffer == CheckAllByteSegments(x, ins)
        all == AllReceived(x, ins)
        h == IF DiffSn(x.sn, vr_r) >= DiffSn(vr_h, vr_r) THEN NextSn(x.sn) ELSE vr_h
        ms == IF x.sn = vr_ms /\ all THEN UpdateVrMs(x, ins.how, buffer, h) ELSE vr_ms
        r == IF x.sn = vr_r /\ all THEN UpdateVrR(x, ins.how, buffer) ELSE vr_r
        reassemble == x.sn = vr_r /\ NeedsReassembly(buffer, vr_r, r)
        stays == t_reordering /\ ~StopsReordering(r)
        starts == ~stays /\ h # r
        noTimer == starts /\ ~ReorderingConfigured
        newMs == IF noTimer THEN h ELSE ms
        trig == IF noTimer
                THEN Undelayed([Trigger EXCEPT !.flags = @ \cup {"REORDERING"}]) ELSE Trigger
        marked == MarkPending(buffer, vr_r, r)
    IN  /\ SnInWindow(m.sn, vr_r)
        /\ ins.how # "duplicate"
        /\ IF ins.how \notin {"stored", "freed"}
           THEN /\ rx_fatal' = ins.how
                /\ UNCHANGED <<vr_r, vr_mr, vr_x, vr_ms, vr_h, receiver_buffer, t_reordering,
                               status_requested, sn_delayed, delivered>>
           ELSE IF x.sn = vr_r /\ ~ReassembleAsserts(buffer, vr_r, r)
           THEN /\ rx_fatal' = "check_vr_reassemble"
                /\ UNCHANGED <<vr_r, vr_mr, vr_x, vr_ms, vr_h, receiver_buffer, t_reordering,
                               status_requested, sn_delayed, delivered>>
           ELSE /\ vr_h' = h /\ vr_r' = r /\ vr_ms' = newMs
                /\ vr_mr' = PlusSn(r, WINDOW_SIZE)
                /\ vr_x' = IF starts THEN h ELSE IF StopsReordering(r) THEN Undefined ELSE vr_x
                /\ t_reordering' = (stays \/ (starts /\ ReorderingConfigured))
                /\ SetTrigger(StatusTrigger(m, TRUE, r, newMs, trig))
                /\ receiver_buffer' = IF reassemble THEN Reassemble(marked, vr_r).buffer
                                      ELSE IF x.sn = vr_r THEN marked ELSE buffer
                /\ delivered' = IF reassemble THEN delivered \o Reassemble(marked, vr_r).bytes
                                ELSE delivered
                /\ UNCHANGED rx_fatal
        /\ UNCHANGED status

ReceiveDataPdu(m) ==
    /\ rx_fatal = "none"
    /\ DiscardDataPdu(m) \/ \E old \in StaleFlags : PlaceDataPdu(m, old)
    /\ UNCHANGED configured

-----------------------------------------------------------------------------
(***************************************************************************)
(* rlc_am_send_status_pdu.  The report covers the sequence numbers from    *)
(* VR(R) to VR(MS), as far as the buffer and the grant reach: 15 bits for  *)
(* the header, 12 for a NACK_SN and 30 more when it has an SO range.       *)
(***************************************************************************)
Missing(sn) == Of(receiver_buffer, sn) = {}
Partial(sn) == ~Missing(sn) /\ ~Lowest(Of(receiver_buffer, sn)).all

\* The SO ranges of a partly received PDU.  waited_so stays where the first gap begins.
SoRanges(sn) ==
    LET S == Of(receiver_buffer, sn)
        waited == End(Highest(Run(S)))
        later == SetToSortSeq({e.so : e \in S \ Run(S)}, <)
        lead == IF Lowest(S).so = 0 THEN <<>>
                ELSE <<[start |-> 0, stop |-> Lowest(S).so - 1]>>
        gaps == [k \in 1 .. Len(later) |-> [start |-> waited, stop |-> later[k] - 1]]
        tail == IF \E e \in S : e.lsf THEN <<>>
                ELSE <<[start |-> waited, stop |-> STATUS_SO_END_ALL]>>
    IN  lead \o gaps \o tail

NackBits(sn) == IF Missing(sn) THEN 12 ELSE IF Partial(sn) THEN 42 * Len(SoRanges(sn)) ELSE 0
BitsNeeded(sn) == IF Partial(sn) THEN Max({42, NackBits(sn)}) ELSE NackBits(sn)

\* Where the report would end if the grant were large enough.
ReportEnd ==
    IF receiver_buffer = {} THEN vr_r
    ELSE PlusSn(vr_r, Min({DiffSn(vr_ms, vr_r),
                           Max({DiffSn(e.sn, vr_r) : e \in receiver_buffer}) + 1}))

BitsBefore(sn) == 15 + MapThenSumSet(NackBits, Between(vr_r, sn))

AckSn(grant) ==
    IF 8 * grant < 27 THEN vr_r ELSE
    FirstIn({sn \in Between(vr_r, ReportEnd) : BitsBefore(sn) + BitsNeeded(sn) > 8 * grant},
            vr_r, ReportEnd)

\* The ranges of the PDU at which the report is cut that still fit.
CutRanges(grant) ==
    LET sn == AckSn(grant)
        fit == (8 * grant - BitsBefore(sn)) \div 42
    IN  IF sn # ReportEnd /\ Partial(sn) THEN SubSeq(SoRanges(sn), 1, fit) ELSE <<>>

Nacked(grant) ==
    {sn \in Between(vr_r, AckSn(grant)) : Missing(sn) \/ (Partial(sn) /\ SoRanges(sn) # <<>>)}

\* Mutant of StatusPdu: the NACKs are lost on the way into the PDU.
StatusPduWithoutNacks(grant) ==
    [ack_sn |-> AckSn(grant), first_nack |-> Undefined, nacks |-> [sn \in {} |-> <<>>]]

StatusPdu(grant) ==
    LET ack == AckSn(grant)
        whole == Nacked(grant)
        listed == IF whole = {} /\ CutRanges(grant) # <<>> THEN {ack} ELSE whole
    IN  [ack_sn |-> ack,
         first_nack |-> IF listed = {} THEN Undefined
                        ELSE IF listed = {ack} THEN ack ELSE FirstIn(listed, vr_r, ack),
         nacks |-> [sn \in listed |->
                      IF sn = ack THEN CutRanges(grant)
                      ELSE IF Missing(sn) THEN <<>> ELSE SoRanges(sn)]]

\* "Data Error no NACK_SN": the last element looked at is complete and nothing was reported.
StatusAsserts(grant) ==
    \/ vr_r = vr_ms \/ receiver_buffer = {} \/ 8 * grant < 27
    \/ Nacked(grant) # {} \/ CutRanges(grant) # <<>>
    \/ LET last == IF AckSn(grant) = ReportEnd THEN PrevSn(ReportEnd) ELSE AckSn(grant)
       IN  ~Lowest(Of(receiver_buffer, HeadSn(receiver_buffer, last))).all

\* The first part of rlc_am_get_pdus.
SendStatusPdu(grant) ==
    /\ rx_fatal = "none"
    /\ grant >= 2
    /\ status_requested # {} /\ status_requested \cap NoTxMask = {}
    /\ Len(status) < MaxStatus
    /\ IF StatusAsserts(grant)
       THEN /\ status' = Append(status, StatusPdu(grant))
            /\ status_requested' = IF ProhibitConfigured THEN {"PROHIBIT"} ELSE {}
            /\ UNCHANGED rx_fatal
       ELSE /\ rx_fatal' = "send_status_pdu"
            /\ UNCHANGED <<status, status_requested>>
    /\ UNCHANGED <<vr_r, vr_mr, vr_x, vr_ms, vr_h, receiver_buffer, t_reordering,
                   sn_delayed, delivered>>

\* rlc_am_check_timer_status_prohibit, when the timer has expired.
StatusProhibitExpiry ==
    /\ rx_fatal = "none"
    /\ "PROHIBIT" \in status_requested
    /\ status_requested' = status_requested \ {"PROHIBIT"}
    /\ UNCHANGED <<vr_r, vr_mr, vr_x, vr_ms, vr_h, receiver_buffer, t_reordering,
                   sn_delayed, status, delivered, rx_fatal>>

\* rlc_am_check_timer_reordering, when the timer has expired.
NotComplete == {sn \in SN : ~Complete(receiver_buffer, sn)}

ReorderingExpiry ==
    LET ms == IF vr_x = vr_h THEN vr_h ELSE FirstIn(NotComplete, vr_x, vr_h)
    IN  /\ rx_fatal = "none"
        /\ t_reordering
        /\ IF vr_x = Undefined \/ receiver_buffer = {}
           THEN /\ rx_fatal' = "t_reordering"
                /\ UNCHANGED <<vr_ms, vr_x, t_reordering, status_requested, sn_delayed>>
           ELSE /\ t_reordering' = FALSE
                /\ vr_ms' = ms
                /\ vr_x' = IF ms # vr_h THEN vr_h ELSE vr_x
                /\ SetTrigger(Undelayed([Trigger EXCEPT !.flags = @ \cup {"REORDERING"}]))
                /\ UNCHANGED rx_fatal
        /\ UNCHANGED <<vr_r, vr_mr, vr_h, receiver_buffer, status, delivered>>

RxStep ==
    /\ \/ \E grant \in StatusGrants : SendStatusPdu(grant)
       \/ StatusProhibitExpiry
       \/ ReorderingExpiry
    /\ UNCHANGED configured
=============================================================================
