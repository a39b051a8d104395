------------------------------ MODULE RlcAmLink ------------------------------
(***************************************************************************)
(* One direction of an acknowledged-mode radio bearer: the transmitting    *)
(* side of one entity, the receiving side of its peer, and the two MAC     *)
(* layers between them.  MAC may lose any PDU; the HARQ processes of a     *)
(* cell run in parallel, so data PDUs overtake each other.  STATUS PDUs    *)
(* overtake each other only if StatusReorder is TRUE.                      *)
(***************************************************************************)
EXTENDS RlcAmTx, RlcAmRx

CONSTANT StatusReorder  \* may a STATUS PDU overtake an older one?

ASSUME LinkAssumption == StatusReorder \in BOOLEAN

vars == <<txVars, rxVars>>

LinkInit == TxInit /\ RxInit

(***************************************************************************)
(* HARQ gives a transport block up after a few attempts, so MAC holds no   *)
(* data PDU while the transmitter sends a whole window of later ones       *)
(* (RLC_AM_WINDOW_SIZE is 512 PDUs, a HARQ process a few milliseconds).    *)
(***************************************************************************)
MacLifetime == \A m \in data : DiffSn(vt_s, m.sn) \in 1 .. WINDOW_SIZE

MacDeliversData(m) == ReceiveDataPdu(m) /\ MacTakes(m)
MacLosesData(m) == MacTakes(m) /\ UNCHANGED rxVars

ReceivableStatus == IF StatusReorder THEN DOMAIN status ELSE DOMAIN status \cap {1}

MacTakesStatus(k) ==
    /\ status' = RemoveAt(status, k)
    /\ UNCHANGED <<configured, vr_r, vr_mr, vr_x, vr_ms, vr_h, receiver_buffer, t_reordering,
                   status_requested, sn_delayed, delivered, rx_fatal>>
MacDeliversStatus(k) == ReceiveStatus(status[k]) /\ MacTakesStatus(k)
MacLosesStatus(k) == MacTakesStatus(k) /\ UNCHANGED txVars

\* Everything but the arrival of a new SDU.
Progress ==
    \/ TxProgress /\ MacLifetime' /\ UNCHANGED rxVars
    \/ RxStep /\ UNCHANGED txVars
    \/ \E m \in data : MacLosesData(m) \/ MacDeliversData(m)
    \/ \E k \in DOMAIN status : MacLosesStatus(k)
    \/ \E k \in ReceivableStatus : MacDeliversStatus(k)

LinkNext ==
    \/ \E size \in SduSizes : DataReq(size) /\ UNCHANGED rxVars
    \/ Progress

LinkSpec == LinkInit /\ [][LinkNext]_vars

(***************************************************************************)
(* Fairness: a link that can do something does something.  MAC asks every  *)
(* entity for PDUs in every scheduling round and the timers are checked in *)
(* every subframe.  Nothing is assumed of the radio: losing a PDU counts   *)
(* as doing something.                                                     *)
(***************************************************************************)
LiveLinkSpec == LinkSpec /\ WF_vars(Progress)

-----------------------------------------------------------------------------
\* Types of both sides: in particular every state variable that is a sequence number stays one
\* when the numbers wrap around (the RLC_AM_NEXT_SN masks of rlc_am_receiver.c).
LinkTypeOK ==
    /\ TxTypeOK
    /\ {vr_r, vr_mr, vr_ms, vr_h} \subseteq SN
    /\ {vr_x, sn_delayed} \subseteq SN \cup {Undefined}
    /\ \A e \in receiver_buffer : /\ e.sn \in SN /\ e.so \in Nat /\ e.len \in Nat
                                  /\ e.reassembled \in {"NO", "PENDING", "REASSEMBLED"}
    /\ t_reordering \in BOOLEAN
    /\ status_requested \subseteq {"POLL", "REORDERING"} \cup NoTxMask
    /\ Len(status) <= MaxStatus
    /\ delivered \in Seq(Nat \cup {Unwritten})

Service == INSTANCE RlcAmService WITH taken <- taken, delivered <- delivered

(***************************************************************************)
(* The bearer is an in-order, exactly-once byte pipe, whatever MAC loses   *)
(* or reorders and whenever the timers expire                              *)
(* (rlc_am_receive_process_data_pdu: "deliver the reassembled RLC SDUs to  *)
(* upper layer in sequence if not delivered before").                      *)
(***************************************************************************)
ImplementsService == Service!ServiceSpec

BytesOfPdu(i) == pdu[i].first .. pdu[i].first + pdu[i].payload - 1
BytesOfElement(e) == e.first .. e.first + e.len - e.filler - 1

(***************************************************************************)
(* A byte that left the transmission buffer and has not come out is still  *)
(* held somewhere: in the block of a PDU that is not acknowledged, or in   *)
(* the reception buffer.  rlc_am_ack_pdu frees blocks on the word of a     *)
(* STATUS PDU alone.                                                       *)
(***************************************************************************)
NoByteLost ==
    \A b \in Len(delivered) .. taken - sdu_occupancy - 1 :
        \/ \E i \in Slots : pdu[i].mem /\ b \in BytesOfPdu(i)
        \/ \E e \in receiver_buffer : b \in BytesOfElement(e)

(***************************************************************************)
(* The two windows agree: the peer never expects a PDU the transmitter has *)
(* already released, VT(A) <= VR(R) <= VT(S), and the receiver's own       *)
(* variables are in order, VR(R) <= VR(MS) <= VR(H) <= VT(S).              *)
(***************************************************************************)
WindowsAgree ==
    /\ DiffSn(vr_r, vt_a) <= DiffSn(vt_s, vt_a)
    /\ DiffSn(vr_ms, vr_r) <= DiffSn(vr_h, vr_r)
    /\ DiffSn(vr_h, vt_a) <= DiffSn(vt_s, vt_a)

GaveUp == (\E i \in Slots : ctl[i].max_retransmit) \/ tx_fatal # "none" \/ rx_fatal # "none"

\* The totals count what is pending once.
CountedOnce ==
    retrans = [pdus |-> Cardinality(PendingSlots), bytes |-> SumOver(PendingBytes)]

(***************************************************************************)
(* No PDU is given up behind the upper layer's back: every byte handed     *)
(* over comes out, unless a PDU exceeded maxRetxThreshold or an entity     *)
(* stopped on an assertion.  It takes totals that are right: a PDU that    *)
(* rlc_am_check_timer_poll_retransmit counts a second time leaves bytes    *)
(* behind that keep it from ever considering another.                      *)
(***************************************************************************)
EveryByteDelivered ==
    []CountedOnce => \A n \in 1 .. MaxBytes : taken >= n ~> Len(delivered) >= n \/ GaveUp

\* And every PDU is acknowledged in the end, so that its block is freed and the window opens
\* (rlc_am_check_timer_poll_retransmit and the delayed status triggers of the receiver).
EveryPduAcknowledged ==
    []CountedOnce => <>[](vt_a = vt_s /\ sdu_occupancy = 0) \/ []<>GaveUp
=============================================================================
