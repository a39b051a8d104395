------------------------------ MODULE RlcUmLink ------------------------------
(***************************************************************************)
(* An unacknowledged-mode bearer: the transmitting entity of one node, the *)
(* receiving entity of its peer, and the two MAC layers between them,      *)
(* which may lose, repeat and reorder PDUs (HARQ), except on a multicast   *)
(* channel, where there is no HARQ.                                        *)
(***************************************************************************)
EXTENDS RlcUmRx

VARIABLES
    seen,    \* history: one more than the highest PDU number that arrived
    lossy    \* history: a PDU was lost or t-Reordering expired

umVars == <<umTxVars, rx, delivered, seen, lossy>>

UmInit == UmTxInit /\ UmRxInit /\ seen = 0 /\ lossy = FALSE

\* Sequence numbers mean something only while fewer than half of them are at stake.
Window == SnModulo \div 2
WithinWindow == vt_us < seen + Window /\ \A m \in air : vt_us < m.n + Window

UpperDataReq(size) == UmDataReq(size) /\ UNCHANGED <<rx, delivered, seen, lossy>>

MacGrant(grant) ==
    /\ WithinWindow
    /\ UmSegment(grant)
    /\ UNCHANGED <<rx, delivered, seen, lossy>>

InOrder(m) == rx.win = 0 => \A o \in air : m.n <= o.n

Arrive(m, stays) ==
    /\ InOrder(m) /\ (rx.win = 0 => ~stays)
    /\ Handled(ReceiveProcessDar(rx, m))
    /\ seen' = Max({seen, m.n + 1})
    /\ air' = IF stays THEN air ELSE air \ {m}
    /\ UNCHANGED <<vt_us, input_sdus, buffer_occupancy, sdu_sizes, um_fatal, lossy>>

Lose(m) ==
    /\ air' = air \ {m}
    /\ lossy' = TRUE
    /\ UNCHANGED <<vt_us, input_sdus, buffer_occupancy, sdu_sizes, um_fatal,
                   rx, delivered, seen>>

ReorderingExpires ==
    /\ rx.running
    /\ Handled(TimerDarTimeOut(rx))
    /\ lossy' = TRUE
    /\ UNCHANGED <<umTxVars, seen>>

UmNext ==
    \/ \E size \in UmSduSizes : UpperDataReq(size)
    \/ \E grant \in UmGrants : MacGrant(grant)
    \/ \E m \in air : Lose(m) \/ \E stays \in BOOLEAN : Arrive(m, stays)
    \/ ReorderingExpires

(***************************************************************************)
(* rlc_um_mac_status_indication, which MAC calls in every subframe, and    *)
(* rlc_um_mac_data_indication look at the running timer.  The second       *)
(* conjunct is WF_umVars(ReorderingExpires): the action is enabled, and    *)
(* changes VR(UR), whenever t-Reordering runs.                             *)
(***************************************************************************)
UmSpec ==
    /\ UmInit /\ [][UmNext]_umVars
    /\ ([]<>(~rx.running) \/ []<><<ReorderingExpires>>_umVars)

-----------------------------------------------------------------------------
Pdus == [n : Nat, sn : Sns, starts : BOOLEAN, ends : BOOLEAN, pieces : Seq(Seq(Nat \X Nat))]

\* An empty slot of dar_buffer, a null pointer in the code, is told apart from every PDU.
ASSUME NoPduAssumption == NoPdu \notin Pdus

\* The state variables keep their types and ranges.
UmTypeOK ==
    /\ vt_us \in Nat /\ seen \in Nat
    /\ buffer_occupancy \in Nat
    /\ input_sdus \in Seq([id : Nat, size : UmSduSizes, remaining : Nat \ {0}])
    /\ air \subseteq Pdus
    /\ rx \in [win : {0, Window}, ur : Sns, ux : Sns, uh : Sns, last : Sns,
               dar : [Sns -> Pdus \cup {NoPdu}], running : BOOLEAN,
               missing : BOOLEAN, sdu : Seq(Nat \X Nat), out : {<<>>}]
    /\ delivered \in Seq(Seq(Nat \X Nat))
    /\ lossy \in BOOLEAN

(***************************************************************************)
(* The bearer implements the abstract service: what rlc_um_send_sdu passes *)
(* on are SDUs that were handed to rlc_um_data_req, whole, in order and    *)
(* none of them twice, whatever HARQ loses, repeats or reorders and        *)
(* whenever t-Reordering expires.  An SDU that is not byte for byte one    *)
(* that was handed over maps to 0, which the service never delivers.       *)
(***************************************************************************)
SduNumber(bytes) ==
    LET same == {k \in DOMAIN sdu_sizes : bytes = SduBytes(k, 1, sdu_sizes[k])}
    IN  IF same = {} THEN 0 ELSE CHOOSE k \in same : TRUE

UmService == INSTANCE RlcUmService WITH
    accepted <- Len(sdu_sizes),
    out <- [i \in DOMAIN delivered |-> SduNumber(delivered[i])]

ImplementsUmService == UmService!UmServiceSpec

(***************************************************************************)
(* Every SDU that comes out has the bytes of an SDU that was handed over   *)
(* and no others: "reduce the size of the PDU" of rlc_um_segment.c leaves  *)
(* nothing after the last byte of the last SDU.                            *)
(***************************************************************************)
DeliveredIntact == \A i \in DOMAIN delivered : SduNumber(delivered[i]) # 0

(***************************************************************************)
(* The two passes of the segmentation (how many length indicators, then    *)
(* the copying) agree, so that the assertions of rlc_um_segment.c (the     *)
(* assert(1!=1) of the fill loop among them) never stop the process.       *)
(***************************************************************************)
SegmentationNeverAsserts == um_fatal = "none"

\* How far a sequence number is ahead of another one.
Ahead(sn, from) == (sn - from) % SnModulo

(***************************************************************************)
(* Between two handlers the receiving window is in order, wraps of the     *)
(* numbers included: VR(UR) is at most UM_Window_Size behind VR(UH), every *)
(* stored PDU is between the two, and so is VR(UX) while t-Reordering runs *)
(* (in_window and in_reordering_window take signed remainders, and the     *)
(* time-out searches from VR(UX) for a number that was not received).      *)
(***************************************************************************)
UmWindow ==
    /\ Ahead(rx.uh, rx.ur) <= rx.win
    /\ \A sn \in Sns : rx.dar[sn] # NoPdu => Ahead(sn, rx.ur) < Ahead(rx.uh, rx.ur)
    /\ rx.running => Ahead(rx.ux, rx.ur) <= Ahead(rx.uh, rx.ur)

(***************************************************************************)
(* When MAC lost nothing and t-Reordering never expired, reordered and     *)
(* repeated PDUs cost nothing: once everything sent has arrived, every SDU *)
(* has come out.                                                           *)
(***************************************************************************)
ReorderingLosesNothing ==
    ~lossy /\ air = {} /\ input_sdus = <<>> =>
        [i \in DOMAIN delivered |-> SduNumber(delivered[i])] = [i \in DOMAIN sdu_sizes |-> i]

(***************************************************************************)
(* Every PDU that rlc_um_store_pdu_in_dar_buffer stores is eventually      *)
(* reassembled and its slot freed, even when no further PDU arrives: a     *)
(* buffer that holds a PDU never finds t-Reordering stopped.               *)
(***************************************************************************)
StoredPduIsReassembled == \A sn \in Sns : rx.dar[sn] # NoPdu ~> rx.dar[sn] = NoPdu
=============================================================================
