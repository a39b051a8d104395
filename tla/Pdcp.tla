-------------------------------- MODULE Pdcp --------------------------------
(***************************************************************************)
(* The numbering of a PDCP bearer between two peers, in one direction      *)
(* (pdcp.c, pdcp_sequence_manager.c, pdcp_security.c): the transmitter     *)
(* gives every PDU a sequence number and ciphers it under COUNT, the pair  *)
(* of its hyper frame number (HFN) and the SN; the PDU's header carries    *)
(* the SN only, and the receiver has to read it back and to find the HFN   *)
(* again.  RLC between them keeps the order and may drop PDUs: RLC UM      *)
(* loses them, and rlc_am_data_req drops an SDU when its buffer is full.   *)
(***************************************************************************)
EXTENDS Integers, Sequences

CONSTANTS
    PdcpModulo,     \* sequence numbers: 2^5 (SRB), 2^7 (um_short) or 2^12 (other DRBs)
    BearerKinds,    \* kinds of bearer, of "srb", "um", "um_short", "am" and "am_gtp"
    MaxPdus,        \* bound: PDUs sent in a behaviour
    MaxGap          \* bound: PDUs that RLC drops in a row, short of the reordering window

ASSUME PdcpAssumption ==
    /\ PdcpModulo \in 2 .. 4096 /\ PdcpModulo % 2 = 0
    /\ BearerKinds \subseteq {"srb", "um", "um_short", "am", "am_gtp"}
    /\ "srb" \in BearerKinds => PdcpModulo <= 32
    /\ "um_short" \in BearerKinds => PdcpModulo <= 128
    /\ MaxPdus \in Nat
    /\ MaxGap \in 0 .. (PdcpModulo \div 2) - 1

VARIABLES
    kind,       \* SRB; DRB over UM with 12-bit or 7-bit ("um_short") SNs; DRB over AM,
                \* and the same at an eNB that forwards to GTP-U ("am_gtp")
    tx,         \* [sn : next_pdcp_tx_sn, hfn : tx_hfn]
    rx,         \* [next : next_pdcp_rx_sn, hfn : rx_hfn, last : last_submitted_pdcp_rx_sn]
    pdus,       \* PDUs in RLC, in order: [header, sn, hfn], sn and hfn being those of the COUNT used
    sent,       \* history: how many PDUs were numbered
    gap,        \* history: PDUs dropped since the last one in pdus
    wrapLost,   \* history: RLC AM dropped a PDU with the last SN
    opened      \* history: the last PDU received, the SN read in it and the HFN it was deciphered with

pdcpVars == <<kind, tx, rx, pdus, sent, gap, wrapLost, opened>>

MaxSn == PdcpModulo - 1
ReorderingWindow == PdcpModulo \div 2
SnSet == 0 .. MaxSn
Octet == {n \in Nat : n < 256}
Uint16 == {n \in Nat : n < 65536}

\* CONFIG_ACTION_ADD; 4095 is the highest SN of a DRB over AM, and out of range elsewhere.
PdcpInit ==
    /\ kind \in BearerKinds
    /\ tx = [sn |-> 0, hfn |-> 0]
    /\ rx = [next |-> 0, hfn |-> 0, last |-> MaxSn]
    /\ pdus = <<>> /\ sent = 0 /\ gap = 0 /\ wrapLost = FALSE
    /\ opened = [sn |-> 0, hfn |-> 0, read |-> 0, used |-> 0]

-----------------------------------------------------------------------------
\* Mutant of NextTx: the HFN stays when the SN returns to 0.
NextTxSameHfn(t) == [t EXCEPT !.sn = (@ + 1) % PdcpModulo]

\* pdcp_get_next_tx_seq_number: the HFN goes up with the last SN, before that PDU is ciphered.
NextTx(t) ==
    IF t.sn = MaxSn THEN [sn |-> 0, hfn |-> t.hfn + 1] ELSE [t EXCEPT !.sn = @ + 1]

\* The header of a data PDU: one octet on an SRB; two on every DRB, the D/C bit and 12 bits of SN.
Header(sn) ==
    IF kind = "srb" THEN <<sn % 32>> ELSE <<128 + ((sn \div 256) % 128), sn % 256>>

\* The SN that pdcp_data_ind reads: 5 bits of an SRB, 7 or 12 bits by the SN size of a DRB.
SnOfHeader(header) ==
    CASE kind = "srb" -> header[1] % 32
      [] kind = "um_short" -> header[1] % 128
      [] OTHER -> (header[1] % 16) * 256 + header[2]

(***************************************************************************)
(* pdcp_data_req: the PDU is numbered and ciphered under the HFN as        *)
(* pdcp_get_next_tx_seq_number leaves it; rlc_data_req queues or drops it. *)
(***************************************************************************)
PdcpDataReq(dropped) ==
    /\ sent < MaxPdus
    /\ dropped => gap < MaxGap
    /\ tx' = NextTx(tx)
    /\ sent' = sent + 1
    /\ gap' = IF dropped THEN gap + 1 ELSE 0
    /\ wrapLost' = (wrapLost \/ (dropped /\ kind = "am" /\ tx.sn = MaxSn))
    /\ pdus' = IF dropped THEN pdus
               ELSE Append(pdus, [header |-> Header(tx.sn), sn |-> tx.sn, hfn |-> tx'.hfn])
    /\ UNCHANGED <<kind, rx, opened>>

-----------------------------------------------------------------------------
\* Mutants of AdvanceRxWindow: the last SN is stepped over; the SN just received is expected.
AdvancePastMax(r, sn) == [r EXCEPT !.next = sn + 1, !.hfn = IF sn = MaxSn THEN @ + 1 ELSE @]
AdvanceToSame(r, sn) ==
    IF sn = MaxSn THEN [r EXCEPT !.next = 0, !.hfn = @ + 1] ELSE [r EXCEPT !.next = sn]

\* pdcp_advance_rx_window, after next_pdcp_rx_sn was set to sn.
AdvanceRxWindow(r, sn) ==
    IF sn = MaxSn THEN [r EXCEPT !.next = 0, !.hfn = @ + 1] ELSE [r EXCEPT !.next = sn + 1]

\* Mutant of InOrderSn: an SN below the expected one does not start a new HFN.
InOrderSnNoWrap(r, sn) == AdvanceRxWindow(r, sn)

\* SRBs and DRBs over UM: an SN below the expected one belongs to the next HFN.
InOrderSn(r, sn) == AdvanceRxWindow([r EXCEPT !.hfn = IF sn < r.next THEN @ + 1 ELSE @], sn)

\* DRBs over AM: out of the reordering window around the last SDU submitted.
OutOfWindow(r, sn) ==
    \/ sn - r.last > ReorderingWindow
    \/ r.last - sn \in 0 .. ReorderingWindow - 1

AmSn(r, sn) ==
    CASE OutOfWindow(r, sn) -> r
      [] ~OutOfWindow(r, sn) /\ r.next - sn > ReorderingWindow ->
            [r EXCEPT !.hfn = @ + 1, !.next = (@ + 1) % 65536]
      [] ~OutOfWindow(r, sn) /\ sn \in r.next .. r.next + ReorderingWindow - 1 ->
            AdvanceRxWindow(r, sn)
      [] OTHER -> r

\* rx_hfn_offset: what pdcp_get_next_count_rx adds to rx_hfn for this PDU.
HfnOffset(r, sn) ==
    IF /\ kind \in {"am", "am_gtp"}
       /\ \/ OutOfWindow(r, sn) /\ sn > r.next
          \/ ~OutOfWindow(r, sn) /\ sn - r.next >= ReorderingWindow
    THEN -1 ELSE 0

\* pdcp_is_rx_seq_number_valid; pdcp_data_ind goes on whatever it returns.
RxSeqNumber(r, sn) == IF kind \in {"srb", "um", "um_short"} THEN InOrderSn(r, sn) ELSE AmSn(r, sn)

(***************************************************************************)
(* pdcp_data_ind.  last_submitted_pdcp_rx_sn follows on a DRB over AM,     *)
(* but not where the SDU is forwarded to GTP-U (packet_forwarded).         *)
(***************************************************************************)
PdcpDataInd ==
    LET pdu == Head(pdus)
        sn == SnOfHeader(pdu.header)
        r == RxSeqNumber(rx, sn)
    IN  /\ pdus # <<>>
        /\ pdus' = Tail(pdus)
        /\ opened' = [sn |-> pdu.sn, hfn |-> pdu.hfn,
                      read |-> sn, used |-> r.hfn + HfnOffset(rx, sn)]
        /\ rx' = IF kind = "am" THEN [r EXCEPT !.last = sn] ELSE r
        /\ UNCHANGED <<kind, tx, sent, gap, wrapLost>>

PdcpNext == (\E dropped \in BOOLEAN : PdcpDataReq(dropped)) \/ PdcpDataInd

PdcpSpec == PdcpInit /\ [][PdcpNext]_pdcpVars

-----------------------------------------------------------------------------
(***************************************************************************)
(* The bearers whose receiver keeps up: SRBs, DRBs over UM with 12-bit     *)
(* SNs, and DRBs over AM as long as RLC has not dropped a PDU with the     *)
(* last SN, after which next_pdcp_rx_sn++ stands where the received SN + 1 *)
(* would belong.  Forwarding to GTP-U (last_submitted_pdcp_rx_sn stays)    *)
(* and 7-bit SNs (written as 12) break it by themselves.                   *)
(***************************************************************************)
Followed == kind \in {"srb", "um"} \/ (kind = "am" /\ ~wrapLost)

\* The numbers keep their types, and the expected SN stays a sequence number where Followed.
PdcpTypeOK ==
    /\ kind \in BearerKinds
    /\ tx \in [sn : SnSet, hfn : Nat]
    /\ rx \in [next : Uint16, hfn : Nat, last : SnSet]
    /\ Followed => rx.next \in SnSet
    /\ pdus \in Seq([header : Seq(Octet), sn : SnSet, hfn : Nat])
    /\ sent \in Nat /\ gap \in 0 .. MaxGap /\ wrapLost \in BOOLEAN
    /\ opened \in [sn : SnSet, hfn : Nat, read : SnSet, used : Int]

(***************************************************************************)
(* The receiver finds the COUNT of every PDU again: pdcp_validate_security *)
(* deciphers under the SN and the HFN that pdcp_apply_security ciphered    *)
(* with, across the wrap of the SN and whatever RLC drops in between.  The *)
(* code comments promise it of every bearer, which EveryCountAgrees says;  *)
(* it holds where Followed.                                                *)
(***************************************************************************)
EveryCountAgrees == opened.read = opened.sn /\ opened.used = opened.hfn
CountsAgree == Followed => EveryCountAgrees

(***************************************************************************)
(* The two ends agree whenever nothing is on its way: the receiver expects *)
(* the SN and the HFN the transmitter will use next, so that no wrap has   *)
(* been counted twice or forgotten.                                        *)
(***************************************************************************)
EndsInStep ==
    Followed /\ pdus = <<>> /\ gap = 0 /\ sent > 0 => rx.next = tx.sn /\ rx.hfn = tx.hfn

(***************************************************************************)
(* No COUNT is used for two PDUs (the keystream would repeat): every PDU   *)
(* pdcp_data_req numbers comes after all the earlier ones in the order of  *)
(* (HFN, SN) counted from the last SN, with which the HFN goes up.         *)
(***************************************************************************)
CountOf(sn, hfn) == (hfn * PdcpModulo) + ((sn + 1) % PdcpModulo)
NoCountTwice ==
    [][sent' = sent + 1 =>
          /\ \A i \in DOMAIN pdus : CountOf(pdus[i].sn, pdus[i].hfn) < CountOf(tx.sn, tx'.hfn)
          /\ sent > 0 => CountOf(opened.sn, opened.hfn) < CountOf(tx.sn, tx'.hfn)]_pdcpVars
=============================================================================
