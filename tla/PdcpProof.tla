----------------------------- MODULE PdcpProof ------------------------------
(***************************************************************************)
(* Proofs about the numbering of a PDCP bearer, for every modulus the SN   *)
(* lengths allow, any number of PDUs in RLC and any number of wraps: where *)
(* Followed, the receiver finds the COUNT of every PDU again; on every     *)
(* kind of bearer no COUNT is used twice.                                  *)
(***************************************************************************)
EXTENDS Pdcp, TLAPS

\* pdcp_get_next_tx_seq_number and pdcp_advance_rx_window: the SN after sn.
SuccSn(sn) == IF sn = MaxSn THEN 0 ELSE sn + 1

(***************************************************************************)
(* PDU p comes fewer than ReorderingWindow PDUs after the one numbered     *)
(* next under hfn; over AM the PDU with the last SN is not between them.   *)
(***************************************************************************)
Follows(p, next, hfn) ==
    \/ /\ p.sn - next \in 0 .. ReorderingWindow - 1
       /\ p.hfn = IF p.sn = MaxSn THEN hfn + 1 ELSE hfn
    \/ /\ p.sn < next /\ p.sn + PdcpModulo - next < ReorderingWindow
       /\ p.hfn = hfn + 1 /\ kind # "am"

\* The transmitter has dropped `gap` PDUs since it was at next and hfn.
TxAt(next, hfn) ==
    \/ next + gap < PdcpModulo /\ tx.sn = next + gap /\ tx.hfn = hfn
    \/ /\ next + gap >= PdcpModulo /\ kind # "am"
       /\ tx.sn = next + gap - PdcpModulo /\ tx.hfn = hfn + 1

(***************************************************************************)
(* The inductive invariant behind CountsAgree and EndsInStep: the PDUs in  *)
(* RLC lead from what the receiver expects to where the transmitter is,    *)
(* each within a window of the one before.  It holds where Followed.       *)
(***************************************************************************)
FirstFollows == pdus # <<>> => Follows(pdus[1], rx.next, rx.hfn)
EachFollows ==
    \A i \in 1 .. Len(pdus) - 1 : Follows(pdus[i + 1], SuccSn(pdus[i].sn), pdus[i].hfn)
TxFollows ==
    IF pdus = <<>> THEN TxAt(rx.next, rx.hfn)
    ELSE TxAt(SuccSn(pdus[Len(pdus)].sn), pdus[Len(pdus)].hfn)
LastSubmitted == kind = "am" => rx.next = SuccSn(rx.last)

PdusLead == FirstFollows /\ EachFollows /\ TxFollows /\ LastSubmitted

\* Every PDU in RLC begins with the header of its SN.
HeadersKept == \A i \in 1 .. Len(pdus) : pdus[i].header = Header(pdus[i].sn)

-----------------------------------------------------------------------------
\* What the modulus is worth: half of it is the reordering window.
LEMMA HalfWindow ==
    /\ PdcpModulo \in Nat /\ ReorderingWindow \in Nat \ {0}
    /\ PdcpModulo = ReorderingWindow + ReorderingWindow
    /\ MaxSn \in Nat /\ MaxSn = PdcpModulo - 1 /\ PdcpModulo <= 4096
    /\ MaxGap \in 0 .. ReorderingWindow - 1
  BY PdcpAssumption DEF ReorderingWindow, MaxSn

\* A pair of octets is a sequence of octets.
LEMMA PairOfOctets ==
    ASSUME NEW a \in Octet, NEW b \in Octet
    PROVE  <<a, b>> \in Seq(Octet) /\ <<a, b>>[1] = a /\ <<a, b>>[2] = b
  OBVIOUS

\* A number below 4096 and its two octets.
LEMMA TwoOctets ==
    ASSUME NEW n \in Nat, n < 4096
    PROVE  /\ n \div 256 \in Nat /\ n \div 256 < 16 /\ n % 256 \in Nat /\ n % 256 < 256
           /\ n = ((n \div 256) * 256) + (n % 256)
  <1>1. n \div 256 \in Nat /\ n \div 256 < 16
    OBVIOUS
  <1>2. n % 256 \in Nat /\ n % 256 < 256
    OBVIOUS
  <1>3. n = ((n \div 256) * 256) + (n % 256)
    OBVIOUS
  <1> QED BY <1>1, <1>2, <1>3

(***************************************************************************)
(* What pdcp_data_ind reads in the header that pdcp_data_req wrote: the SN *)
(* on SRBs and with 12-bit SNs; some sequence number in any case.          *)
(***************************************************************************)
LEMMA HeaderRead ==
    ASSUME NEW sn \in SnSet, kind \in BearerKinds
    PROVE  /\ Header(sn) \in Seq(Octet)
           /\ SnOfHeader(Header(sn)) \in SnSet
           /\ kind # "um_short" => SnOfHeader(Header(sn)) = sn
  <1>1. sn \in Nat /\ sn < PdcpModulo /\ PdcpModulo \in Nat /\ PdcpModulo <= 4096
    BY HalfWindow DEF SnSet
  <1>2. CASE kind = "srb"
    <2>1. sn < 32
      BY <1>1, <1>2, PdcpAssumption
    <2>2. Header(sn) = <<sn % 32>> /\ sn % 32 = sn
      BY <1>1, <1>2, <2>1 DEF Header
    <2>3. SnOfHeader(<<sn>>) = sn
      BY <1>1, <1>2, <2>1 DEF SnOfHeader
    <2>4. sn \in Octet
      BY <1>1, <2>1 DEF Octet
    <2> QED BY <2>2, <2>3, <2>4
  <1>3. CASE kind # "srb"
    <2>1. PICK q \in Nat, b \in Nat :
             q = sn \div 256 /\ b = sn % 256 /\ q < 16 /\ b < 256 /\ sn = q * 256 + b
      <3>1. sn < 4096
        BY <1>1
      <3>2. /\ sn \div 256 \in Nat /\ sn \div 256 < 16 /\ sn % 256 \in Nat /\ sn % 256 < 256
            /\ sn = ((sn \div 256) * 256) + (sn % 256)
        BY <1>1, <3>1, TwoOctets
      <3> sn \div 256 \in Nat /\ sn % 256 \in Nat
        BY <3>2
      <3> WITNESS sn \div 256 \in Nat, sn % 256 \in Nat
      <3> QED BY <3>2
    <2>2. q % 128 = q /\ 128 + q \in Octet /\ (128 + q) % 16 = q /\ (128 + q) % 128 = q /\ b \in Octet
      BY <2>1 DEF Octet
    <2>3. PICK a \in Octet : a = 128 + q /\ Header(sn) = <<a, b>>
      BY <1>3, <2>1, <2>2 DEF Header
    <2>4. Header(sn) \in Seq(Octet) /\ Header(sn)[1] = a /\ Header(sn)[2] = b
      BY <2>2, <2>3, PairOfOctets
    <2>5. CASE kind = "um_short"
      <3>1. q = 0
        BY <1>1, <2>1, <2>5, PdcpAssumption
      <3>2. SnOfHeader(Header(sn)) = 0
        BY <2>2, <2>3, <2>4, <2>5, <3>1 DEF SnOfHeader
      <3>3. 0 \in SnSet
        BY HalfWindow DEF SnSet
      <3> QED BY <2>4, <2>5, <3>2, <3>3
    <2>6. CASE kind # "um_short"
      <3>1. SnOfHeader(Header(sn)) = q * 256 + b
        BY <1>3, <2>2, <2>3, <2>4, <2>6 DEF SnOfHeader
      <3> QED BY <2>1, <2>4, <3>1
    <2> QED BY <2>5, <2>6
  <1> QED BY <1>2, <1>3

\* The successor of a sequence number is one.
LEMMA SuccInRange == \A sn \in SnSet : SuccSn(sn) \in SnSet
  BY HalfWindow DEF SnSet, SuccSn

\* pdcp_get_next_tx_seq_number moves on by one position.
LEMMA NextTxIs ==
    ASSUME NEW t \in [sn : SnSet, hfn : Nat]
    PROVE  /\ NextTx(t) \in [sn : SnSet, hfn : Nat]
           /\ NextTx(t).sn = SuccSn(t.sn)
           /\ NextTx(t).hfn = IF t.sn = MaxSn THEN t.hfn + 1 ELSE t.hfn
  BY HalfWindow DEF NextTx, SnSet, SuccSn

\* The receiver's numbers, next_pdcp_rx_sn as a 16-bit one and as a sequence number.
RxNumbers == [next : Uint16, hfn : Nat, last : SnSet]
RxState == [next : SnSet, hfn : Nat, last : SnSet]

\* pdcp_advance_rx_window expects the SN after sn, and counts the HFN up with the last one.
LEMMA AdvanceIs ==
    ASSUME NEW r \in RxNumbers, NEW sn \in SnSet
    PROVE  /\ AdvanceRxWindow(r, sn) \in RxState
           /\ AdvanceRxWindow(r, sn).next = SuccSn(sn)
           /\ AdvanceRxWindow(r, sn).hfn = IF sn = MaxSn THEN r.hfn + 1 ELSE r.hfn
  <1>1. SuccSn(sn) \in SnSet /\ r.hfn \in Nat /\ r.hfn + 1 \in Nat /\ r.last \in SnSet
    BY SuccInRange DEF RxNumbers
  <1>2. AdvanceRxWindow(r, sn) = [next |-> SuccSn(sn), last |-> r.last,
                                  hfn |-> IF sn = MaxSn THEN r.hfn + 1 ELSE r.hfn]
    BY DEF AdvanceRxWindow, SuccSn, RxNumbers
  <1> QED BY <1>1, <1>2 DEF RxState

\* A sequence number is a 16-bit number.
LEMMA StateIsNumbers == \A r \in RxState : r \in RxNumbers
  <1>1. \A n \in SnSet : n \in Uint16
    BY HalfWindow DEF SnSet, Uint16
  <1> QED BY <1>1 DEF RxState, RxNumbers

\* last_submitted_pdcp_rx_sn takes the SN of the SDU.
LEMMA LastIsSet ==
    ASSUME NEW r \in RxNumbers, NEW sn \in SnSet
    PROVE  [r EXCEPT !.last = sn] \in RxNumbers
  BY DEF RxNumbers

\* Whatever the SN, pdcp_is_rx_seq_number_valid leaves 16-bit numbers.
LEMMA RxNumbersKept ==
    ASSUME NEW r \in RxNumbers, NEW sn \in SnSet
    PROVE  RxSeqNumber(r, sn) \in RxNumbers /\ HfnOffset(r, sn) \in Int
  <1>1. r.next \in Uint16 /\ r.hfn \in Nat /\ r.last \in SnSet
    BY DEF RxNumbers
  <1>2. HfnOffset(r, sn) \in Int
    BY DEF HfnOffset
  <1>3. InOrderSn(r, sn) \in RxNumbers
    <2> DEFINE q == [r EXCEPT !.hfn = IF sn < r.next THEN @ + 1 ELSE @]
    <2>1. q \in RxNumbers
      BY <1>1 DEF RxNumbers
    <2>2. InOrderSn(r, sn) = AdvanceRxWindow(q, sn)
      BY DEF InOrderSn
    <2> HIDE DEF q
    <2> QED BY <2>1, <2>2, AdvanceIs, StateIsNumbers
  <1>4. [r EXCEPT !.hfn = @ + 1, !.next = (@ + 1) % 65536] \in RxNumbers
    <2>1. (r.next + 1) % 65536 \in Uint16 /\ r.hfn + 1 \in Nat
      BY <1>1 DEF Uint16
    <2>2. PICK n \in Uint16, h \in Nat : n = (r.next + 1) % 65536 /\ h = r.hfn + 1
      BY <2>1
    <2>3. [r EXCEPT !.hfn = h, !.next = n] \in RxNumbers
      BY DEF RxNumbers
    <2> QED BY <2>2, <2>3
  <1>5. AdvanceRxWindow(r, sn) \in RxNumbers
    BY AdvanceIs, StateIsNumbers
  <1>6. AmSn(r, sn) \in RxNumbers
    BY <1>4, <1>5 DEF AmSn
  <1> QED BY <1>2, <1>3, <1>6 DEF RxSeqNumber

(***************************************************************************)
(* pdcp_is_rx_seq_number_valid takes a PDU within the window as the one it *)
(* is: it expects the SN after it, and rx_hfn with the offset is the HFN   *)
(* the PDU was ciphered with.                                              *)
(***************************************************************************)
LEMMA RxFollows ==
    ASSUME NEW r \in RxState, NEW p, p.sn \in SnSet, p.hfn \in Nat,
           kind \in {"srb", "um", "am"}, Follows(p, r.next, r.hfn),
           kind = "am" => r.next = SuccSn(r.last)
    PROVE  /\ RxSeqNumber(r, p.sn) \in RxState
           /\ RxSeqNumber(r, p.sn).next = SuccSn(p.sn)
           /\ RxSeqNumber(r, p.sn).hfn = p.hfn
           /\ HfnOffset(r, p.sn) = 0
  <1>0. r.next \in SnSet /\ r.hfn \in Nat /\ r.last \in SnSet /\ p.sn \in SnSet /\ p.hfn \in Nat
    BY DEF RxState
  <1>2. CASE kind \in {"srb", "um"}
    <2> DEFINE q == [r EXCEPT !.hfn = IF p.sn < r.next THEN @ + 1 ELSE @]
    <2>1. RxSeqNumber(r, p.sn) = AdvanceRxWindow(q, p.sn) /\ HfnOffset(r, p.sn) = 0
      BY <1>2 DEF RxSeqNumber, HfnOffset, InOrderSn
    <2>2. q \in RxNumbers /\ q.hfn = IF p.sn < r.next THEN r.hfn + 1 ELSE r.hfn
      BY <1>0, StateIsNumbers DEF RxState, RxNumbers
    <2>3. p.hfn = IF p.sn = MaxSn THEN q.hfn + 1 ELSE q.hfn
      BY <1>0, <2>2, HalfWindow DEF Follows, SnSet
    <2> HIDE DEF q
    <2> QED BY <1>0, <2>1, <2>2, <2>3, AdvanceIs, SMTT(30)
  <1>3. CASE kind = "am"
    <2>1. p.sn - r.next \in 0 .. ReorderingWindow - 1
      BY <1>3 DEF Follows
    <2>2. ~OutOfWindow(r, p.sn)
      <3>1. CASE r.last = MaxSn
        <4>1. r.next = 0
          BY <1>3, <3>1 DEF SuccSn
        <4> QED BY <1>0, <2>1, <3>1, <4>1, HalfWindow DEF OutOfWindow, SnSet
      <3>2. CASE r.last # MaxSn
        <4>1. r.next = r.last + 1
          BY <1>3, <3>2 DEF SuccSn
        <4> QED BY <1>0, <2>1, <4>1, HalfWindow DEF OutOfWindow, SnSet
      <3> QED BY <3>1, <3>2
    <2>3. ~(r.next - p.sn > ReorderingWindow) /\ p.sn \in r.next .. r.next + ReorderingWindow - 1
      BY <1>0, <2>1, HalfWindow DEF SnSet
    <2>4. RxSeqNumber(r, p.sn) = AdvanceRxWindow(r, p.sn)
      BY <1>3, <2>2, <2>3 DEF RxSeqNumber, AmSn
    <2>5. HfnOffset(r, p.sn) = 0
      BY <1>0, <2>1, <2>2, HalfWindow DEF HfnOffset, SnSet
    <2>6. p.hfn = IF p.sn = MaxSn THEN r.hfn + 1 ELSE r.hfn
      BY <1>0, <2>1, HalfWindow DEF Follows, SnSet
    <2> QED BY <1>0, <2>4, <2>5, <2>6, AdvanceIs, StateIsNumbers
  <1> QED BY <1>2, <1>3

-----------------------------------------------------------------------------
\* The inductive invariant: types, headers, the PDUs in RLC follow each other up to the
\* transmitter, and both ends count the same HFN.
PdcpInv == PdcpTypeOK /\ HeadersKept /\ (Followed => PdusLead) /\ CountsAgree

\* Nothing was sent: both ends stand at the first number.
LEMMA PdcpInvInit == PdcpInit => PdcpInv
  <1> SUFFICES ASSUME PdcpInit PROVE PdcpInv
    OBVIOUS
  <1>0. 0 \in SnSet /\ MaxSn \in SnSet /\ 0 \in Uint16 /\ 0 \in 0 .. MaxGap
    BY HalfWindow DEF SnSet, Uint16
  <1>1. PdcpTypeOK
    <2>1. /\ tx \in [sn : SnSet, hfn : Nat] /\ rx \in [next : Uint16, hfn : Nat, last : SnSet]
          /\ rx.next \in SnSet /\ opened \in [sn : SnSet, hfn : Nat, read : SnSet, used : Int]
      BY <1>0 DEF PdcpInit
    <2>2. pdus \in Seq([header : Seq(Octet), sn : SnSet, hfn : Nat]) /\ sent \in Nat
      BY DEF PdcpInit
    <2> QED BY <1>0, <2>1, <2>2, Zenon DEF PdcpInit, PdcpTypeOK
  <1>2. PdusLead
    BY HalfWindow DEF PdcpInit, PdusLead, FirstFollows, EachFollows, TxFollows, TxAt,
                      LastSubmitted, SuccSn
  <1>3. HeadersKept /\ CountsAgree
    BY DEF PdcpInit, HeadersKept, CountsAgree, EveryCountAgrees
  <1> QED BY <1>1, <1>2, <1>3 DEF PdcpInv

\* The transmitter moves on: one more PDU dropped, or one that follows the last.
LEMMA TxMoves ==
    ASSUME PdcpTypeOK, tx' = NextTx(tx), kind' = kind,
           NEW next \in SnSet, NEW hfn \in Nat, TxAt(next, hfn),
           NEW p, p.sn = tx.sn, p.hfn = tx'.hfn
    PROVE  /\ gap' = gap + 1 /\ ~(kind = "am" /\ tx.sn = MaxSn) => TxAt(next, hfn)'
           /\ Follows(p, next, hfn)
           /\ tx'.sn = SuccSn(tx.sn)
  <1>0. tx.sn \in SnSet /\ tx.hfn \in Nat /\ gap \in Nat /\ tx \in [sn : SnSet, hfn : Nat]
    BY HalfWindow DEF PdcpTypeOK
  <1>1. tx'.sn = SuccSn(tx.sn) /\ tx'.hfn = IF tx.sn = MaxSn THEN tx.hfn + 1 ELSE tx.hfn
    BY <1>0, NextTxIs
  <1>2. gap \in 0 .. ReorderingWindow - 1
    BY HalfWindow DEF PdcpTypeOK
  <1>3. ASSUME gap' = gap + 1, ~(kind = "am" /\ tx.sn = MaxSn) PROVE TxAt(next, hfn)'
    BY <1>0, <1>1, <1>2, <1>3, HalfWindow DEF TxAt, SnSet, SuccSn
  <1>4. CASE next + gap < PdcpModulo
    <2>1. tx.sn = next + gap /\ tx.hfn = hfn
      BY <1>0, <1>4, HalfWindow DEF TxAt, SnSet
    <2>2. tx.sn - next \in 0 .. ReorderingWindow - 1
      BY <1>2, <2>1, HalfWindow DEF SnSet
    <2>3. tx'.hfn = IF tx.sn = MaxSn THEN hfn + 1 ELSE hfn
      BY <1>1, <2>1
    <2> QED BY <1>1, <1>3, <2>2, <2>3 DEF Follows
  <1>5. CASE ~(next + gap < PdcpModulo)
    <2>1. tx.sn = next + gap - PdcpModulo /\ tx.hfn = hfn + 1 /\ kind # "am"
      BY <1>5 DEF TxAt
    <2>2. /\ tx.sn < next /\ tx.sn + PdcpModulo - next < ReorderingWindow
          /\ kind # "am" /\ tx.sn # MaxSn
      BY <1>0, <1>2, <1>5, <2>1, HalfWindow DEF SnSet
    <2>3. tx'.hfn = hfn + 1
      BY <1>1, <2>1, <2>2
    <2> QED BY <1>1, <1>3, <2>2, <2>3 DEF Follows
  <1> QED BY <1>4, <1>5

\* Where the PDUs in RLC end: the position after the last of them, or what the receiver expects.
EndNext == IF pdus = <<>> THEN rx.next ELSE SuccSn(pdus[Len(pdus)].sn)
EndHfn == IF pdus = <<>> THEN rx.hfn ELSE pdus[Len(pdus)].hfn

\* What RLC holds, as PdcpTypeOK says it.
PduSet == [header : Seq(Octet), sn : SnSet, hfn : Nat]
TxSet == [sn : SnSet, hfn : Nat]
PduOf(sn, hfn) == [header |-> Header(sn), sn |-> sn, hfn |-> hfn]

\* pdcp_data_req leaves every field in its range.
LEMMA PdcpTypeReq ==
    ASSUME PdcpTypeOK, NEW dropped \in BOOLEAN, PdcpDataReq(dropped)
    PROVE  PdcpTypeOK' /\ tx'.hfn \in Nat
  <1>1. /\ tx \in TxSet /\ pdus \in Seq(PduSet) /\ gap \in 0 .. MaxGap /\ sent \in Nat
        /\ kind \in BearerKinds /\ wrapLost \in BOOLEAN
    BY DEF PdcpTypeOK, PduSet, TxSet
  <1>2. tx' \in TxSet /\ tx'.hfn \in Nat
    BY <1>1, NextTxIs DEF PdcpDataReq, TxSet
  <1>3. PduOf(tx.sn, tx'.hfn) \in PduSet
    BY <1>1, <1>2, HeaderRead DEF PduSet, TxSet, PduOf
  <1>4. pdus' \in Seq(PduSet)
    <2>1. pdus' = pdus \/ pdus' = Append(pdus, PduOf(tx.sn, tx'.hfn))
      BY DEF PdcpDataReq, PduOf
    <2> QED BY <1>1, <1>3, <2>1
  <1>5. sent' \in Nat
    BY <1>1 DEF PdcpDataReq
  <1>6. gap' \in 0 .. MaxGap
    BY <1>1, HalfWindow DEF PdcpDataReq
  <1>7. wrapLost' \in BOOLEAN /\ kind' = kind /\ rx' = rx /\ opened' = opened /\ (Followed' => Followed)
    BY <1>1, Zenon DEF PdcpDataReq, Followed
  <1> QED BY <1>2, <1>4, <1>5, <1>6, <1>7, Zenon DEF PdcpTypeOK, PduSet, TxSet

\* pdcp_data_req adds a PDU that follows the last one in RLC.
LEMMA PdcpInvReq ==
    ASSUME PdcpInv, NEW dropped \in BOOLEAN, PdcpDataReq(dropped)
    PROVE  PdcpInv'
  <1>a. PdcpTypeOK' /\ tx'.hfn \in Nat
    BY PdcpTypeReq DEF PdcpInv
  <1>b. /\ kind' = kind /\ opened' = opened /\ (Followed' => Followed)
        /\ Followed' => ~(dropped /\ kind = "am" /\ tx.sn = MaxSn)
    BY Zenon DEF PdcpDataReq, Followed
  <1>c. CountsAgree'
    BY <1>b DEF PdcpInv, CountsAgree, EveryCountAgrees
  <1>d. HeadersKept'
    <2>1. pdus \in Seq(PduSet)
      BY DEF PdcpInv, PdcpTypeOK, PduSet
    <2>2. pdus' = pdus \/ pdus' = Append(pdus, PduOf(tx.sn, tx'.hfn))
      BY DEF PdcpDataReq, PduOf
    <2>3. \A sn : Header(sn)' = Header(sn)
      BY <1>b DEF Header
    <2>4. /\ PduOf(tx.sn, tx'.hfn).header = Header(tx.sn)
          /\ PduOf(tx.sn, tx'.hfn).sn = tx.sn
      BY DEF PduOf
    <2>5. ASSUME NEW i \in 1 .. Len(pdus') PROVE pdus'[i].header = Header(pdus'[i].sn)
      <3>1. \/ i \in 1 .. Len(pdus) /\ pdus'[i] = pdus[i]
            \/ pdus'[i] = PduOf(tx.sn, tx'.hfn)
        BY <2>1, <2>2
      <3> QED BY <2>4, <3>1 DEF PdcpInv, HeadersKept
    <2> QED BY <2>3, <2>5 DEF HeadersKept
  <1> SUFFICES ASSUME Followed' PROVE PdusLead'
    BY <1>a, <1>c, <1>d DEF PdcpInv
  <1>0. /\ tx \in TxSet /\ pdus \in Seq(PduSet)
        /\ rx.next \in SnSet /\ rx.hfn \in Nat /\ PdusLead
    BY <1>b DEF PdcpInv, PdcpTypeOK, PduSet, TxSet
  <1>1. PdcpTypeOK' /\ tx'.hfn \in Nat
    BY <1>a
  <1>3. LastSubmitted'
    BY <1>0 DEF PdusLead, LastSubmitted, PdcpDataReq
  <1>4. EndNext \in SnSet /\ EndHfn \in Nat
    <2>2. pdus # <<>> => pdus[Len(pdus)] \in PduSet
      BY <1>0
    <2> QED BY <1>0, <2>2, SuccInRange DEF EndNext, EndHfn, PduSet
  <1>5. TxAt(EndNext, EndHfn)
    BY <1>0 DEF PdusLead, TxFollows, EndNext, EndHfn
  <1>6. PICK next \in SnSet, hfn \in Nat : next = EndNext /\ hfn = EndHfn
    BY <1>4
  <1>7. TxAt(next, hfn) /\ tx' = NextTx(tx) /\ kind' = kind /\ PdcpTypeOK
    BY <1>5, <1>6 DEF PdcpDataReq, PdcpInv
  <1>8. CASE dropped
    <2>1. pdus' = pdus /\ rx' = rx /\ gap' = gap + 1
      BY <1>8 DEF PdcpDataReq
    <2>2. FirstFollows' /\ EachFollows'
      BY <1>0, <1>7, <2>1 DEF PdusLead, FirstFollows, EachFollows, Follows
    <2>3. TxAt(next, hfn)'
      <3>1. ~(kind = "am" /\ tx.sn = MaxSn)
        BY <1>8, <1>b
      <3>2. PduOf(tx.sn, tx'.hfn).sn = tx.sn /\ PduOf(tx.sn, tx'.hfn).hfn = tx'.hfn
        BY DEF PduOf
      <3> QED BY <1>7, <2>1, <3>1, <3>2, TxMoves
    <2>4. TxFollows'
      BY <1>6, <2>1, <2>3 DEF TxFollows, EndNext, EndHfn, TxAt
    <2> QED BY <1>3, <2>2, <2>4 DEF PdusLead
  <1>9. CASE ~dropped
    <2> DEFINE p == PduOf(tx.sn, tx'.hfn)
    <2>1. pdus' = Append(pdus, p) /\ rx' = rx /\ gap' = 0
      BY <1>9 DEF PdcpDataReq, PduOf
    <2>3. p.sn = tx.sn /\ p.hfn = tx'.hfn
      BY DEF PduOf
    <2>2. Follows(p, next, hfn) /\ tx'.sn = SuccSn(tx.sn)
      BY <1>7, <2>1, <2>3, TxMoves
    <2> HIDE DEF p
    <2>4. /\ Len(pdus') = Len(pdus) + 1 /\ pdus' # <<>> /\ pdus'[Len(pdus')] = p
          /\ \A i \in 1 .. Len(pdus) : pdus'[i] = pdus[i]
      BY <1>0, <2>1
    <2>5. TxFollows'
      <3>1. tx'.sn + 0 < PdcpModulo /\ tx'.sn + 0 = tx'.sn
        BY <1>1, HalfWindow DEF PdcpTypeOK, SnSet
      <3> QED BY <2>1, <2>2, <2>3, <2>4, <3>1 DEF TxFollows, TxAt
    <2>6. FirstFollows'
      <3>1. CASE pdus = <<>>
        BY <1>6, <1>7, <2>1, <2>2, <2>4, <3>1 DEF FirstFollows, Follows, EndNext, EndHfn
      <3>2. CASE pdus # <<>>
        <4>1. pdus'[1] = pdus[1]
          BY <1>0, <2>4, <3>2
        <4> QED BY <1>0, <1>7, <2>1, <3>2, <4>1 DEF PdusLead, FirstFollows, Follows
      <3> QED BY <3>1, <3>2
    <2>7. EachFollows'
      <3> SUFFICES ASSUME NEW i \in 1 .. Len(pdus)
                   PROVE  Follows(pdus[i + 1], SuccSn(pdus[i].sn), pdus[i].hfn)'
        BY <1>0, <2>4 DEF EachFollows
      <3>1. CASE i = Len(pdus)
        <4>1. pdus # <<>> /\ pdus'[i] = pdus[i] /\ pdus'[i + 1] = p
          BY <1>0, <2>4, <3>1
        <4> QED BY <1>6, <1>7, <2>2, <3>1, <4>1 DEF Follows, EndNext, EndHfn
      <3>2. CASE i # Len(pdus)
        <4>1. i \in 1 .. Len(pdus) - 1 /\ pdus'[i] = pdus[i] /\ pdus'[i + 1] = pdus[i + 1]
          BY <1>0, <2>4, <3>2
        <4> QED BY <1>0, <1>7, <4>1 DEF PdusLead, EachFollows, Follows
      <3> QED BY <3>1, <3>2
    <2> QED BY <1>3, <2>5, <2>6, <2>7 DEF PdusLead
  <1> QED BY <1>8, <1>9

\* pdcp_data_ind leaves every field in its range, and the headers are those of the SNs.
LEMMA PdcpTypeInd ==
    ASSUME PdcpTypeOK, HeadersKept, PdcpDataInd, Followed' => rx'.next \in SnSet
    PROVE  PdcpTypeOK' /\ HeadersKept'
  <1> DEFINE p == Head(pdus)
             sn == SnOfHeader(p.header)
             r == RxSeqNumber(rx, sn)
  <1>1. /\ pdus \in Seq(PduSet) /\ rx \in RxNumbers /\ kind \in BearerKinds
        /\ pdus # <<>> /\ pdus' = Tail(pdus) /\ UNCHANGED <<kind, tx, sent, gap, wrapLost>>
    BY DEF PdcpTypeOK, PdcpDataInd, PduSet, RxNumbers
  <1>2. p = pdus[1] /\ p \in PduSet /\ 1 \in 1 .. Len(pdus)
    BY <1>1
  <1>3. p.sn \in SnSet /\ p.hfn \in Nat /\ p.header = Header(p.sn)
    BY <1>2 DEF HeadersKept, PduSet
  <1>4. sn \in SnSet
    BY <1>1, <1>3, HeaderRead
  <1>5. /\ opened' = [sn |-> p.sn, hfn |-> p.hfn, read |-> sn, used |-> r.hfn + HfnOffset(rx, sn)]
        /\ rx' = IF kind = "am" THEN [r EXCEPT !.last = sn] ELSE r
    BY DEF PdcpDataInd
  <1> HIDE DEF p, sn
  <1>6. r \in RxNumbers /\ HfnOffset(rx, sn) \in Int
    BY <1>1, <1>4, RxNumbersKept
  <1> HIDE DEF r
  <1>7. rx' \in RxNumbers
    BY <1>4, <1>5, <1>6, LastIsSet, Zenon
  <1>8. r.hfn + HfnOffset(rx, sn) \in Int
    BY <1>6 DEF RxNumbers
  <1>9. opened' \in [sn : SnSet, hfn : Nat, read : SnSet, used : Int]
    BY <1>3, <1>4, <1>5, <1>8
  <1>10. /\ pdus' \in Seq(PduSet) /\ Len(pdus') = Len(pdus) - 1
         /\ \A i \in 1 .. Len(pdus') : i + 1 \in 1 .. Len(pdus) /\ pdus'[i] = pdus[i + 1]
    BY <1>1
  <1>11. PdcpTypeOK'
    BY <1>1, <1>7, <1>9, <1>10, Zenon DEF PdcpTypeOK, PduSet, RxNumbers
  <1>12. \A s : Header(s)' = Header(s)
    BY <1>1 DEF Header
  <1>13. HeadersKept'
    BY <1>10, <1>12 DEF HeadersKept
  <1> QED BY <1>11, <1>13

\* pdcp_data_ind takes the first PDU in RLC, which the receiver then stands behind.
LEMMA PdcpInvInd ==
    ASSUME PdcpInv, PdcpDataInd
    PROVE  PdcpInv'
  <1>a. Followed' <=> Followed
    BY DEF PdcpDataInd, Followed
  <1>b. CASE ~Followed
    <2>1. PdcpTypeOK' /\ HeadersKept'
      BY <1>a, <1>b, PdcpTypeInd DEF PdcpInv
    <2> QED BY <1>a, <1>b, <2>1 DEF PdcpInv, CountsAgree
  <1> SUFFICES ASSUME Followed PROVE PdcpInv'
    BY <1>b
  <1> DEFINE p == Head(pdus)
             r == RxSeqNumber(rx, p.sn)
  <1>0. /\ pdus \in Seq(PduSet) /\ rx \in RxState /\ kind \in BearerKinds
        /\ pdus # <<>> /\ pdus' = Tail(pdus) /\ UNCHANGED <<kind, tx, sent, gap>>
    BY DEF PdcpInv, PdcpTypeOK, PdcpDataInd, PduSet, RxState
  <1>1. p = pdus[1] /\ p \in PduSet /\ 1 \in 1 .. Len(pdus)
    BY <1>0
  <1>2. kind \in {"srb", "um", "am"} /\ kind # "um_short"
    BY DEF Followed
  <1>3. Follows(p, rx.next, rx.hfn) /\ (kind = "am" => rx.next = SuccSn(rx.last))
    BY <1>0, <1>1 DEF PdcpInv, PdusLead, FirstFollows, LastSubmitted
  <1>r. SnOfHeader(p.header) = p.sn
    <2>1. p.header = Header(p.sn) /\ p.sn \in SnSet
      BY <1>1 DEF PdcpInv, HeadersKept, PduSet
    <2> QED BY <1>0, <1>2, <2>1, HeaderRead
  <1>5. /\ opened' = [sn |-> p.sn, hfn |-> p.hfn,
                      read |-> p.sn, used |-> r.hfn + HfnOffset(rx, p.sn)]
        /\ rx' = IF kind = "am" THEN [r EXCEPT !.last = p.sn] ELSE r
    BY <1>r DEF PdcpDataInd
  <1> HIDE DEF p
  <1>4. r \in RxState /\ r.next = SuccSn(p.sn) /\ r.hfn = p.hfn /\ HfnOffset(rx, p.sn) = 0
    BY <1>0, <1>1, <1>2, <1>3, RxFollows DEF PduSet
  <1> HIDE DEF r
  <1>6. opened' = [sn |-> p.sn, hfn |-> p.hfn, read |-> p.sn, used |-> p.hfn]
    BY <1>1, <1>4, <1>5 DEF PduSet
  <1>7. /\ rx' \in RxState /\ rx'.next = SuccSn(p.sn) /\ rx'.hfn = p.hfn
        /\ kind = "am" => rx'.last = p.sn
    BY <1>1, <1>4, <1>5 DEF RxState, PduSet
  <1>8. PdcpTypeOK' /\ HeadersKept'
    <2>1. rx'.next \in SnSet
      BY <1>7 DEF RxState
    <2> QED BY <2>1, PdcpTypeInd DEF PdcpInv
  <1>9. CountsAgree'
    BY <1>6 DEF CountsAgree, EveryCountAgrees
  <1>10. LastSubmitted'
    BY <1>0, <1>7 DEF LastSubmitted
  <1>11. /\ Len(pdus') = Len(pdus) - 1
         /\ \A i \in 1 .. Len(pdus) - 1 : pdus'[i] = pdus[i + 1]
    BY <1>0
  <1>12. FirstFollows'
    <2> SUFFICES ASSUME pdus' # <<>> PROVE Follows(pdus[1], rx.next, rx.hfn)'
      BY DEF FirstFollows
    <2>1. 1 \in 1 .. Len(pdus) - 1 /\ pdus'[1] = pdus[2] /\ 1 + 1 = 2
      BY <1>0, <1>11
    <2>2. Follows(pdus[2], SuccSn(pdus[1].sn), pdus[1].hfn)
      BY <2>1 DEF PdcpInv, PdusLead, EachFollows
    <2> QED BY <1>0, <1>1, <1>7, <2>1, <2>2 DEF Follows
  <1>13. EachFollows'
    <2> SUFFICES ASSUME NEW i \in 1 .. Len(pdus') - 1
                 PROVE  Follows(pdus[i + 1], SuccSn(pdus[i].sn), pdus[i].hfn)'
      BY DEF EachFollows
    <2>1. /\ i \in 1 .. Len(pdus) - 1 /\ i + 1 \in 1 .. Len(pdus) - 1
          /\ pdus'[i] = pdus[i + 1] /\ pdus'[i + 1] = pdus[(i + 1) + 1]
      BY <1>0, <1>11
    <2>2. Follows(pdus[(i + 1) + 1], SuccSn(pdus[i + 1].sn), pdus[i + 1].hfn)
      BY <2>1 DEF PdcpInv, PdusLead, EachFollows
    <2> QED BY <1>0, <2>1, <2>2 DEF Follows
  <1>14. TxFollows'
    <2>1. TxAt(SuccSn(pdus[Len(pdus)].sn), pdus[Len(pdus)].hfn)
      BY <1>0 DEF PdcpInv, PdusLead, TxFollows
    <2>2. CASE pdus' = <<>>
      <3>1. Len(pdus) = 1
        <4>1. Len(pdus') = 0
          BY <2>2
        <4> QED BY <1>0, <1>11, <4>1
      <3>2. rx'.next = SuccSn(pdus[Len(pdus)].sn) /\ rx'.hfn = pdus[Len(pdus)].hfn
        BY <1>1, <1>7, <3>1
      <3>3. TxAt(rx'.next, rx'.hfn)
        BY <2>1, <3>2
      <3>4. TxAt(rx.next, rx.hfn)'
        BY <1>0, <3>3 DEF TxAt
      <3> QED BY <2>2, <3>4 DEF TxFollows
    <2>3. CASE pdus' # <<>>
      <3>1. pdus'[Len(pdus')] = pdus[Len(pdus)]
        <4>1. Len(pdus) - 1 \in 1 .. Len(pdus) - 1 /\ (Len(pdus) - 1) + 1 = Len(pdus)
          BY <1>0, <1>11, <2>3
        <4> QED BY <1>11, <4>1
      <3> QED BY <1>0, <2>1, <2>3, <3>1 DEF TxFollows, TxAt
    <2> QED BY <2>2, <2>3
  <1> QED BY <1>8, <1>9, <1>10, <1>12, <1>13, <1>14 DEF PdcpInv, PdusLead

\* Both operations keep the invariant.
LEMMA PdcpInvNext == PdcpInv /\ [PdcpNext]_pdcpVars => PdcpInv'
  <1>1. ASSUME PdcpInv, UNCHANGED pdcpVars PROVE PdcpInv'
    BY <1>1 DEF PdcpInv, pdcpVars, PdcpTypeOK, HeadersKept, Header, Followed, CountsAgree,
                EveryCountAgrees, PdusLead, FirstFollows, EachFollows, TxFollows, TxAt,
                LastSubmitted, Follows
  <1> QED BY <1>1, PdcpInvReq, PdcpInvInd DEF PdcpNext

\* PdcpInv is an invariant of the bearer.
LEMMA PdcpInvHolds == PdcpSpec => []PdcpInv
  BY PdcpInvInit, PdcpInvNext, PTL DEF PdcpSpec

(***************************************************************************)
(* The numbers of both ends keep their types and ranges: next_pdcp_rx_sn   *)
(* stays a sequence number (pdcp_is_rx_seq_number_valid) where Followed.   *)
(***************************************************************************)
THEOREM PdcpTypeCorrect == PdcpSpec => []PdcpTypeOK
  <1>1. PdcpInv => PdcpTypeOK
    BY DEF PdcpInv
  <1> QED BY <1>1, PdcpInvHolds, PTL

(***************************************************************************)
(* On SRBs and DRBs over UM with 12-bit SNs, however often the SN wraps    *)
(* and whatever RLC drops short of half of the numbers in a row, and on    *)
(* DRBs over AM until RLC drops a PDU with the last SN, pdcp_data_ind      *)
(* reads back the SN and deciphers every PDU under the COUNT pdcp_data_req *)
(* ciphered it with.                                                       *)
(***************************************************************************)
THEOREM PdcpCountsAgree == PdcpSpec => []CountsAgree
  <1>1. PdcpInv => CountsAgree
    BY DEF PdcpInv
  <1> QED BY <1>1, PdcpInvHolds, PTL

(***************************************************************************)
(* Whenever RLC is empty and dropped nothing since, the receiver of the    *)
(* same bearers expects the SN and the HFN the transmitter uses next       *)
(* (pdcp_get_next_tx_seq_number, pdcp_advance_rx_window).                  *)
(***************************************************************************)
THEOREM PdcpEndsInStep == PdcpSpec => []EndsInStep
  <1>1. PdcpInv => EndsInStep
    <2> SUFFICES ASSUME PdcpInv, Followed, pdus = <<>>, gap = 0
                 PROVE  rx.next = tx.sn /\ rx.hfn = tx.hfn
      BY DEF EndsInStep
    <2>1. rx.next \in SnSet /\ TxAt(rx.next, rx.hfn)
      BY DEF PdcpInv, PdcpTypeOK, PdusLead, TxFollows
    <2>2. rx.next + gap < PdcpModulo /\ rx.next + gap = rx.next
      BY <2>1, HalfWindow DEF SnSet
    <2>3. ~(rx.next + gap >= PdcpModulo)
      BY <2>1, <2>2, HalfWindow DEF SnSet
    <2> QED BY <2>1, <2>2, <2>3, Zenon DEF TxAt
  <1> QED BY <1>1, PdcpInvHolds, PTL

-----------------------------------------------------------------------------
(* No COUNT twice: the positions (HFN, SN) only grow, on every kind of bearer. *)

\* The position after (sn, hfn) is not beyond the one the transmitter is at.
NotBeyondTx(sn, hfn) ==
    hfn < tx.hfn \/ (hfn = tx.hfn /\ SuccSn(sn) <= tx.sn)

(***************************************************************************)
(* The inductive invariant: every PDU in RLC and, once there was one, the  *)
(* last PDU opened lie behind the transmitter.  It says nothing of what    *)
(* the receiver makes of them.                                             *)
(***************************************************************************)
PdusBehind ==
    /\ kind \in BearerKinds /\ tx \in TxSet /\ pdus \in Seq(PduSet) /\ sent \in Nat
    /\ opened.sn \in SnSet /\ opened.hfn \in Nat
    /\ \A i \in DOMAIN pdus : NotBeyondTx(pdus[i].sn, pdus[i].hfn)
    /\ IF sent = 0 THEN tx.sn = 0 /\ tx.hfn = 0 /\ opened.sn = 0 /\ opened.hfn = 0 /\ pdus = <<>>
       ELSE NotBeyondTx(opened.sn, opened.hfn)

\* pdcp_get_next_tx_seq_number leaves the earlier PDUs behind.
LEMMA BehindMoves ==
    ASSUME tx \in TxSet, tx' = NextTx(tx), NEW sn \in SnSet, NEW hfn \in Nat,
           NotBeyondTx(sn, hfn)
    PROVE  NotBeyondTx(sn, hfn)'
  <1>1. /\ tx.sn \in SnSet /\ tx.hfn \in Nat /\ tx'.sn = SuccSn(tx.sn)
        /\ tx'.hfn = IF tx.sn = MaxSn THEN tx.hfn + 1 ELSE tx.hfn
    BY NextTxIs DEF TxSet
  <1> QED BY <1>1, HalfWindow DEF NotBeyondTx, SuccSn, SnSet

\* After pdcp_data_req the PDUs in RLC are still behind the transmitter.
LEMMA BehindReq ==
    ASSUME PdusBehind, NEW dropped \in BOOLEAN, PdcpDataReq(dropped)
    PROVE  PdusBehind'
  <1> DEFINE p == PduOf(tx.sn, tx'.hfn)
  <1>1. /\ tx.sn \in SnSet /\ tx.hfn \in Nat /\ tx' = NextTx(tx) /\ sent \in Nat
        /\ sent' = sent + 1 /\ opened' = opened /\ pdus \in Seq(PduSet) /\ tx \in TxSet
        /\ kind \in BearerKinds /\ kind' = kind
    BY DEF PdusBehind, PdcpDataReq, TxSet
  <1>2. /\ tx' \in TxSet /\ tx'.sn = SuccSn(tx.sn) /\ tx'.sn \in SnSet /\ tx'.hfn \in Nat
        /\ tx'.hfn = IF tx.sn = MaxSn THEN tx.hfn + 1 ELSE tx.hfn
    BY <1>1, NextTxIs DEF TxSet
  <1>3. p \in PduSet /\ p.sn = tx.sn /\ p.hfn = tx'.hfn
    BY <1>1, <1>2, HeaderRead DEF PduSet, PduOf
  <1> HIDE DEF p
  <1>4. pdus' = pdus \/ pdus' = Append(pdus, p)
    BY DEF PdcpDataReq, PduOf, p
  <1>5. pdus' \in Seq(PduSet)
    BY <1>1, <1>3, <1>4
  <1>7. ASSUME NEW i \in DOMAIN pdus' PROVE NotBeyondTx(pdus[i].sn, pdus[i].hfn)'
    <2>1. CASE i \in DOMAIN pdus
      <3>1. pdus'[i] = pdus[i] /\ pdus[i] \in PduSet
        BY <1>1, <1>4, <2>1
      <3>2. PICK sn \in SnSet, hfn \in Nat : sn = pdus[i].sn /\ hfn = pdus[i].hfn
        BY <3>1 DEF PduSet
      <3>3. NotBeyondTx(sn, hfn)
        BY <2>1, <3>2 DEF PdusBehind
      <3>4. NotBeyondTx(sn, hfn)'
        BY <1>1, <3>3, BehindMoves
      <3> QED BY <3>1, <3>2, <3>4 DEF NotBeyondTx
    <2>2. CASE i \notin DOMAIN pdus
      <3>1. pdus'[i] = p
        BY <1>1, <1>4, <1>7, <2>2
      <3>2. pdus'[i].hfn = tx'.hfn /\ SuccSn(pdus'[i].sn) = tx'.sn
        BY <1>2, <1>3, <3>1
      <3> QED BY <1>2, <3>2, HalfWindow DEF NotBeyondTx, SnSet
    <2> QED BY <2>1, <2>2
  <1>8. NotBeyondTx(opened.sn, opened.hfn)'
    <2>1. CASE sent = 0
      <3>1. tx'.sn = 1 /\ tx'.hfn = 0 /\ opened'.sn = 0 /\ opened'.hfn = 0 /\ SuccSn(0) = 1
        BY <1>1, <1>2, <2>1, HalfWindow DEF PdusBehind, SuccSn
      <3> QED BY <3>1 DEF NotBeyondTx
    <2>2. CASE sent # 0
      <3>1. PICK sn \in SnSet, hfn \in Nat : sn = opened.sn /\ hfn = opened.hfn
        BY DEF PdusBehind
      <3>2. NotBeyondTx(sn, hfn)
        BY <2>2, <3>1 DEF PdusBehind
      <3>3. NotBeyondTx(sn, hfn)'
        BY <1>1, <3>2, BehindMoves
      <3> QED BY <1>1, <3>1, <3>3 DEF NotBeyondTx
    <2> QED BY <2>1, <2>2
  <1>9. sent' \in Nat /\ sent' # 0
    BY <1>1
  <1>10. opened'.sn \in SnSet /\ opened'.hfn \in Nat
    BY <1>1 DEF PdusBehind
  <1> QED BY <1>1, <1>2, <1>5, <1>7, <1>8, <1>9, <1>10 DEF PdusBehind

\* pdcp_data_ind only takes a PDU out of RLC.
LEMMA BehindInd ==
    ASSUME PdusBehind, PdcpDataInd
    PROVE  PdusBehind'
  <1>1. /\ pdus \in Seq(PduSet) /\ pdus # <<>> /\ pdus' = Tail(pdus) /\ sent # 0
        /\ UNCHANGED <<tx, sent, kind>>
    BY DEF PdusBehind, PdcpDataInd
  <1>2. pdus[1] \in PduSet /\ 1 \in DOMAIN pdus /\ Head(pdus) = pdus[1]
    BY <1>1
  <1>3. opened'.sn = pdus[1].sn /\ opened'.hfn = pdus[1].hfn
    BY <1>2 DEF PdcpDataInd
  <1>4. pdus' \in Seq(PduSet) /\ \A i \in DOMAIN pdus' : i + 1 \in DOMAIN pdus /\ pdus'[i] = pdus[i + 1]
    BY <1>1
  <1>5. \A i \in DOMAIN pdus' : NotBeyondTx(pdus'[i].sn, pdus'[i].hfn)
    BY <1>4 DEF PdusBehind
  <1>6. NotBeyondTx(opened'.sn, opened'.hfn)
    BY <1>2, <1>3 DEF PdusBehind
  <1>7. opened'.sn \in SnSet /\ opened'.hfn \in Nat
    BY <1>2, <1>3 DEF PduSet
  <1> QED BY <1>1, <1>4, <1>5, <1>6, <1>7 DEF PdusBehind, NotBeyondTx

\* RLC is empty at first.
LEMMA BehindInit == PdcpInit => PdusBehind
  BY HalfWindow DEF PdcpInit, PdusBehind, PduSet, TxSet, SnSet

\* PdusBehind is inductive.
LEMMA BehindNext == PdusBehind /\ [PdcpNext]_pdcpVars => PdusBehind'
  <1>1. ASSUME PdusBehind, UNCHANGED pdcpVars PROVE PdusBehind'
    BY <1>1 DEF PdusBehind, pdcpVars, NotBeyondTx
  <1> QED BY <1>1, BehindReq, BehindInd DEF PdcpNext

\* A later position has a higher COUNT.
LEMMA CountGrows ==
    ASSUME NEW s1 \in SnSet, NEW h1 \in Nat, NEW s2 \in SnSet, NEW h2 \in Nat,
           h1 < h2 \/ (h1 = h2 /\ SuccSn(s1) < SuccSn(s2))
    PROVE  CountOf(s1, h1) < CountOf(s2, h2)
  <1>1. \A s \in SnSet : (s + 1) % PdcpModulo = SuccSn(s)
    BY HalfWindow DEF SnSet, SuccSn
  <1>2. \A s \in SnSet : SuccSn(s) \in 0 .. PdcpModulo - 1
    BY HalfWindow, SuccInRange DEF SnSet
  <1>3. ASSUME h1 < h2 PROVE h1 * PdcpModulo + PdcpModulo <= h2 * PdcpModulo
    <2>1. PICK d \in Nat : h2 = h1 + 1 + d
      <3>1. h2 - h1 - 1 \in Nat /\ h2 = h1 + 1 + (h2 - h1 - 1)
        BY <1>3
      <3> QED BY <3>1
    <2>2. (h1 + 1 + d) * PdcpModulo = h1 * PdcpModulo + PdcpModulo + d * PdcpModulo
      BY HalfWindow
    <2>3. d * PdcpModulo \in Nat /\ h1 * PdcpModulo \in Nat
      BY HalfWindow
    <2> QED BY <2>1, <2>2, <2>3, HalfWindow
  <1>4. h1 * PdcpModulo \in Nat /\ h2 * PdcpModulo \in Nat
    BY HalfWindow
  <1>5. CountOf(s1, h1) = h1 * PdcpModulo + SuccSn(s1) /\ CountOf(s2, h2) = h2 * PdcpModulo + SuccSn(s2)
    BY <1>1 DEF CountOf
  <1> QED BY <1>2, <1>3, <1>4, <1>5, HalfWindow

(***************************************************************************)
(* No two PDUs are ciphered under one COUNT, on any kind of bearer,        *)
(* however many PDUs are sent: pdcp_get_next_tx_seq_number counts the HFN  *)
(* up at every wrap.                                                       *)
(***************************************************************************)
THEOREM PdcpNoCountTwice == PdcpSpec => NoCountTwice
  <1>1. ASSUME PdusBehind, PdcpNext, sent' = sent + 1
        PROVE  /\ \A i \in DOMAIN pdus : CountOf(pdus[i].sn, pdus[i].hfn) < CountOf(tx.sn, tx'.hfn)
               /\ sent > 0 => CountOf(opened.sn, opened.hfn) < CountOf(tx.sn, tx'.hfn)
    <2>1. /\ tx.sn \in SnSet /\ tx.hfn \in Nat /\ pdus \in Seq(PduSet) /\ sent \in Nat
          /\ opened.sn \in SnSet /\ opened.hfn \in Nat /\ tx \in TxSet
      BY <1>1 DEF PdusBehind, TxSet
    <2>2. tx' = NextTx(tx)
      BY <1>1, <2>1 DEF PdcpNext, PdcpDataReq, PdcpDataInd
    <2>3. tx'.hfn \in Nat /\ tx'.hfn = IF tx.sn = MaxSn THEN tx.hfn + 1 ELSE tx.hfn
      BY <2>1, <2>2, NextTxIs DEF TxSet
    <2>4. ASSUME NEW sn \in SnSet, NEW hfn \in Nat, NotBeyondTx(sn, hfn)
          PROVE  CountOf(sn, hfn) < CountOf(tx.sn, tx'.hfn)
      <3>1. hfn < tx'.hfn \/ (hfn = tx'.hfn /\ SuccSn(sn) < SuccSn(tx.sn))
        BY <2>1, <2>3, <2>4, SuccInRange, HalfWindow DEF NotBeyondTx, SnSet, SuccSn
      <3> QED BY <2>1, <2>3, <3>1, CountGrows
    <2>5. \A i \in DOMAIN pdus : pdus[i].sn \in SnSet /\ pdus[i].hfn \in Nat
      <3>1. \A i \in DOMAIN pdus : pdus[i] \in PduSet
        BY <2>1
      <3> QED BY <3>1 DEF PduSet
    <2> QED BY <1>1, <2>1, <2>4, <2>5 DEF PdusBehind
  <1>2. PdusBehind /\ [PdcpNext]_pdcpVars
          => [sent' = sent + 1 =>
                /\ \A i \in DOMAIN pdus :
                      CountOf(pdus[i].sn, pdus[i].hfn) < CountOf(tx.sn, tx'.hfn)
                /\ sent > 0 => CountOf(opened.sn, opened.hfn) < CountOf(tx.sn, tx'.hfn)]_pdcpVars
    BY <1>1
  <1> QED BY <1>2, BehindInit, BehindNext, PTL DEF PdcpSpec, NoCountTwice
=============================================================================
