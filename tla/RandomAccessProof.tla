-------------------------- MODULE RandomAccessProof --------------------------
(***************************************************************************)
(* Proofs about random access, for any number of UEs, templates, slots and *)
(* RNTIs: the types, that contention is resolved, and that the tables of   *)
(* MAC and PHY agree while the RRC task removes UEs behind the scheduler.  *)
(***************************************************************************)
EXTENDS RandomAccess, Recursion, FiniteSetTheorems, TLAPS

\* The records of the UEs, of the eNB's MAC, PHY and RRC.
Ids == Requests \cup {NoRequest}
MaybeRntis == 0 .. MaxRnti
UeRecords == [mode : {"PRACH", "RA_RESPONSE", "PUSCH"},
              active : BOOLEAN, preamble : Preambles \cup {0},
              crnti : MaybeRntis, msg3 : BOOLEAN, timer : BOOLEAN,
              t300 : BOOLEAN, req : 1 .. MaxT300 + 1,
              pdu : 0 .. MaxT300 + 1, setup : MaybeRntis]
TemplateRecords == [active : BOOLEAN, rar : BOOLEAN, msg4 : BOOLEAN, ack : BOOLEAN,
                    rnti : MaybeRntis, preamble : Preambles \cup {0}, cr : Ids]
Msg4Pdus == [cr : Ids, setup : MaybeRntis]
SlotRecords == [crnti : MaybeRntis, msg3 : BOOLEAN, round : 0 .. maxHARQ_Msg3Tx - 1,
                dl : BOOLEAN, dlRound : 0 .. Mlimit - 1, pdu : Msg4Pdus]
ContextRecords == [id : Ids, timer : BOOLEAN]
CcchRecords == [rnti : Rntis, id : Requests]
RemovingRecords == [rnti : MaybeRntis, at : {"idle", "mac", "phy", "phy_ra", "ra"}]
SchedulerRecords == [i : 0 .. NB_RA_PROC_MAX, sdu : MaybeRntis]

\* The types of the variables.
RaShapes ==
    /\ ue \in [UEs -> UeRecords] /\ sent \in 0 .. MaxRach
    /\ RA_template \in [Templates -> TemplateRecords]
    /\ UE_list \in SUBSET Rntis /\ configured \in SUBSET Rntis /\ rarDci \in BOOLEAN
    /\ UE_stats \in [Slots -> SlotRecords]
    /\ ccch \in Seq(CcchRecords) /\ context \in [Rntis -> ContextRecords]
    /\ Srb0 \in MaybeRntis /\ removing \in RemovingRecords
    /\ scheduler \in SchedulerRecords /\ aborted \in BOOLEAN

\* A template whose procedure is under way has an RNTI.
TemplateInUse(t) == t.rar \/ t.active => t.rnti # 0
\* A UE that has sent a preamble has a connection request to send in Msg3.
HasRequest(s) == s.active \/ s.preamble # 0 \/ s.msg3 => s.pdu # 0
\* A slot that transmits, or has transmitted, is the slot of a UE.
SlotInUse(x) == (x.dl => x.crnti # 0) /\ (x.crnti = 0 => x.dlRound = 0)
\* While schedule_RA holds the CCCH SDU it has fetched for a template, the procedure of the
\* template goes on, or the template has been reset.
Undecided(t) == t.active \/ t.rnti = 0
Fetched == scheduler.sdu # 0 => \A i \in Templates : scheduler.i = i => Undecided(RA_template[i])

RaTypes ==
    /\ RaShapes
    /\ \A u \in UEs : HasRequest(ue[u])
    /\ \A i \in Templates : TemplateInUse(RA_template[i])
    /\ \A s \in Slots : SlotInUse(UE_stats[s])
    /\ Fetched

-----------------------------------------------------------------------------
(* The constants and the operators. *)

\* The constants are what they should be.
LEMMA RaConstants ==
    /\ MaxRnti \in Nat \ {0} /\ NB_RA_PROC_MAX \in Nat \ {0} /\ NUMBER_OF_UE_MAX \in Nat \ {0}
    /\ maxHARQ_Msg3Tx \in Nat \ {0} /\ Mlimit \in Nat \ {0} /\ MaxRach \in Nat \ {0}
    /\ MaxT300 \in Nat /\ IsFiniteSet(UEs)
  BY RaAssumption

\* The first of a non-empty set of templates, or of slots, is one of them.
LEMMA FirstInIsIn ==
    /\ \A S \in SUBSET Templates : S # {} => FirstIn(S) \in S /\ FirstIn(S) \in Templates
    /\ \A S \in SUBSET Slots : S # {} => FirstIn(S) \in S /\ FirstIn(S) \in Slots
  <1>1. ASSUME NEW S \in SUBSET Nat, S # {} PROVE FirstIn(S) \in S
    BY <1>1, SmallestExists, Zenon DEF FirstIn
  <1>2. Templates \in SUBSET Nat /\ Slots \in SUBSET Nat
    BY RaConstants DEF Templates, Slots
  <1>3. ASSUME NEW S \in SUBSET Templates, S # {} PROVE FirstIn(S) \in S
    BY <1>1, <1>2, <1>3
  <1>4. ASSUME NEW S \in SUBSET Slots, S # {} PROVE FirstIn(S) \in S
    BY <1>1, <1>2, <1>4
  <1> QED BY <1>3, <1>4

\* A template after cancel_ra_proc.
LEMMA CancelEffect ==
    ASSUME NEW tmpl \in [Templates -> TemplateRecords], NEW r
    PROVE  /\ CancelRaProc(tmpl, r) \in [Templates -> TemplateRecords]
           /\ \A i \in Templates :
                 IF tmpl[i].rnti # r THEN CancelRaProc(tmpl, r)[i] = tmpl[i]
                 ELSE LET t == CancelRaProc(tmpl, r)[i]
                      IN  /\ ~t.active /\ ~t.rar /\ ~t.msg4 /\ ~t.ack /\ t.rnti = 0
                          /\ t.preamble = tmpl[i].preamble /\ t.cr = tmpl[i].cr
  <1>1. ASSUME NEW t \in TemplateRecords
        PROVE  LET x == [t EXCEPT !.active = FALSE, !.rar = FALSE, !.msg4 = FALSE,
                                  !.ack = FALSE, !.rnti = 0]
               IN  /\ x \in TemplateRecords
                   /\ ~x.active /\ ~x.rar /\ ~x.msg4 /\ ~x.ack /\ x.rnti = 0
                   /\ x.preamble = t.preamble /\ x.cr = t.cr
    <2>1. 0 \in MaybeRntis
      BY RaConstants DEF MaybeRntis
    <2> QED BY <2>1 DEF TemplateRecords
  <1>2. ASSUME NEW i \in Templates
        PROVE  /\ CancelRaProc(tmpl, r)[i] \in TemplateRecords
               /\ IF tmpl[i].rnti # r THEN CancelRaProc(tmpl, r)[i] = tmpl[i]
                  ELSE LET t == CancelRaProc(tmpl, r)[i]
                       IN  /\ ~t.active /\ ~t.rar /\ ~t.msg4 /\ ~t.ack /\ t.rnti = 0
                           /\ t.preamble = tmpl[i].preamble /\ t.cr = tmpl[i].cr
    <2>1. CASE tmpl[i].rnti # r
      BY <2>1 DEF CancelRaProc
    <2>2. CASE tmpl[i].rnti = r
      <3>1. CancelRaProc(tmpl, r)[i] = [tmpl[i] EXCEPT !.active = FALSE, !.rar = FALSE,
                                           !.msg4 = FALSE, !.ack = FALSE, !.rnti = 0]
        BY <2>2 DEF CancelRaProc
      <3> QED BY <1>1, <2>2, <3>1
    <2> QED BY <2>1, <2>2
  <1> QED BY <1>2 DEF CancelRaProc

\* A free slot.
LEMMA FreeSlotType == /\ FreeSlot \in SlotRecords /\ FreeSlot.crnti = 0 /\ ~FreeSlot.msg3
                      /\ ~FreeSlot.dl /\ FreeSlot.dlRound = 0 /\ FreeSlot.pdu.cr = NoRequest
  <1>1. 0 \in MaybeRntis /\ 0 \in 0 .. maxHARQ_Msg3Tx - 1 /\ 0 \in 0 .. Mlimit - 1
    BY RaConstants DEF MaybeRntis
  <1>2. NoMsg4 \in Msg4Pdus /\ NoMsg4.cr = NoRequest
    BY <1>1 DEF NoMsg4, Msg4Pdus, Ids
  <1> QED BY <1>1, <1>2 DEF FreeSlot, SlotRecords

\* The slots after mac_phy_remove_ue.
LEMMA RemoveEffect ==
    ASSUME NEW stats \in [Slots -> SlotRecords], NEW r
    PROVE  /\ MacPhyRemoveUe(stats, r) \in [Slots -> SlotRecords]
           /\ \A s \in Slots : \/ MacPhyRemoveUe(stats, r)[s] = stats[s]
                               \/ /\ stats[s].crnti = r
                                  /\ MacPhyRemoveUe(stats, r)[s] = FreeSlot
           /\ (\A s, x \in Slots : stats[s].crnti = r /\ stats[x].crnti = r => s = x) =>
                 \A s \in Slots : stats[s].crnti = r => MacPhyRemoveUe(stats, r)[s] = FreeSlot
  <1> DEFINE S == {s \in Slots : stats[s].crnti = r}
  <1>1. CASE S = {}
    <2>1. MacPhyRemoveUe(stats, r) = stats
      BY <1>1 DEF MacPhyRemoveUe
    <2> QED BY <1>1, <2>1
  <1>2. CASE S # {}
    <2>1. PICK x \in S : x = FirstIn(S)
      BY <1>2, FirstInIsIn
    <2>2. MacPhyRemoveUe(stats, r) = [stats EXCEPT ![x] = FreeSlot]
      BY <1>2, <2>1 DEF MacPhyRemoveUe
    <2>3. x \in Slots /\ stats[x].crnti = r
      BY <2>1
    <2> HIDE DEF S
    <2> QED BY <2>2, <2>3, FreeSlotType
  <1> QED BY <1>1, <1>2

-----------------------------------------------------------------------------
(* A turn of schedule_RA. *)

\* What a turn may do to a template: send its Msg4, or take it as acknowledged.
TemplateTurn(t, x) == x.rnti = t.rnti /\ x.rar = t.rar /\ (x.active => t.active)
\* ... and to a slot: transmit.
SlotTurn(y, z) ==
    /\ z.crnti = y.crnti /\ z.msg3 = y.msg3 /\ z.dlRound = y.dlRound
    /\ z.dl => y.dl \/ y.crnti # 0

-----------------------------------------------------------------------------
(* The UE. *)

\* What a step may do to a UE, short of connecting it.
UeStep(s, x) ==
    /\ x \in UeRecords /\ HasRequest(x)
    /\ x.mode = "PUSCH" => s.mode = "PUSCH" /\ x.crnti = s.crnti

\* A UE that does nothing.
LEMMA UeStays == ASSUME NEW s \in UeRecords, HasRequest(s) PROVE UeStep(s, s)
  BY DEF UeStep

\* ue_get_rach.
LEMMA UeSendsPreamble ==
    ASSUME NEW s \in UeRecords, HasRequest(s), NEW p \in Preambles
    PROVE  UeStep(s, UeGetRach(s, p)) /\ UeGetRach(s, p).crnti = s.crnti
  <1>1. CASE s.active
    <2>1. PICK x : x = [s EXCEPT !.preamble = p]
      OBVIOUS
    <2>2. x \in UeRecords /\ x.mode = s.mode /\ x.crnti = s.crnti /\ x.pdu = s.pdu
      BY <2>1 DEF UeRecords
    <2>3. UeGetRach(s, p) = x /\ s.pdu # 0
      BY <1>1, <2>1 DEF UeGetRach, HasRequest
    <2> QED BY <2>2, <2>3 DEF UeStep, HasRequest
  <1>2. CASE ~s.active
    <2>1. PICK x : x = [s EXCEPT !.preamble = p, !.active = TRUE, !.pdu = s.req, !.t300 = TRUE]
      OBVIOUS
    <2>2. s.req \in 1 .. MaxT300 + 1 /\ s.req \in 0 .. MaxT300 + 1 /\ s.req # 0
      BY RaConstants DEF UeRecords
    <2>3. x \in UeRecords /\ x.mode = s.mode /\ x.crnti = s.crnti /\ x.pdu = s.req
      BY <2>1, <2>2 DEF UeRecords
    <2>4. UeGetRach(s, p) = x
      BY <1>2, <2>1 DEF UeGetRach
    <2> QED BY <2>2, <2>3, <2>4 DEF UeStep, HasRequest
  <1> QED BY <1>1, <1>2

\* ra_failed.
LEMMA UeFails == ASSUME NEW s \in UeRecords, HasRequest(s) PROVE UeStep(s, RaFailed(s))
  <1>0. 0 \in MaybeRntis
    BY RaConstants DEF MaybeRntis
  <1>1. PICK x : x = RaFailed(s)
    OBVIOUS
  <1>2. /\ x \in UeRecords /\ x.mode = "PRACH" /\ x.pdu = s.pdu /\ x.preamble = s.preamble
        /\ x.msg3 = s.msg3 /\ x.active = FALSE
    BY <1>0, <1>1 DEF RaFailed, UeRecords
  <1> QED BY <1>1, <1>2 DEF UeStep, HasRequest

\* Msg3_tx.
LEMMA UeSendsMsg3 ==
    ASSUME NEW s \in UeRecords, HasRequest(s), s.msg3, NEW again \in BOOLEAN
    PROVE  UeStep(s, [s EXCEPT !.timer = TRUE, !.msg3 = again])
  <1>1. PICK x : x = [s EXCEPT !.timer = TRUE, !.msg3 = again]
    OBVIOUS
  <1>2. x \in UeRecords /\ x.mode = s.mode /\ x.crnti = s.crnti /\ x.pdu = s.pdu
    BY <1>1 DEF UeRecords
  <1>3. s.pdu # 0
    BY DEF HasRequest
  <1> QED BY <1>1, <1>2, <1>3 DEF UeStep, HasRequest

\* process_rar.
LEMMA UeHearsRar ==
    ASSUME NEW s \in UeRecords, HasRequest(s), s.preamble # 0, NEW p, NEW r \in MaybeRntis
    PROVE  UeStep(s, TakeRar(s, p, r))
  <1>1. CASE s.preamble # p
    BY <1>1 DEF TakeRar, UeStep
  <1>2. CASE s.preamble = p
    <2>1. PICK x : x = [s EXCEPT !.crnti = r, !.msg3 = TRUE, !.mode = "RA_RESPONSE"]
      OBVIOUS
    <2>2. x \in UeRecords /\ x.mode = "RA_RESPONSE" /\ x.pdu = s.pdu
      BY <2>1 DEF UeRecords
    <2>3. s.pdu # 0
      BY DEF HasRequest
    <2>4. TakeRar(s, p, r) = x
      BY <1>2, <2>1 DEF TakeRar
    <2> QED BY <2>2, <2>3, <2>4 DEF UeStep, HasRequest
  <1> QED BY <1>1, <1>2

\* ue_send_sdu: a UE connects only with its own contention resolution identity.
LEMMA UeHearsMsg4 ==
    ASSUME NEW s \in UeRecords, HasRequest(s), NEW u \in UEs, NEW m \in Msg4Pdus
    PROVE  LET x == UeSendSdu(u, s, m)
           IN  /\ x \in UeRecords /\ HasRequest(x)
               /\ \/ UeStep(s, x)
                  \/ m.cr = <<u, s.pdu>> /\ m.cr \in Requests /\ x.crnti = s.crnti
  <1>1. CASE ~s.active
    <2>1. PICK x : x = [s EXCEPT !.t300 = FALSE, !.setup = m.setup]
      OBVIOUS
    <2>2. m.setup \in MaybeRntis
      BY DEF Msg4Pdus
    <2>3. /\ x \in UeRecords /\ x.crnti = s.crnti /\ x.pdu = s.pdu /\ x.preamble = s.preamble
          /\ x.mode = s.mode /\ x.active = s.active /\ x.msg3 = s.msg3
      BY <2>1, <2>2 DEF UeRecords
    <2>4. UeSendSdu(u, s, m) = x
      BY <1>1, <2>1 DEF UeSendSdu
    <2> QED BY <2>3, <2>4 DEF UeStep, HasRequest
  <1>2. CASE s.active /\ m.cr # <<u, s.pdu>>
    <2>1. UeSendSdu(u, s, m) = RaFailed(s)
      BY <1>2 DEF UeSendSdu
    <2> QED BY <2>1, UeFails DEF UeStep
  <1>3. CASE s.active /\ m.cr = <<u, s.pdu>>
    <2>1. PICK x : x = [s EXCEPT !.active = FALSE, !.timer = FALSE, !.msg3 = FALSE,
                                 !.mode = "PUSCH", !.t300 = FALSE, !.setup = m.setup]
      OBVIOUS
    <2>2. m.setup \in MaybeRntis
      BY DEF Msg4Pdus
    <2>3. /\ x \in UeRecords /\ x.crnti = s.crnti /\ x.pdu = s.pdu /\ x.preamble = s.preamble
          /\ s.pdu \in 0 .. MaxT300 + 1
      BY <2>1, <2>2 DEF UeRecords
    <2>4. s.pdu # 0
      BY <1>3 DEF HasRequest
    <2>5. UeSendSdu(u, s, m) = x
      BY <1>3, <2>1 DEF UeSendSdu
    <2>6. <<u, s.pdu>> \in Requests
      BY <2>3, <2>4, RaConstants DEF Requests
    <2> QED BY <1>3, <2>3, <2>4, <2>5, <2>6 DEF HasRequest
  <1> QED BY <1>1, <1>2, <1>3

\* A UE draws a new random value only while the bound on expiries of T300 allows it.
LEMMA UeDraws ==
    ASSUME RaTypes, NEW u \in UEs, Cardinality(Discarded) < MaxT300
    PROVE  ue[u].req + 1 \in 1 .. MaxT300 + 1
  <1>1. IsFiniteSet(Requests)
    <2>1. IsFiniteSet(UEs) /\ IsFiniteSet(1 .. MaxT300 + 1)
      BY RaConstants, FS_Interval
    <2> QED BY <2>1, FS_Product DEF Requests
  <1>2. IsFiniteSet(Discarded) /\ Cardinality(Discarded) \in Nat
    BY <1>1, FS_Subset, FS_CardinalityType DEF Discarded
  <1>3. ue[u].req \in 1 .. MaxT300 + 1
    BY DEF RaTypes, RaShapes, UeRecords
  <1>4. CASE ue[u].req = MaxT300 + 1
    <2> DEFINE D == {u} \X (1 .. MaxT300)
    <2>1. IsFiniteSet({u}) /\ Cardinality({u}) = 1
      BY FS_Singleton
    <2>2. IsFiniteSet(1 .. MaxT300) /\ Cardinality(1 .. MaxT300) = MaxT300
      BY RaConstants, FS_Interval
    <2>3. Cardinality(D) = 1 * MaxT300
      <3>1. Cardinality(D) = Cardinality({u}) * Cardinality(1 .. MaxT300)
        BY <2>1, <2>2, FS_Product, Zenon
      <3> HIDE DEF D
      <3> QED BY <2>1, <2>2, <3>1
    <2>4. D \in SUBSET Discarded
      <3>1. ASSUME NEW k \in 1 .. MaxT300 PROVE <<u, k>> \in Discarded
        <4>1. k \in 1 .. MaxT300 + 1 /\ k < ue[u].req
          BY <1>4, RaConstants
        <4> QED BY <4>1 DEF Discarded, Requests
      <3> QED BY <3>1
    <2>5. Cardinality(D) <= Cardinality(Discarded)
      BY <1>2, <2>4, FS_Subset
    <2> QED BY <1>2, <2>3, <2>5, RaConstants
  <1>5. CASE ue[u].req # MaxT300 + 1
    BY <1>3, <1>5, RaConstants
  <1> QED BY <1>4, <1>5

\* No UE connects in this step.
UesStep == ue' \in [UEs -> UeRecords] /\ \A u \in UEs : UeStep(ue[u], ue'[u])

\* The parts of a typed state.
LEMMA RaParts ==
    ASSUME RaTypes
    PROVE  /\ ue \in [UEs -> UeRecords] /\ \A u \in UEs : ue[u] \in UeRecords /\ HasRequest(ue[u])
           /\ RA_template \in [Templates -> TemplateRecords]
           /\ \A i \in Templates : RA_template[i] \in TemplateRecords /\ TemplateInUse(RA_template[i])
           /\ UE_stats \in [Slots -> SlotRecords]
           /\ \A s \in Slots : UE_stats[s] \in SlotRecords /\ SlotInUse(UE_stats[s])
           /\ UE_list \in SUBSET Rntis /\ configured \in SUBSET Rntis
           /\ ccch \in Seq(CcchRecords) /\ context \in [Rntis -> ContextRecords]
           /\ removing \in RemovingRecords /\ aborted \in BOOLEAN /\ rarDci \in BOOLEAN
           /\ sent \in 0 .. MaxRach /\ Srb0 \in MaybeRntis
           /\ scheduler \in SchedulerRecords /\ Fetched
  BY DEF RaTypes, RaShapes

\* The fields of a template and of a slot.
LEMMA RaFields ==
    /\ \A t \in TemplateRecords : /\ t.active \in BOOLEAN /\ t.rar \in BOOLEAN /\ t.msg4 \in BOOLEAN
                                  /\ t.ack \in BOOLEAN /\ t.rnti \in MaybeRntis /\ t.cr \in Ids
                                  /\ t.preamble \in Preambles \cup {0}
    /\ \A y \in SlotRecords : /\ y.crnti \in MaybeRntis /\ y.msg3 \in BOOLEAN /\ y.dl \in BOOLEAN
                              /\ y.pdu \in Msg4Pdus /\ y.pdu.cr \in Ids
                              /\ y.round \in 0 .. maxHARQ_Msg3Tx - 1 /\ y.dlRound \in 0 .. Mlimit - 1
    /\ \A r \in MaybeRntis : r = 0 \/ r \in Rntis
    /\ Rntis \subseteq MaybeRntis /\ 0 \in MaybeRntis /\ 0 \notin Rntis
  <1>1. \A t \in TemplateRecords : /\ t.active \in BOOLEAN /\ t.rar \in BOOLEAN /\ t.msg4 \in BOOLEAN
                                   /\ t.ack \in BOOLEAN /\ t.rnti \in MaybeRntis /\ t.cr \in Ids
                                   /\ t.preamble \in Preambles \cup {0}
    BY DEF TemplateRecords
  <1>2. \A y \in SlotRecords : /\ y.crnti \in MaybeRntis /\ y.msg3 \in BOOLEAN /\ y.dl \in BOOLEAN
                               /\ y.pdu \in Msg4Pdus
                               /\ y.round \in 0 .. maxHARQ_Msg3Tx - 1 /\ y.dlRound \in 0 .. Mlimit - 1
    BY DEF SlotRecords
  <1>3. \A m \in Msg4Pdus : m.cr \in Ids
    BY DEF Msg4Pdus
  <1>4. /\ \A r \in MaybeRntis : r = 0 \/ r \in Rntis
        /\ Rntis \subseteq MaybeRntis /\ 0 \in MaybeRntis /\ 0 \notin Rntis
    BY RaConstants DEF MaybeRntis, Rntis
  <1> QED BY <1>1, <1>2, <1>3, <1>4

\* prach_procedures: one template at most starts, with an RNTI that UE_list does not have.
LEMMA PrachEffect ==
    ASSUME RaTypes, NEW p \in Preambles, NEW S, PrachSubframe(p, S)
    PROVE  /\ UesStep /\ \A u \in UEs : ue'[u].crnti = ue[u].crnti
           /\ sent' \in 0 .. MaxRach
           /\ UNCHANGED <<UE_list, configured, rarDci, UE_stats, ccch, context, Srb0, removing, scheduler, aborted>>
           /\ \/ RA_template' = RA_template
              \/ \E i \in Templates, r \in Rntis :
                    /\ r \notin UE_list /\ (RntiCollisions \/ ~InUse(r))
                    /\ RA_template' \in [Templates -> TemplateRecords]
                    /\ \A j \in Templates : j # i => RA_template'[j] = RA_template[j]
                    /\ RA_template'[i].rnti = r /\ RA_template'[i].active /\ RA_template'[i].rar
                    /\ ~RA_template'[i].msg4 /\ ~RA_template'[i].ack
  <1>1. UesStep /\ \A u \in UEs : ue'[u].crnti = ue[u].crnti
    <2>1. ue' = [u \in UEs |-> IF u \in S THEN UeGetRach(ue[u], p) ELSE ue[u]]
      BY DEF PrachSubframe
    <2>2. ASSUME NEW u \in UEs PROVE UeStep(ue[u], ue'[u]) /\ ue'[u].crnti = ue[u].crnti
      <3>1. ue[u] \in UeRecords /\ HasRequest(ue[u])
        BY RaParts
      <3> QED BY <2>1, <3>1, UeStays, UeSendsPreamble
    <2>3. ue' \in [UEs -> UeRecords]
      BY <2>1, <2>2 DEF UeStep
    <2> QED BY <2>2, <2>3 DEF UesStep
  <1>2. ASSUME FreeTemplates # {}, InitiateRaProc(p)
        PROVE  \E i \in Templates, r \in Rntis :
                    /\ r \notin UE_list /\ (RntiCollisions \/ ~InUse(r))
                    /\ RA_template' \in [Templates -> TemplateRecords]
                    /\ \A j \in Templates : j # i => RA_template'[j] = RA_template[j]
                    /\ RA_template'[i].rnti = r /\ RA_template'[i].active /\ RA_template'[i].rar
                    /\ ~RA_template'[i].msg4 /\ ~RA_template'[i].ack
    <2>1. PICK i \in Templates : i = FirstIn(FreeTemplates)
      BY <1>2, FirstInIsIn DEF FreeTemplates
    <2>2. PICK r \in Rntis \ UE_list :
             /\ RntiCollisions \/ ~InUse(r)
             /\ RA_template' = [RA_template EXCEPT ![i] =
                   [RA_template[i] EXCEPT !.active = TRUE, !.rar = TRUE, !.msg4 = FALSE,
                                          !.ack = FALSE, !.rnti = r, !.preamble = p]]
      BY <1>2, <2>1 DEF InitiateRaProc
    <2>3. PICK t \in TemplateRecords : t = RA_template[i]
      BY RaParts
    <2>4. PICK x : x = [t EXCEPT !.active = TRUE, !.rar = TRUE, !.msg4 = FALSE,
                                 !.ack = FALSE, !.rnti = r, !.preamble = p]
      OBVIOUS
    <2>5. r \in MaybeRntis
      BY RaFields
    <2>6. x \in TemplateRecords /\ x.rnti = r /\ x.active /\ x.rar /\ ~x.msg4 /\ ~x.ack
      BY <2>3, <2>4, <2>5 DEF TemplateRecords
    <2>7. RA_template' = [RA_template EXCEPT ![i] = x]
      BY <2>2, <2>3, <2>4
    <2>8. RA_template \in [Templates -> TemplateRecords]
      BY RaParts
    <2>9. /\ RA_template' \in [Templates -> TemplateRecords] /\ RA_template'[i] = x
          /\ \A j \in Templates : j # i => RA_template'[j] = RA_template[j]
      BY <2>6, <2>7, <2>8
    <2> QED BY <2>2, <2>6, <2>9
  <1>3. sent' \in 0 .. MaxRach
    BY RaParts, RaConstants DEF PrachSubframe
  <1>4. UNCHANGED <<UE_list, configured, rarDci, UE_stats, ccch, context, Srb0, removing, scheduler, aborted>>
    BY DEF PrachSubframe
  <1>5. RA_template' = RA_template \/ (FreeTemplates # {} /\ InitiateRaProc(p))
    BY DEF PrachSubframe
  <1> QED BY <1>1, <1>2, <1>3, <1>4, <1>5

\* ue_scheduler and rrc_rx_tx in the UE.
LEMMA TimerEffect ==
    ASSUME RaTypes, NEW u \in UEs, ContentionTimerExpires(u) \/ T300Expires(u)
    PROVE  UesStep /\ UNCHANGED <<sent, enbVars, ccch, removing, scheduler, aborted>>
  <1>0. ue[u] \in UeRecords /\ HasRequest(ue[u]) /\ ue \in [UEs -> UeRecords]
    BY RaParts
  <1>1. ASSUME NEW x, UeStep(ue[u], x), ue' = [ue EXCEPT ![u] = x] PROVE UesStep
    <2>1. \A v \in UEs : v # u => ue'[v] = ue[v]
      BY <1>0, <1>1
    <2>2. ue'[u] = x /\ ue' \in [UEs -> UeRecords]
      BY <1>0, <1>1 DEF UeStep
    <2>3. \A v \in UEs : UeStep(ue[v], ue[v])
      BY UeStays, RaParts
    <2> QED BY <1>1, <2>1, <2>2, <2>3 DEF UesStep
  <1>2. CASE ContentionTimerExpires(u)
    <2>1. ue' = [ue EXCEPT ![u] = RaFailed(ue[u])]
      BY <1>2 DEF ContentionTimerExpires
    <2> QED BY <1>0, <1>1, <1>2, <2>1, UeFails DEF ContentionTimerExpires
  <1>3. CASE T300Expires(u)
    <2>1. PICK x : x = [ue[u] EXCEPT !.t300 = FALSE, !.req = ue[u].req + 1, !.mode = "PRACH"]
      OBVIOUS
    <2>2. ue[u].req + 1 \in 1 .. MaxT300 + 1
      BY <1>3, UeDraws DEF T300Expires
    <2>3. /\ x \in UeRecords /\ x.mode = "PRACH" /\ x.pdu = ue[u].pdu /\ x.active = ue[u].active
          /\ x.preamble = ue[u].preamble /\ x.msg3 = ue[u].msg3
      BY <1>0, <2>1, <2>2 DEF UeRecords
    <2>4. UeStep(ue[u], x)
      BY <1>0, <2>3 DEF UeStep, HasRequest
    <2>5. ue' = [ue EXCEPT ![u] = x]
      BY <1>3, <2>1 DEF T300Expires
    <2> QED BY <1>1, <1>3, <2>4, <2>5 DEF T300Expires
  <1> QED BY <1>2, <1>3

\* fill_rar and add_ue: a template that waits gets its slot, or is cancelled.
LEMMA RarEffect ==
    ASSUME RaTypes, SendRar
    PROVE  /\ UesStep
           /\ UNCHANGED <<sent, UE_list, configured, ccch, context, Srb0, removing, scheduler, aborted>>
           /\ ~rarDci' /\ rarDci' \in BOOLEAN
           /\ \/ /\ \E r : RA_template' = CancelRaProc(RA_template, r)
                 /\ UNCHANGED UE_stats
              \/ \E i \in Templates, x \in Slots :
                    /\ RA_template[i].rar /\ UE_stats[x].crnti = 0
                    /\ RA_template' \in [Templates -> TemplateRecords]
                    /\ \A j \in Templates : j # i => RA_template'[j] = RA_template[j]
                    /\ RA_template'[i].rnti = RA_template[i].rnti /\ ~RA_template'[i].rar
                    /\ RA_template'[i].active = RA_template[i].active
                    /\ RA_template'[i].msg4 = RA_template[i].msg4
                    /\ RA_template'[i].ack = RA_template[i].ack
                    /\ UE_stats' \in [Slots -> SlotRecords]
                    /\ \A s \in Slots : s # x => UE_stats'[s] = UE_stats[s]
                    /\ UE_stats'[x].crnti = RA_template[i].rnti /\ UE_stats'[x].msg3
                    /\ ~UE_stats'[x].dl /\ UE_stats'[x].dlRound = 0
                    /\ UE_stats'[x].pdu.cr = NoRequest
  <1> DEFINE waiting == {i \in Templates : RA_template[i].rar}
  <1>0. /\ UNCHANGED <<sent, UE_list, configured, ccch, context, Srb0, removing, scheduler, aborted>>
        /\ rarDci' = FALSE
    BY DEF SendRar
  <1>1. ASSUME NEW got \in SUBSET {u \in UEs : HearsRar(u)}, NEW p, NEW r \in MaybeRntis,
               ue' = RarHeard(got, p, r)
        PROVE  UesStep
    <2>1. ASSUME NEW u \in UEs PROVE UeStep(ue[u], ue'[u])
      <3>1. ue[u] \in UeRecords /\ HasRequest(ue[u])
        BY RaParts
      <3>2. CASE u \in got
        <4>1. ue[u].preamble # 0 /\ ue'[u] = TakeRar(ue[u], p, r)
          BY <1>1, <3>2 DEF HearsRar, RarHeard
        <4> QED BY <3>1, <4>1, UeHearsRar
      <3>3. CASE u \notin got
        <4>1. ue'[u] = ue[u]
          BY <1>1, <3>3 DEF RarHeard
        <4> QED BY <3>1, <4>1, UeStays
      <3> QED BY <3>2, <3>3
    <2>2. ue' \in [UEs -> UeRecords]
      BY <1>1, <2>1 DEF UeStep, RarHeard
    <2> QED BY <2>1, <2>2 DEF UesStep
  <1>2. CASE waiting = {}
    <2>1. PICK got \in SUBSET {u \in UEs : HearsRar(u)}, p \in Preambles, r \in MaybeRntis :
             /\ ue' = RarHeard(got, p, r) /\ RA_template' = CancelRaProc(RA_template, 0)
             /\ UNCHANGED UE_stats
      BY <1>2 DEF SendRar, MaybeRntis
    <2> QED BY <1>0, <1>1, <2>1
  <1>3. CASE waiting # {} /\ FreeSlots = {}
    <2>1. PICK t : t = RA_template[FirstIn(waiting)]
      OBVIOUS
    <2>2. PICK got \in SUBSET {u \in UEs : HearsRar(u)} :
             /\ ue' = RarHeard(got, t.preamble, t.rnti) /\ RA_template' = AddUeFails(t)
             /\ UNCHANGED UE_stats
      BY <1>3, <2>1 DEF SendRar
    <2>3. t.rnti \in MaybeRntis
      BY <1>3, <2>1, FirstInIsIn, RaParts, RaFields
    <2> QED BY <1>0, <1>1, <2>2, <2>3 DEF AddUeFails
  <1>4. CASE waiting # {} /\ FreeSlots # {}
    <2>1. PICK i \in waiting : i = FirstIn(waiting)
      BY <1>4, FirstInIsIn
    <2>2. PICK x \in FreeSlots : x = FirstIn(FreeSlots)
      BY <1>4, FirstInIsIn DEF FreeSlots
    <2>3. PICK t \in TemplateRecords : t = RA_template[i]
      BY RaParts
    <2>4. /\ RA_template' = [RA_template EXCEPT ![i].rar = FALSE]
          /\ UE_stats' = [UE_stats EXCEPT ![x] = [FreeSlot EXCEPT !.crnti = t.rnti, !.msg3 = TRUE]]
          /\ \E got \in SUBSET {u \in UEs : HearsRar(u)} : ue' = RarHeard(got, t.preamble, t.rnti)
      BY <1>4, <2>1, <2>2, <2>3 DEF SendRar, RarFilled
    <2>5. t.rnti \in MaybeRntis
      BY RaFields
    <2>6. UesStep
      BY <1>1, <2>4, <2>5
    <2>7. PICK y : y = [t EXCEPT !.rar = FALSE]
      OBVIOUS
    <2>8. /\ y \in TemplateRecords /\ y.rnti = t.rnti /\ y.rar = FALSE /\ y.active = t.active
          /\ y.msg4 = t.msg4 /\ y.ack = t.ack
      BY <2>3, <2>7 DEF TemplateRecords
    <2>9. RA_template \in [Templates -> TemplateRecords] /\ UE_stats \in [Slots -> SlotRecords]
          /\ i \in Templates /\ RA_template[i].rar /\ x \in Slots /\ UE_stats[x].crnti = 0
      BY <2>1, <2>2, RaParts DEF FreeSlots
    <2>10. RA_template' = [RA_template EXCEPT ![i] = y]
      BY <2>3, <2>4, <2>7, <2>9
    <2>11. PICK z : z = [FreeSlot EXCEPT !.crnti = t.rnti, !.msg3 = TRUE]
      OBVIOUS
    <2>12. /\ z \in SlotRecords /\ z.crnti = t.rnti /\ z.msg3 /\ z.dl = FreeSlot.dl
           /\ z.dlRound = FreeSlot.dlRound /\ z.pdu = FreeSlot.pdu
      BY <2>5, <2>11, FreeSlotType DEF SlotRecords
    <2>13. /\ RA_template' \in [Templates -> TemplateRecords] /\ RA_template'[i] = y
           /\ \A j \in Templates : j # i => RA_template'[j] = RA_template[j]
      BY <2>8, <2>9, <2>10
    <2>14. /\ UE_stats' \in [Slots -> SlotRecords] /\ UE_stats'[x] = z
           /\ \A s \in Slots : s # x => UE_stats'[s] = UE_stats[s]
      BY <2>4, <2>9, <2>11, <2>12
    <2> HIDE DEF waiting
    <2>15. /\ UE_stats'[x].crnti = RA_template[i].rnti /\ UE_stats'[x].msg3
           /\ ~UE_stats'[x].dl /\ UE_stats'[x].dlRound = 0 /\ UE_stats'[x].pdu.cr = NoRequest
      BY <2>3, <2>12, <2>14, FreeSlotType
    <2>16. /\ RA_template'[i].rnti = RA_template[i].rnti /\ ~RA_template'[i].rar
           /\ RA_template'[i].active = RA_template[i].active
           /\ RA_template'[i].msg4 = RA_template[i].msg4
           /\ RA_template'[i].ack = RA_template[i].ack
      BY <2>3, <2>8, <2>13
    <2> QED BY <1>0, <2>6, <2>9, <2>13, <2>14, <2>15, <2>16
  <1> QED BY <1>2, <1>3, <1>4

\* The UEs that send Msg3 only start their timer.
LEMMA Msg3Ues ==
    ASSUME RaTypes, NEW r, NEW again \in BOOLEAN, ue' = Msg3Tx(r, again)
    PROVE  UesStep
  <1>1. ASSUME NEW u \in UEs PROVE UeStep(ue[u], ue'[u])
    <2>1. ue[u] \in UeRecords /\ HasRequest(ue[u])
      BY RaParts
    <2>2. CASE u \in Senders(r)
      <3>1. ue'[u] = [ue[u] EXCEPT !.timer = TRUE, !.msg3 = again] /\ ue[u].msg3
        BY <2>2 DEF Msg3Tx, Senders
      <3> QED BY <2>1, <3>1, UeSendsMsg3
    <2>3. CASE u \notin Senders(r)
      <3>1. ue'[u] = ue[u]
        BY <2>3 DEF Msg3Tx
      <3> QED BY <2>1, <3>1, UeStays
    <2> QED BY <2>2, <2>3
  <1>2. ue' \in [UEs -> UeRecords]
    BY <1>1 DEF Msg3Tx, UeStep
  <1> QED BY <1>1, <1>2 DEF UesStep

\* Msg3 is not decoded.
LEMMA Msg3ErrorEffect ==
    ASSUME RaTypes, NEW s \in Slots, Msg3Error(s)
    PROVE  /\ UesStep /\ UE_stats[s].msg3
           /\ UNCHANGED <<sent, UE_list, configured, rarDci, ccch, context, Srb0, removing, scheduler, aborted>>
           /\ \/ /\ RA_template' = CancelRaProc(RA_template, UE_stats[s].crnti)
                 /\ UE_stats' = MacPhyRemoveUe(UE_stats, UE_stats[s].crnti)
              \/ /\ RA_template' = RA_template /\ UE_stats' \in [Slots -> SlotRecords]
                 /\ \A x \in Slots : x # s => UE_stats'[x] = UE_stats[x]
                 /\ UE_stats'[s].crnti = UE_stats[s].crnti /\ UE_stats'[s].msg3 = UE_stats[s].msg3
                 /\ UE_stats'[s].dl = UE_stats[s].dl /\ UE_stats'[s].pdu = UE_stats[s].pdu
                 /\ UE_stats'[s].dlRound = UE_stats[s].dlRound
  <1> DEFINE last == UE_stats[s].round + 1 = maxHARQ_Msg3Tx
  <1>1. /\ ue' = Msg3Tx(UE_stats[s].crnti, ~last) /\ UE_stats[s].msg3
        /\ UNCHANGED <<sent, UE_list, configured, rarDci, ccch, context, Srb0, removing, scheduler, aborted>>
    BY DEF Msg3Error
  <1>2. UesStep
    <2>1. CASE last
      <3>1. ue' = Msg3Tx(UE_stats[s].crnti, FALSE)
        BY <1>1, <2>1 DEF Msg3Tx
      <3> QED BY <3>1, Msg3Ues
    <2>2. CASE ~last
      <3>1. ue' = Msg3Tx(UE_stats[s].crnti, TRUE)
        BY <1>1, <2>2 DEF Msg3Tx
      <3> QED BY <3>1, Msg3Ues
    <2> QED BY <2>1, <2>2
  <1>3. CASE last
    BY <1>1, <1>2, <1>3 DEF Msg3Error
  <1>4. CASE ~last
    <2>1. RA_template' = RA_template /\ UE_stats' = [UE_stats EXCEPT ![s].round = UE_stats[s].round + 1]
      BY <1>4 DEF Msg3Error
    <2>2. PICK y \in SlotRecords : y = UE_stats[s]
      BY RaParts
    <2>3. y.round + 1 \in 0 .. maxHARQ_Msg3Tx - 1
      BY <1>4, <2>2, RaFields, RaConstants
    <2>4. PICK z : z = [y EXCEPT !.round = y.round + 1]
      OBVIOUS
    <2>5. /\ z \in SlotRecords /\ z.crnti = y.crnti /\ z.msg3 = y.msg3 /\ z.dl = y.dl
          /\ z.pdu = y.pdu /\ z.dlRound = y.dlRound
      BY <2>2, <2>3, <2>4 DEF SlotRecords
    <2>6. UE_stats \in [Slots -> SlotRecords]
      BY RaParts
    <2>7. UE_stats' = [UE_stats EXCEPT ![s] = z]
      BY <2>1, <2>2, <2>4, <2>6
    <2>8. /\ UE_stats' \in [Slots -> SlotRecords] /\ UE_stats'[s] = z
          /\ \A x \in Slots : x # s => UE_stats'[x] = UE_stats[x]
      BY <2>5, <2>6, <2>7
    <2> QED BY <1>1, <1>2, <2>1, <2>2, <2>5, <2>8
  <1> QED BY <1>3, <1>4

\* The templates rx_sdu finds for an RNTI.
ActiveOf(r) == {i \in Templates : RA_template[i].rnti = r /\ RA_template[i].active}

\* There are finitely many of them.
LEMMA ActiveFinite ==
    ASSUME NEW r
    PROVE  IsFiniteSet(ActiveOf(r)) /\ Cardinality(ActiveOf(r)) \in Nat
           /\ (ActiveOf(r) = {} => Cardinality(ActiveOf(r)) = 0)
  <1>1. IsFiniteSet(Templates)
    BY RaConstants, FS_Interval DEF Templates
  <1>2. ActiveOf(r) \in SUBSET Templates
    BY DEF ActiveOf
  <1> QED BY <1>1, <1>2, FS_Subset, FS_CardinalityType, FS_EmptySet

\* Messages put at the end of a queue: none, one, or many copies of one.
LEMMA Copies ==
    ASSUME NEW S, NEW q \in Seq(S), NEW m, NEW n \in Nat
    PROVE  /\ m \in S => q \o [k \in 1 .. n |-> m] \in Seq(S)
           /\ n = 0 => q \o [k \in 1 .. n |-> m] = q
           /\ n = 1 => q \o [k \in 1 .. n |-> m] = Append(q, m)
  <1> DEFINE c == [k \in 1 .. n |-> m]
  <1>1. c \in Seq({m}) /\ Len(c) = n /\ (\A k \in 1 .. n : c[k] = m) /\ (m \in S => c \in Seq(S))
    <2>1. c \in Seq({m}) /\ (m \in S => c \in Seq(S))
      OBVIOUS
    <2>2. DOMAIN c = 1 .. n /\ \A k \in 1 .. n : c[k] = m
      OBVIOUS
    <2> HIDE DEF c
    <2> QED BY <2>1, <2>2
  <1> HIDE DEF c
  <1>2. m \in S => q \o c \in Seq(S)
    BY <1>1
  <1>3. n = 0 => c = <<>>
    BY <1>1
  <1>4. n = 0 => q \o c = q
    BY <1>3
  <1>5. ASSUME n = 1 PROVE q \o c = Append(q, m)
    <2>1. c = <<m>>
      BY <1>1, <1>5
    <2>2. q \o <<m>> = Append(q, m)
      OBVIOUS
    <2> QED BY <2>1, <2>2
  <1> QED BY <1>2, <1>4, <1>5 DEF c

\* rx_sdu for Msg3.
LEMMA Msg3ReceivedEffect ==
    ASSUME RaTypes, NEW s \in Slots, NEW u \in UEs, Msg3Received(s, u)
    PROVE  LET r == UE_stats[s].crnti
               mine == ActiveOf(r)
           IN  /\ UesStep /\ UE_stats[s].msg3
               /\ UNCHANGED <<sent, rarDci, context, Srb0, removing, scheduler>>
               /\ UE_stats' \in [Slots -> SlotRecords]
               /\ \A x \in Slots : x # s => UE_stats'[x] = UE_stats[x]
               /\ UE_stats'[s].crnti = r /\ ~UE_stats'[s].msg3
               /\ UE_stats'[s].dl = UE_stats[s].dl /\ UE_stats'[s].pdu = UE_stats[s].pdu
               /\ UE_stats'[s].dlRound = UE_stats[s].dlRound
               /\ RA_template' \in [Templates -> TemplateRecords]
               /\ \A i \in Templates :
                     /\ i \notin mine => RA_template'[i] = RA_template[i]
                     /\ RA_template'[i].rnti = RA_template[i].rnti
                     /\ RA_template'[i].rar = RA_template[i].rar
                     /\ RA_template'[i].active = RA_template[i].active
                     /\ RA_template'[i].ack => RA_template[i].ack
               /\ UE_list' = IF mine = {} THEN UE_list ELSE UE_list \cup {r}
               /\ mine # {} => r \in Rntis
               /\ configured' \in SUBSET Rntis /\ aborted' \in BOOLEAN
               /\ ccch' \in Seq(CcchRecords)
               /\ mine = {} => ccch' = ccch
               /\ Cardinality(mine) = 1 => \E m \in CcchRecords : m.rnti = r /\ ccch' = Append(ccch, m)
  <1> DEFINE r == UE_stats[s].crnti
             mine == ActiveOf(r)
             id == <<u, ue[u].pdu>>
             new == r \notin UE_list
  <1>1. /\ UE_stats[s].msg3 /\ u \in Senders(r) /\ ue' = Msg3Tx(r, FALSE)
        /\ UE_stats' = [UE_stats EXCEPT ![s].msg3 = FALSE, ![s].round = 0]
        /\ RA_template' = [i \in Templates |->
              IF i \notin mine THEN RA_template[i]
              ELSE [RA_template[i] EXCEPT !.msg4 = TRUE, !.ack = FALSE,
                      !.cr = IF new /\ i = FirstIn(mine) THEN id ELSE RA_template[i].cr]]
        /\ UE_list' = IF mine = {} THEN UE_list ELSE UE_list \cup {r}
        /\ configured' = IF mine # {} /\ new THEN configured \ {r} ELSE configured
        /\ ccch' = ccch \o [k \in 1 .. Cardinality(mine) |-> [rnti |-> r, id |-> id]]
        /\ aborted' = (mine # {} /\ new /\ Cardinality(UE_list) = NUMBER_OF_UE_MAX)
        /\ UNCHANGED <<sent, rarDci, context, Srb0, removing, scheduler>>
    BY DEF Msg3Received, ActiveOf
  <1>2. UesStep
    BY <1>1, Msg3Ues
  <1>3. id \in Requests
    <2>1. ue[u].msg3 /\ HasRequest(ue[u]) /\ ue[u] \in UeRecords
      BY <1>1, RaParts DEF Senders
    <2>2. ue[u].pdu # 0 /\ ue[u].pdu \in 0 .. MaxT300 + 1
      BY <2>1 DEF HasRequest, UeRecords
    <2> QED BY <2>2, RaConstants DEF Requests
  <1>4. mine # {} => r \in Rntis
    <2>1. r \in MaybeRntis
      BY RaParts, RaFields
    <2> QED BY <2>1, RaParts, RaFields DEF ActiveOf, TemplateInUse
  <1>5. /\ UE_stats' \in [Slots -> SlotRecords]
        /\ \A x \in Slots : x # s => UE_stats'[x] = UE_stats[x]
        /\ UE_stats'[s].crnti = r /\ ~UE_stats'[s].msg3
        /\ UE_stats'[s].dl = UE_stats[s].dl /\ UE_stats'[s].pdu = UE_stats[s].pdu
        /\ UE_stats'[s].dlRound = UE_stats[s].dlRound
    <2>1. PICK y \in SlotRecords : y = UE_stats[s]
      BY RaParts
    <2>2. 0 \in 0 .. maxHARQ_Msg3Tx - 1
      BY RaConstants
    <2>3. PICK z : z = [y EXCEPT !.msg3 = FALSE, !.round = 0]
      OBVIOUS
    <2>4. /\ z \in SlotRecords /\ z.crnti = y.crnti /\ z.msg3 = FALSE /\ z.dl = y.dl
          /\ z.pdu = y.pdu /\ z.dlRound = y.dlRound
      BY <2>2, <2>3 DEF SlotRecords
    <2>5. UE_stats \in [Slots -> SlotRecords]
      BY RaParts
    <2>6. UE_stats' = [UE_stats EXCEPT ![s] = z]
      BY <1>1, <2>1, <2>3, <2>5
    <2> QED BY <2>1, <2>4, <2>5, <2>6
  <1>6. ASSUME NEW i \in Templates
        PROVE  /\ RA_template'[i] \in TemplateRecords
               /\ i \notin mine => RA_template'[i] = RA_template[i]
               /\ RA_template'[i].rnti = RA_template[i].rnti
               /\ RA_template'[i].rar = RA_template[i].rar
               /\ RA_template'[i].active = RA_template[i].active
               /\ RA_template'[i].ack => RA_template[i].ack
    <2>1. PICK t \in TemplateRecords : t = RA_template[i]
      BY RaParts
    <2>2. CASE i \notin mine
      <3>1. RA_template'[i] = t
        BY <1>1, <2>1, <2>2
      <3> QED BY <2>1, <3>1
    <2>3. CASE i \in mine
      <3>1. PICK cr \in Ids : cr = IF new /\ i = FirstIn(mine) THEN id ELSE t.cr
        BY <1>3, RaFields DEF Ids
      <3>2. PICK x : x = [t EXCEPT !.msg4 = TRUE, !.ack = FALSE, !.cr = cr]
        OBVIOUS
      <3>3. /\ x \in TemplateRecords /\ x.rnti = t.rnti /\ x.rar = t.rar /\ x.active = t.active
            /\ x.ack = FALSE
        BY <2>1, <3>1, <3>2 DEF TemplateRecords
      <3>4. RA_template'[i] = x
        BY <1>1, <2>1, <2>3, <3>1, <3>2
      <3> HIDE DEF mine
      <3> QED BY <2>1, <2>3, <3>3, <3>4
    <2> QED BY <2>2, <2>3
  <1>7. RA_template' \in [Templates -> TemplateRecords]
    BY <1>1, <1>6
  <1>8. configured' \in SUBSET Rntis /\ aborted' \in BOOLEAN
    BY <1>1, RaParts
  <1>9. ccch \in Seq(CcchRecords)
    BY RaParts
  <1>16. PICK n \in Nat : n = Cardinality(mine)
    BY ActiveFinite
  <1>17. PICK m : m = [rnti |-> r, id |-> id]
    OBVIOUS
  <1>10. n = Cardinality(mine) /\ m = [rnti |-> r, id |-> id]
    BY <1>16, <1>17
  <1>11. ccch' = ccch \o [k \in 1 .. n |-> m]
    BY <1>1, <1>10
  <1>12. mine # {} => m \in CcchRecords
    BY <1>3, <1>4, <1>10 DEF CcchRecords
  <1>13. (mine = {} => n = 0) /\ (n = 1 => mine # {}) /\ m.rnti = r
    BY <1>10, ActiveFinite
  <1> HIDE DEF mine, r, id, new
  <1>15. /\ mine = {} => ccch' = ccch
         /\ ccch' \in Seq(CcchRecords)
         /\ Cardinality(mine) = 1 => \E c \in CcchRecords : c.rnti = r /\ ccch' = Append(ccch, c)
    <2>1. mine = {} => ccch' = ccch
      BY <1>9, <1>11, <1>13, Copies
    <2>2. mine # {} => ccch' \in Seq(CcchRecords)
      BY <1>9, <1>11, <1>12, Copies
    <2>3. n = 1 => ccch' = Append(ccch, m)
      BY <1>9, <1>11, Copies
    <2> QED BY <1>9, <1>10, <1>12, <1>13, <2>1, <2>2, <2>3
  <1>14. /\ UesStep /\ UE_stats[s].msg3
         /\ UNCHANGED <<sent, rarDci, context, Srb0, removing, scheduler>>
         /\ UE_list' = IF mine = {} THEN UE_list ELSE UE_list \cup {r}
    BY <1>1, <1>2
  <1> QED BY <1>4, <1>5, <1>6, <1>7, <1>8, <1>14, <1>15 DEF mine, r

\* Msg4 and its feedback: a UE connects only on the C-RNTI of the slot and with its own identity.
LEMMA Msg4Effect ==
    ASSUME RaTypes, NEW s \in Slots, Msg4Feedback(s)
    PROVE  /\ ue' \in [UEs -> UeRecords] /\ \A u \in UEs : HasRequest(ue'[u])
           /\ UE_stats[s].dl
           /\ \A u \in UEs : \/ UeStep(ue[u], ue'[u])
                             \/ /\ ue'[u].crnti = UE_stats[s].crnti
                                /\ UE_stats[s].pdu.cr \in Requests /\ UE_stats[s].pdu.cr[1] = u
           /\ UE_stats' \in [Slots -> SlotRecords]
           /\ \A x \in Slots : x # s => UE_stats'[x] = UE_stats[x]
           /\ UE_stats'[s].crnti = UE_stats[s].crnti /\ UE_stats'[s].msg3 = UE_stats[s].msg3
           /\ ~UE_stats'[s].dl /\ UE_stats'[s].pdu = UE_stats[s].pdu
           /\ UNCHANGED <<sent, RA_template, UE_list, configured, rarDci, ccch, context, Srb0,
                          removing, scheduler, aborted>>
  <1>1. PICK got \in SUBSET {u \in UEs : ue[u].mode # "PRACH" /\ ue[u].crnti = UE_stats[s].crnti},
             ack \in BOOLEAN :
          /\ ue' = [u \in UEs |-> IF u \in got THEN UeSendSdu(u, ue[u], UE_stats[s].pdu) ELSE ue[u]]
          /\ UE_stats' = [UE_stats EXCEPT
                ![s].dl = FALSE,
                ![s].dlRound = IF ack THEN 0 ELSE (UE_stats[s].dlRound + 1) % Mlimit]
    BY DEF Msg4Feedback
  <1>2. PICK y \in SlotRecords : y = UE_stats[s]
    BY RaParts
  <1>3. PICK n : n = IF ack THEN 0 ELSE (y.dlRound + 1) % Mlimit
    OBVIOUS
  <1>4. n \in 0 .. Mlimit - 1
    <2>1. y.dlRound \in 0 .. Mlimit - 1
      BY <1>2, RaFields
    <2> QED BY <1>3, <2>1, RaConstants
  <1>5. PICK z : z = [y EXCEPT !.dl = FALSE, !.dlRound = n]
    OBVIOUS
  <1>6. z \in SlotRecords /\ z.crnti = y.crnti /\ z.msg3 = y.msg3 /\ z.dl = FALSE /\ z.pdu = y.pdu
    BY <1>2, <1>4, <1>5 DEF SlotRecords
  <1>7. UE_stats \in [Slots -> SlotRecords]
    BY RaParts
  <1>8. UE_stats' = [UE_stats EXCEPT ![s] = z]
    BY <1>1, <1>2, <1>3, <1>5, <1>7
  <1>9. /\ UE_stats' \in [Slots -> SlotRecords] /\ UE_stats'[s] = z
        /\ \A x \in Slots : x # s => UE_stats'[x] = UE_stats[x]
    BY <1>6, <1>7, <1>8
  <1>10. ASSUME NEW u \in UEs
         PROVE  /\ ue'[u] \in UeRecords /\ HasRequest(ue'[u])
                /\ \/ UeStep(ue[u], ue'[u])
                   \/ /\ ue'[u].crnti = UE_stats[s].crnti
                      /\ UE_stats[s].pdu.cr \in Requests /\ UE_stats[s].pdu.cr[1] = u
    <2>1. ue[u] \in UeRecords /\ HasRequest(ue[u])
      BY RaParts
    <2>2. CASE u \in got
      <3>1. ue'[u] = UeSendSdu(u, ue[u], UE_stats[s].pdu) /\ ue[u].crnti = UE_stats[s].crnti
        BY <1>1, <2>2
      <3>2. UE_stats[s].pdu \in Msg4Pdus
        BY <1>2, RaFields
      <3>3. /\ ue'[u] \in UeRecords /\ HasRequest(ue'[u])
            /\ \/ UeStep(ue[u], ue'[u])
               \/ /\ UE_stats[s].pdu.cr = <<u, ue[u].pdu>> /\ UE_stats[s].pdu.cr \in Requests
                  /\ ue'[u].crnti = ue[u].crnti
        BY <2>1, <3>1, <3>2, UeHearsMsg4
      <3> QED BY <3>1, <3>3
    <2>3. CASE u \notin got
      <3>1. ue'[u] = ue[u]
        BY <1>1, <2>3
      <3> QED BY <2>1, <3>1, UeStays
    <2> QED BY <2>2, <2>3
  <1>11. ue' \in [UEs -> UeRecords]
    BY <1>1, <1>10
  <1>12. UE_stats[s].dl /\ UNCHANGED <<sent, RA_template, UE_list, configured, rarDci, ccch, context,
                                      Srb0, removing, scheduler, aborted>>
    BY DEF Msg4Feedback
  <1> QED BY <1>2, <1>6, <1>9, <1>10, <1>11, <1>12

\* A Msg3 the eNB does not listen to.
LEMMA UnheardEffect ==
    ASSUME RaTypes, NEW r \in Rntis, Msg3Unheard(r)
    PROVE  UesStep /\ UNCHANGED <<sent, enbVars, ccch, removing, scheduler, aborted>>
  <1>1. PICK again \in BOOLEAN : ue' = Msg3Tx(r, again)
    BY DEF Msg3Unheard
  <1>2. UesStep
    BY <1>1, Msg3Ues
  <1> QED BY <1>2 DEF Msg3Unheard

\* The loop of schedule_RA goes on.
LEMMA NextTurnEffect ==
    ASSUME RaTypes, NextTurn
    PROVE  scheduler' \in SchedulerRecords /\ Fetched'
  <1>1. PICK n \in 0 .. NB_RA_PROC_MAX : n = scheduler.i
    BY RaParts DEF SchedulerRecords
  <1>2. 0 \in MaybeRntis /\ NB_RA_PROC_MAX \in Nat
    BY RaFields, RaConstants
  <1>3. PICK k \in 0 .. NB_RA_PROC_MAX : scheduler' = [i |-> k, sdu |-> 0]
    <2>1. CASE n = NB_RA_PROC_MAX
      BY <1>1, <1>2, <2>1 DEF NextTurn, Idle
    <2>2. CASE n # NB_RA_PROC_MAX
      <3>1. n + 1 \in 0 .. NB_RA_PROC_MAX
        BY <1>2, <2>2
      <3>2. scheduler' = [i |-> n + 1, sdu |-> 0]
        BY <1>1, <2>2 DEF NextTurn
      <3> QED BY <3>1, <3>2
    <2> QED BY <2>1, <2>2
  <1>4. scheduler' \in SchedulerRecords /\ scheduler'.sdu = 0
    BY <1>2, <1>3 DEF SchedulerRecords
  <1> QED BY <1>4 DEF Fetched

\* A slot's new Msg4 is that of a template whose procedure has just ended.
Msg4Of(s) ==
    \/ UE_stats'[s].pdu = UE_stats[s].pdu
    \/ \E j \in Templates : /\ RA_template[j].rnti = UE_stats[s].crnti
                            /\ RA_template[j].active /\ ~RA_template'[j].active

\* What a step of schedule_RA leaves to be said of templates and slots.
ScheduleQuiet ==
    /\ RA_template' \in [Templates -> TemplateRecords] /\ UE_stats' \in [Slots -> SlotRecords]
    /\ \A j \in Templates : TemplateTurn(RA_template[j], RA_template'[j])
    /\ \A s \in Slots : SlotTurn(UE_stats[s], UE_stats'[s]) /\ Msg4Of(s)

\* One that leaves templates and slots alone.
LEMMA StaysScheduled ==
    ASSUME RaTypes
    PROVE  /\ RA_template' = RA_template => /\ RA_template' \in [Templates -> TemplateRecords]
                                            /\ \A j \in Templates : TemplateTurn(RA_template[j], RA_template'[j])
           /\ UE_stats' = UE_stats => /\ UE_stats' \in [Slots -> SlotRecords]
                                      /\ \A s \in Slots : SlotTurn(UE_stats[s], UE_stats'[s]) /\ Msg4Of(s)
  BY RaParts DEF TemplateTurn, SlotTurn, Msg4Of

\* The call, a template with nothing to send, the DCI of a RAR.
LEMMA IdleTurnEffect ==
    ASSUME RaTypes, NEW i \in Templates, NEW fits \in BOOLEAN,
           ScheduleRA \/ SkipTemplate(i) \/ ScheduleRar(i, fits)
    PROVE  /\ scheduler' \in SchedulerRecords /\ Fetched' /\ rarDci' \in BOOLEAN
           /\ UNCHANGED <<ue, sent, RA_template, UE_list, configured, UE_stats, ccch, context, Srb0,
                          removing, aborted>>
  <1>1. CASE ScheduleRA
    <2>1. scheduler' = [i |-> 1, sdu |-> 0] /\ 0 \in MaybeRntis /\ 1 \in 0 .. NB_RA_PROC_MAX
      BY <1>1, RaFields, RaConstants DEF ScheduleRA
    <2>2. scheduler' \in SchedulerRecords /\ scheduler'.sdu = 0
      BY <2>1 DEF SchedulerRecords
    <2>3. Fetched'
      BY <2>2 DEF Fetched
    <2> QED BY <1>1, <2>2, <2>3, RaParts DEF ScheduleRA, enbVars
  <1>2. CASE SkipTemplate(i)
    BY <1>2, NextTurnEffect, RaParts DEF SkipTemplate, enbVars
  <1>3. CASE ScheduleRar(i, fits)
    BY <1>3, NextTurnEffect, RaParts DEF ScheduleRar
  <1> QED BY <1>1, <1>2, <1>3

\* The first part of a Msg4.
LEMMA FetchEffect ==
    ASSUME RaTypes, NEW i \in Templates, FetchSetup(i)
    PROVE  /\ scheduler' \in SchedulerRecords /\ Fetched' /\ Srb0' \in MaybeRntis /\ aborted' \in BOOLEAN
           /\ UNCHANGED <<ue, sent, RA_template, UE_list, configured, rarDci, UE_stats, ccch, context,
                          removing>>
  <1>1. /\ scheduler = [i |-> i, sdu |-> 0] /\ RA_template[i].active
        /\ UNCHANGED <<ue, sent, RA_template, UE_list, configured, rarDci, UE_stats, ccch, context,
                       removing>>
    BY DEF FetchSetup, TurnOf
  <1>2. CASE RA_template[i].rnti \notin UE_list
    <2>1. aborted' = TRUE /\ scheduler' = scheduler /\ Srb0' = Srb0
      BY <1>2 DEF FetchSetup
    <2>2. Fetched'
      BY <1>1, <2>1, RaParts DEF Fetched
    <2> QED BY <1>1, <2>1, <2>2, RaParts
  <1>3. CASE RA_template[i].rnti \in UE_list
    <2>1. Srb0' = 0 /\ aborted' = aborted /\ Srb0' \in MaybeRntis
      BY <1>3, RaFields DEF FetchSetup
    <2>2. CASE Srb0 = 0
      <3>1. NextTurn
        BY <1>3, <2>2 DEF FetchSetup
      <3> QED BY <1>1, <2>1, <3>1, NextTurnEffect, RaParts
    <2>3. CASE Srb0 # 0
      <3>1. scheduler' = [scheduler EXCEPT !.sdu = Srb0]
        BY <1>3, <2>3 DEF FetchSetup
      <3>2. scheduler' \in SchedulerRecords /\ scheduler'.i = i
        BY <1>1, <3>1, RaParts DEF SchedulerRecords
      <3>3. Undecided(RA_template'[i])
        BY <1>1 DEF Undecided
      <3>4. Fetched'
        BY <3>2, <3>3 DEF Fetched, Undecided
      <3> QED BY <1>1, <2>1, <3>2, <3>4, RaParts
    <2> QED BY <2>2, <2>3
  <1> QED BY <1>2, <1>3

\* The second part.
LEMMA SendMsg4Effect ==
    ASSUME RaTypes, NEW i \in Templates, NEW fits \in BOOLEAN, SendMsg4(i, fits)
    PROVE  /\ scheduler' \in SchedulerRecords /\ Fetched' /\ ScheduleQuiet
           /\ UNCHANGED <<ue, sent, UE_list, configured, rarDci, ccch, context, Srb0, removing, aborted>>
  <1>1. /\ scheduler.i = i /\ scheduler.sdu # 0 /\ NextTurn
        /\ UNCHANGED <<ue, sent, UE_list, configured, rarDci, ccch, context, Srb0, removing, aborted>>
    BY DEF SendMsg4
  <1>2. scheduler' \in SchedulerRecords /\ Fetched'
    BY <1>1, NextTurnEffect
  <1>3. PICK t \in TemplateRecords : t = RA_template[i]
    BY RaParts
  <1>4. t.active \/ t.rnti = 0
    BY <1>1, <1>3, RaParts DEF Fetched, Undecided
  <1>5. CASE ~fits
    <2>1. UNCHANGED <<RA_template, UE_stats>>
      BY <1>5 DEF SendMsg4
    <2> QED BY <1>1, <1>2, <2>1, StaysScheduled DEF ScheduleQuiet
  <1>6. CASE fits
    <2>1. PICK pdu : pdu = [cr |-> t.cr, setup |-> scheduler.sdu]
      OBVIOUS
    <2>2. pdu \in Msg4Pdus
      <3>1. scheduler.sdu \in MaybeRntis /\ t.cr \in Ids
        BY <1>3, RaParts, RaFields DEF SchedulerRecords
      <3> QED BY <2>1, <3>1 DEF Msg4Pdus
    <2>3. RA_template' = [RA_template EXCEPT ![i] = Msg4Sent(t)] /\ UE_stats' = Transmit(t.rnti, pdu)
      BY <1>3, <1>6, <2>1 DEF SendMsg4
    <2>4. PICK x : x = Msg4Sent(t)
      OBVIOUS
    <2>5. x \in TemplateRecords /\ x.rnti = t.rnti /\ x.rar = t.rar /\ x.active = FALSE
      BY <1>3, <2>4 DEF Msg4Sent, TemplateRecords
    <2>6. RA_template \in [Templates -> TemplateRecords] /\ UE_stats \in [Slots -> SlotRecords]
      BY RaParts
    <2>7. /\ RA_template' \in [Templates -> TemplateRecords] /\ RA_template'[i] = x
          /\ \A j \in Templates : j # i => RA_template'[j] = RA_template[j]
      BY <2>3, <2>4, <2>5, <2>6
    <2>8. \A j \in Templates : TemplateTurn(RA_template[j], RA_template'[j])
      BY <1>3, <2>5, <2>7 DEF TemplateTurn
    <2>9. /\ UE_stats' \in [Slots -> SlotRecords]
          /\ \A s \in Slots : SlotTurn(UE_stats[s], UE_stats'[s]) /\ Msg4Of(s)
      <3>1. CASE t.rnti = 0 \/ SlotsOf(t.rnti) = {}
        <4>1. UE_stats' = UE_stats
          BY <2>3, <3>1 DEF Transmit
        <4> QED BY <4>1, StaysScheduled
      <3>2. CASE t.rnti # 0 /\ SlotsOf(t.rnti) # {}
        <4>1. PICK f \in SlotsOf(t.rnti) : f = FirstIn(SlotsOf(t.rnti))
          BY <3>2, FirstInIsIn DEF SlotsOf
        <4>2. f \in Slots /\ UE_stats[f].crnti = t.rnti
          BY DEF SlotsOf
        <4>3. PICK y \in SlotRecords : y = UE_stats[f]
          BY <2>6, <4>2
        <4>4. PICK z : z = [y EXCEPT !.dl = TRUE, !.pdu = pdu]
          OBVIOUS
        <4>5. z \in SlotRecords /\ z.crnti = y.crnti /\ z.msg3 = y.msg3 /\ z.dlRound = y.dlRound
          BY <2>2, <4>3, <4>4 DEF SlotRecords
        <4>6. UE_stats' = [UE_stats EXCEPT ![f] = z]
          BY <2>3, <2>6, <3>2, <4>1, <4>3, <4>4 DEF Transmit
        <4>7. /\ UE_stats' \in [Slots -> SlotRecords] /\ UE_stats'[f] = z
              /\ \A s \in Slots : s # f => UE_stats'[s] = UE_stats[s]
          BY <2>6, <4>2, <4>5, <4>6
        <4>8. ASSUME NEW s \in Slots PROVE SlotTurn(UE_stats[s], UE_stats'[s]) /\ Msg4Of(s)
          <5>1. CASE s = f
            <6>1. SlotTurn(UE_stats[s], UE_stats'[s])
              BY <3>2, <4>2, <4>3, <4>5, <4>7, <5>1 DEF SlotTurn
            <6>2. /\ RA_template[i].rnti = UE_stats[s].crnti
                  /\ RA_template[i].active /\ ~RA_template'[i].active
              BY <1>3, <1>4, <2>5, <2>7, <3>2, <4>2, <5>1
            <6> QED BY <6>1, <6>2 DEF Msg4Of
          <5>2. CASE s # f
            BY <4>7, <5>2 DEF SlotTurn, Msg4Of
          <5> QED BY <5>1, <5>2
        <4> QED BY <4>7, <4>8
      <3> QED BY <3>1, <3>2
    <2> QED BY <1>1, <1>2, <2>7, <2>8, <2>9 DEF ScheduleQuiet
  <1> QED BY <1>5, <1>6

\* The acknowledgement of a Msg4.
LEMMA CheckMsg4Effect ==
    ASSUME RaTypes, NEW i \in Templates, NEW fits \in BOOLEAN, CheckMsg4(i, fits)
    PROVE  /\ scheduler' \in SchedulerRecords /\ Fetched' /\ ScheduleQuiet
           /\ configured' \in SUBSET Rntis /\ aborted' \in BOOLEAN
           /\ UNCHANGED <<ue, sent, UE_list, rarDci, ccch, context, Srb0, removing>>
  <1>1. /\ NextTurn /\ ~RA_template[i].active
        /\ UNCHANGED <<ue, sent, UE_list, rarDci, ccch, context, Srb0, removing>>
    BY DEF CheckMsg4
  <1>2. scheduler' \in SchedulerRecords /\ Fetched'
    BY <1>1, NextTurnEffect
  <1>3. PICK t \in TemplateRecords : t = RA_template[i]
    BY RaParts
  <1>4. RA_template \in [Templates -> TemplateRecords] /\ UE_stats \in [Slots -> SlotRecords]
    BY RaParts
  <1>5. CASE DlRound(UE_stats, t.rnti) > 0
    <2>1. /\ UNCHANGED <<RA_template, configured, aborted>>
          /\ \/ UE_stats' = UE_stats
             \/ UE_stats' = [UE_stats EXCEPT ![FirstIn(SlotsOf(t.rnti))].dl = TRUE]
      BY <1>3, <1>5 DEF CheckMsg4
    <2>2. CASE UE_stats' = UE_stats
      BY <1>1, <1>2, <2>1, <2>2, StaysScheduled, RaParts DEF ScheduleQuiet
    <2>3. CASE UE_stats' = [UE_stats EXCEPT ![FirstIn(SlotsOf(t.rnti))].dl = TRUE]
      <3>1. SlotsOf(t.rnti) # {}
        BY <1>5 DEF DlRound, SlotsOf
      <3>2. PICK f \in SlotsOf(t.rnti) : f = FirstIn(SlotsOf(t.rnti))
        BY <3>1, FirstInIsIn DEF SlotsOf
      <3>3. f \in Slots /\ UE_stats[f].crnti = t.rnti
        BY DEF SlotsOf
      <3>4. PICK y \in SlotRecords : y = UE_stats[f]
        BY <1>4, <3>3
      <3>5. y.dlRound > 0
        BY <1>5, <3>1, <3>2, <3>4 DEF DlRound, SlotsOf
      <3>6. y.crnti # 0
        BY <3>3, <3>4, <3>5, RaParts DEF SlotInUse
      <3>7. PICK z : z = [y EXCEPT !.dl = TRUE]
        OBVIOUS
      <3>8. /\ z \in SlotRecords /\ z.crnti = y.crnti /\ z.msg3 = y.msg3 /\ z.pdu = y.pdu
            /\ z.dlRound = y.dlRound
        BY <3>4, <3>7 DEF SlotRecords
      <3>9. UE_stats' = [UE_stats EXCEPT ![f] = z]
        BY <1>4, <2>3, <3>2, <3>3, <3>4, <3>7
      <3>10. /\ UE_stats' \in [Slots -> SlotRecords] /\ UE_stats'[f] = z
             /\ \A s \in Slots : s # f => UE_stats'[s] = UE_stats[s]
        BY <1>4, <3>3, <3>8, <3>9
      <3>11. ASSUME NEW s \in Slots PROVE SlotTurn(UE_stats[s], UE_stats'[s]) /\ Msg4Of(s)
        <4>1. CASE s = f
          BY <3>4, <3>6, <3>8, <3>10, <4>1 DEF SlotTurn, Msg4Of
        <4>2. CASE s # f
          BY <3>10, <4>2 DEF SlotTurn, Msg4Of
        <4> QED BY <4>1, <4>2
      <3> QED BY <1>1, <1>2, <2>1, <3>10, <3>11, StaysScheduled, RaParts DEF ScheduleQuiet
    <2> QED BY <2>1, <2>2, <2>3
  <1>6. CASE ~(DlRound(UE_stats, t.rnti) > 0)
    <2>1. /\ RA_template' = [RA_template EXCEPT ![i].ack = FALSE] /\ UE_stats' = UE_stats
          /\ configured' = configured \cup ({t.rnti} \cap UE_list)
          /\ aborted' = (t.rnti \notin UE_list)
      BY <1>3, <1>6 DEF CheckMsg4
    <2>2. configured' \in SUBSET Rntis /\ aborted' \in BOOLEAN
      BY <2>1, RaParts
    <2>3. PICK x : x = [t EXCEPT !.ack = FALSE]
      OBVIOUS
    <2>4. x \in TemplateRecords /\ x.rnti = t.rnti /\ x.rar = t.rar /\ x.active = t.active
      BY <1>3, <2>3 DEF TemplateRecords
    <2>5. RA_template' = [RA_template EXCEPT ![i] = x]
      BY <1>3, <1>4, <2>1, <2>3
    <2>6. /\ RA_template' \in [Templates -> TemplateRecords]
          /\ \A j \in Templates : TemplateTurn(RA_template[j], RA_template'[j])
      BY <1>3, <1>4, <2>4, <2>5 DEF TemplateTurn
    <2> QED BY <1>1, <1>2, <2>1, <2>2, <2>6, StaysScheduled DEF ScheduleQuiet
  <1> QED BY <1>5, <1>6

\* A step of schedule_RA.
LEMMA ScheduleEffect ==
    ASSUME RaTypes, ScheduleStep
    PROVE  /\ ScheduleQuiet /\ scheduler' \in SchedulerRecords /\ Fetched'
           /\ Srb0' \in MaybeRntis /\ configured' \in SUBSET Rntis
           /\ rarDci' \in BOOLEAN /\ aborted' \in BOOLEAN
           /\ UNCHANGED <<ue, sent, UE_list, ccch, context, removing>>
  <1>1. Templates # {} /\ TRUE \in BOOLEAN
    BY RaConstants DEF Templates
  <1>2. PICK i \in Templates, fits \in BOOLEAN :
           \/ ScheduleRA \/ SkipTemplate(i) \/ ScheduleRar(i, fits)
           \/ FetchSetup(i) \/ SendMsg4(i, fits) \/ CheckMsg4(i, fits)
    BY <1>1 DEF ScheduleStep
  <1>3. CASE ScheduleRA \/ SkipTemplate(i) \/ ScheduleRar(i, fits)
    BY <1>3, IdleTurnEffect, StaysScheduled, RaParts DEF ScheduleQuiet
  <1>4. CASE FetchSetup(i)
    BY <1>4, FetchEffect, StaysScheduled, RaParts DEF ScheduleQuiet
  <1>5. CASE SendMsg4(i, fits)
    BY <1>5, SendMsg4Effect, RaParts
  <1>6. CASE CheckMsg4(i, fits)
    BY <1>6, CheckMsg4Effect, RaParts
  <1> QED BY <1>2, <1>3, <1>4, <1>5, <1>6

\* rrc_eNB_decode_ccch: a context for the RNTI, or the RNTI is to be removed.
LEMMA DecodeEffect ==
    ASSUME RaTypes, DecodeCcch
    PROVE  /\ removing.at = "idle" /\ ccch # <<>> /\ ccch' = Tail(ccch) /\ Head(ccch) \in CcchRecords
           /\ context' \in [Rntis -> ContextRecords] /\ Srb0' \in MaybeRntis
           /\ removing' \in RemovingRecords
           /\ \/ /\ context[Head(ccch).rnti] = NoContext /\ context' = context
                 /\ removing'.rnti = Head(ccch).rnti
                 /\ removing'.at = IF Head(ccch).rnti \in UE_list THEN "mac" ELSE "phy"
              \/ /\ removing' = removing
                 /\ \A r \in Rntis : r # Head(ccch).rnti => context'[r] = context[r]
           /\ UNCHANGED <<ue, sent, RA_template, UE_list, configured, rarDci, UE_stats, scheduler, aborted>>
  <1>1. /\ removing.at = "idle" /\ ccch # <<>> /\ ccch' = Tail(ccch)
        /\ UNCHANGED <<ue, sent, RA_template, UE_list, configured, rarDci, UE_stats, scheduler, aborted>>
    BY DEF DecodeCcch
  <1>2. PICK m \in CcchRecords : m = Head(ccch)
    BY <1>1, RaParts
  <1>3. m.rnti \in Rntis /\ m.rnti \in MaybeRntis /\ m.id \in Ids
    BY <1>2, RaFields DEF CcchRecords, Ids
  <1>4. context \in [Rntis -> ContextRecords] /\ Srb0 \in MaybeRntis
    BY RaParts
  <1> DEFINE zombie == \E r \in Rntis : context[r].id = m.id
  <1>5. CASE context[m.rnti] = NoContext /\ zombie
    <2>1. /\ UNCHANGED <<context, Srb0>>
          /\ removing' = [rnti |-> m.rnti, at |-> IF m.rnti \in UE_list THEN "mac" ELSE "phy"]
      BY <1>2, <1>5 DEF DecodeCcch
    <2>2. PICK a \in {"mac", "phy"} : a = IF m.rnti \in UE_list THEN "mac" ELSE "phy"
      OBVIOUS
    <2>3. removing' = [rnti |-> m.rnti, at |-> a]
      BY <2>1, <2>2
    <2>4. removing' \in RemovingRecords /\ removing'.rnti = m.rnti /\ removing'.at = a
      BY <1>3, <2>2, <2>3 DEF RemovingRecords
    <2> QED BY <1>1, <1>2, <1>4, <1>5, <2>1, <2>2, <2>4
  <1>6. CASE ~(context[m.rnti] = NoContext /\ zombie)
    <2>1. PICK i : i = IF context[m.rnti] = NoContext THEN m.id ELSE context[m.rnti].id
      OBVIOUS
    <2>2. i \in Ids
      BY <1>3, <1>4, <2>1 DEF ContextRecords
    <2>3. /\ context' = [context EXCEPT ![m.rnti] = [id |-> i, timer |-> TRUE]]
          /\ Srb0' = m.rnti /\ removing' = removing
      BY <1>2, <1>6, <2>1 DEF DecodeCcch
    <2>4. PICK c \in ContextRecords : c = [id |-> i, timer |-> TRUE]
      BY <2>2 DEF ContextRecords
    <2>5. /\ context' \in [Rntis -> ContextRecords]
          /\ \A r \in Rntis : r # m.rnti => context'[r] = context[r]
      BY <1>4, <2>3, <2>4
    <2>6. removing' \in RemovingRecords
      BY <2>3, RaParts
    <2> QED BY <1>1, <1>2, <1>3, <2>3, <2>5, <2>6
  <1> QED BY <1>5, <1>6

\* rrc_mac_remove_ue keeps the types.
LEMMA RemoveStepTypes ==
    ASSUME RaTypes, RemoveStep
    PROVE  /\ UE_list' \in SUBSET Rntis /\ removing' \in RemovingRecords
           /\ UE_stats' = UE_stats \/ UE_stats' = MacPhyRemoveUe(UE_stats, removing.rnti)
           /\ RA_template' = RA_template \/ RA_template' = CancelRaProc(RA_template, removing.rnti)
           /\ UNCHANGED <<ue, sent, configured, rarDci, ccch, context, Srb0, scheduler, aborted>>
  <1>1. removing \in RemovingRecords /\ UE_list \in SUBSET Rntis /\ 0 \in MaybeRntis
    BY RaParts, RaFields
  <1>2. \A a \in {"phy_ra", "ra"} : [removing EXCEPT !.at = a] \in RemovingRecords
    BY <1>1 DEF RemovingRecords
  <1>3. [rnti |-> 0, at |-> "idle"] \in RemovingRecords
    BY <1>1 DEF RemovingRecords
  <1> QED BY <1>1, <1>2, <1>3 DEF RemoveStep

\* RRCConnectionSetupComplete stops the timer of a context.
LEMMA SetupEffect ==
    ASSUME RaTypes, NEW u \in UEs, SetupComplete(u)
    PROVE  /\ context' \in [Rntis -> ContextRecords]
           /\ \A r \in Rntis : context[r] = NoContext => context'[r] = NoContext
           /\ UNCHANGED <<ue, sent, RA_template, UE_list, configured, rarDci, UE_stats, ccch, Srb0,
                          removing, scheduler, aborted>>
  <1>1. PICK r : r = ue[u].crnti
    OBVIOUS
  <1>2. context \in [Rntis -> ContextRecords]
    BY RaParts
  <1>3. /\ context[r].timer /\ context' = [context EXCEPT ![r].timer = FALSE]
        /\ UNCHANGED <<ue, sent, RA_template, UE_list, configured, rarDci, UE_stats, ccch, Srb0,
                       removing, scheduler, aborted>>
    BY <1>1 DEF SetupComplete
  <1>4. CASE r \in Rntis
    <2>1. PICK c \in ContextRecords : c = context[r]
      BY <1>2, <1>4
    <2>2. PICK d : d = [c EXCEPT !.timer = FALSE]
      OBVIOUS
    <2>3. d \in ContextRecords
      BY <2>1, <2>2 DEF ContextRecords
    <2>4. context' = [context EXCEPT ![r] = d]
      BY <1>2, <1>3, <1>4, <2>1, <2>2
    <2>5. context[r] # NoContext
      BY <1>3 DEF NoContext
    <2> QED BY <1>2, <1>3, <1>4, <2>3, <2>4, <2>5
  <1>5. CASE r \notin Rntis
    <2>1. context' = context
      BY <1>2, <1>3, <1>5
    <2> QED BY <1>2, <1>3, <2>1
  <1> QED BY <1>4, <1>5

\* No context.
LEMMA NoContextType == NoContext \in ContextRecords /\ ~NoContext.timer
  BY DEF NoContext, ContextRecords, Ids

\* The release timer expires.
LEMMA ReleaseEffect ==
    ASSUME RaTypes, NEW r \in Rntis, ReleaseTimerExpires(r)
    PROVE  /\ context[r] # NoContext
           /\ context' \in [Rntis -> ContextRecords] /\ context'[r] = NoContext
           /\ \A x \in Rntis : x # r => context'[x] = context[x]
           /\ UE_list' = UE_list \ {r}
           /\ UE_stats' = MacPhyRemoveUe(UE_stats, r)
           /\ RA_template' = IF r \in UE_list THEN CancelRaProc(RA_template, r) ELSE RA_template
           /\ UNCHANGED <<ue, sent, configured, rarDci, ccch, Srb0, removing, scheduler, aborted>>
  <1>1. /\ context[r].timer /\ context' = [context EXCEPT ![r] = NoContext]
        /\ UE_list' = UE_list \ {r}
        /\ UE_stats' = MacPhyRemoveUe(UE_stats, r)
        /\ RA_template' = IF r \in UE_list THEN CancelRaProc(RA_template, r) ELSE RA_template
        /\ UNCHANGED <<ue, sent, configured, rarDci, ccch, Srb0, removing, scheduler, aborted>>
    BY DEF ReleaseTimerExpires
  <1>2. context \in [Rntis -> ContextRecords]
    BY RaParts
  <1>3. context[r] # NoContext
    BY <1>1, NoContextType
  <1>4. /\ context' \in [Rntis -> ContextRecords] /\ context'[r] = NoContext
        /\ \A x \in Rntis : x # r => context'[x] = context[x]
    BY <1>1, <1>2, NoContextType
  <1> QED BY <1>1, <1>3, <1>4

-----------------------------------------------------------------------------
(* Types. *)

\* What a template goes through while schedule_RA holds an SDU for it.
LEMMA FetchedStays ==
    ASSUME RaTypes, scheduler' = scheduler,
           \A i \in Templates : Undecided(RA_template[i]) => Undecided(RA_template'[i])
    PROVE  Fetched'
  BY RaParts DEF Fetched, Undecided

\* cancel_ra_proc keeps the templates what they are.
LEMMA CancelKeepsTypes ==
    ASSUME RaTypes, NEW r
    PROVE  /\ CancelRaProc(RA_template, r) \in [Templates -> TemplateRecords]
           /\ \A i \in Templates : TemplateInUse(CancelRaProc(RA_template, r)[i])
           /\ \A i \in Templates :
                 Undecided(RA_template[i]) => Undecided(CancelRaProc(RA_template, r)[i])
  <1>1. RA_template \in [Templates -> TemplateRecords]
    BY RaParts
  <1>2. ASSUME NEW i \in Templates
        PROVE  /\ TemplateInUse(CancelRaProc(RA_template, r)[i])
               /\ Undecided(RA_template[i]) => Undecided(CancelRaProc(RA_template, r)[i])
    <2>1. CASE RA_template[i].rnti # r
      BY <1>1, <2>1, CancelEffect, RaParts
    <2>2. CASE RA_template[i].rnti = r
      BY <1>1, <2>2, CancelEffect DEF TemplateInUse, Undecided
    <2> QED BY <2>1, <2>2
  <1> QED BY <1>1, <1>2, CancelEffect

\* mac_phy_remove_ue keeps the slots what they are.
LEMMA RemoveKeepsTypes ==
    ASSUME RaTypes, NEW r
    PROVE  /\ MacPhyRemoveUe(UE_stats, r) \in [Slots -> SlotRecords]
           /\ \A s \in Slots : SlotInUse(MacPhyRemoveUe(UE_stats, r)[s])
  <1>1. UE_stats \in [Slots -> SlotRecords]
    BY RaParts
  <1>2. SlotInUse(FreeSlot)
    BY FreeSlotType DEF SlotInUse
  <1> QED BY <1>1, <1>2, RemoveEffect, RaParts

\* A step that connects no UE keeps the UEs what they are.
LEMMA UesStepTypes ==
    ASSUME UesStep PROVE ue' \in [UEs -> UeRecords] /\ \A u \in UEs : HasRequest(ue'[u])
  BY DEF UesStep, UeStep

\* The initial state.
LEMMA RaTypesInit == RaInit => RaTypes
  <1> SUFFICES ASSUME RaInit PROVE RaTypes
    OBVIOUS
  <1>0. 0 \in MaybeRntis /\ 1 \in 1 .. MaxT300 + 1 /\ 0 \in 0 .. MaxT300 + 1 /\ 0 \in 0 .. MaxRach
    BY RaConstants DEF MaybeRntis
  <1>1. PICK x : x = [mode |-> "PRACH", active |-> FALSE, preamble |-> 0,
                      crnti |-> 0, msg3 |-> FALSE, timer |-> FALSE,
                      t300 |-> FALSE, req |-> 1, pdu |-> 0, setup |-> 0]
    OBVIOUS
  <1>2. x \in UeRecords /\ HasRequest(x)
    BY <1>0, <1>1 DEF UeRecords, HasRequest
  <1>3. ue = [u \in UEs |-> x]
    BY <1>1 DEF RaInit
  <1>4. IdleTemplate \in TemplateRecords /\ TemplateInUse(IdleTemplate)
    BY <1>0 DEF IdleTemplate, TemplateRecords, TemplateInUse, Ids
  <1>5. RA_template = [i \in Templates |-> IdleTemplate] /\ UE_stats = [s \in Slots |-> FreeSlot]
        /\ context = [r \in Rntis |-> NoContext] /\ removing = [rnti |-> 0, at |-> "idle"]
        /\ sent = 0 /\ UE_list = {} /\ configured = {} /\ rarDci = FALSE /\ ccch = <<>> /\ Srb0 = 0
        /\ aborted = FALSE /\ scheduler = [i |-> 0, sdu |-> 0]
    BY DEF RaInit, Idle
  <1>11. scheduler \in SchedulerRecords /\ scheduler.sdu = 0
    BY <1>0, <1>5, RaConstants DEF SchedulerRecords
  <1>6. removing \in RemovingRecords
    BY <1>0, <1>5 DEF RemovingRecords
  <1>7. SlotInUse(FreeSlot)
    BY FreeSlotType DEF SlotInUse
  <1>8. ue \in [UEs -> UeRecords] /\ \A u \in UEs : HasRequest(ue[u])
    BY <1>2, <1>3
  <1>9. ccch \in Seq(CcchRecords)
    BY <1>5
  <1>10. RaShapes
    BY <1>0, <1>4, <1>5, <1>6, <1>8, <1>9, <1>11, FreeSlotType, NoContextType DEF RaShapes
  <1> QED BY <1>4, <1>5, <1>7, <1>8, <1>10, <1>11 DEF RaTypes, Fetched

\* Every step keeps the types.
LEMMA RaTypesNext == RaTypes /\ [RaNext]_raVars => RaTypes'
  <1> SUFFICES ASSUME RaTypes, [RaNext]_raVars PROVE RaTypes'
    OBVIOUS
  <1>1. ASSUME NEW p \in Preambles, NEW S \in SUBSET UEs, PrachSubframe(p, S) PROVE RaTypes'
    <2>1. /\ RA_template' \in [Templates -> TemplateRecords]
          /\ \A i \in Templates : TemplateInUse(RA_template'[i])
          /\ Fetched'
      <3>0. scheduler' = scheduler
        BY <1>1, PrachEffect
      <3>1. CASE RA_template' = RA_template
        BY <3>0, <3>1, RaParts, FetchedStays
      <3>2. CASE RA_template' # RA_template
        <4>1. PICK i \in Templates, r \in Rntis :
                    /\ RA_template' \in [Templates -> TemplateRecords]
                    /\ \A j \in Templates : j # i => RA_template'[j] = RA_template[j]
                    /\ RA_template'[i].rnti = r /\ RA_template'[i].active
          BY <1>1, <3>2, PrachEffect
        <4>2. r # 0
          BY RaFields
        <4>3. TemplateInUse(RA_template'[i])
          BY <4>1, <4>2 DEF TemplateInUse
        <4>4. \A j \in Templates : Undecided(RA_template[j]) => Undecided(RA_template'[j])
          BY <4>1 DEF Undecided
        <4> QED BY <3>0, <4>1, <4>3, <4>4, RaParts, FetchedStays
      <3> QED BY <3>1, <3>2
    <2> QED BY <1>1, <2>1, PrachEffect, UesStepTypes, RaParts DEF RaTypes, RaShapes
  <1>2. ASSUME NEW u \in UEs, ContentionTimerExpires(u) \/ T300Expires(u) PROVE RaTypes'
    <2>1. UNCHANGED <<RA_template, scheduler>>
      BY <1>2, TimerEffect DEF enbVars
    <2>2. Fetched'
      BY <2>1, FetchedStays
    <2> QED BY <1>2, <2>2, TimerEffect, UesStepTypes, RaParts DEF RaTypes, RaShapes, enbVars
  <1>3. ASSUME NEW u \in UEs, SetupComplete(u) PROVE RaTypes'
    <2>1. UNCHANGED <<RA_template, scheduler>>
      BY <1>3, SetupEffect
    <2>2. Fetched'
      BY <2>1, FetchedStays
    <2> QED BY <1>3, <2>2, SetupEffect, RaParts DEF RaTypes, RaShapes
  <1>4. ASSUME SendRar PROVE RaTypes'
    <2>1. /\ RA_template' \in [Templates -> TemplateRecords]
          /\ \A i \in Templates : TemplateInUse(RA_template'[i])
          /\ UE_stats' \in [Slots -> SlotRecords]
          /\ \A s \in Slots : SlotInUse(UE_stats'[s])
          /\ \A i \in Templates : Undecided(RA_template[i]) => Undecided(RA_template'[i])
      <3>2. CASE (\E r : RA_template' = CancelRaProc(RA_template, r)) /\ UNCHANGED UE_stats
        BY <3>2, CancelKeepsTypes, RaParts
      <3>3. CASE \E i \in Templates, x \in Slots :
                    /\ RA_template[i].rar /\ UE_stats[x].crnti = 0
                    /\ RA_template' \in [Templates -> TemplateRecords]
                    /\ \A j \in Templates : j # i => RA_template'[j] = RA_template[j]
                    /\ RA_template'[i].rnti = RA_template[i].rnti /\ ~RA_template'[i].rar
                    /\ RA_template'[i].active = RA_template[i].active
                    /\ RA_template'[i].msg4 = RA_template[i].msg4
                    /\ RA_template'[i].ack = RA_template[i].ack
                    /\ UE_stats' \in [Slots -> SlotRecords]
                    /\ \A s \in Slots : s # x => UE_stats'[s] = UE_stats[s]
                    /\ UE_stats'[x].crnti = RA_template[i].rnti /\ UE_stats'[x].msg3
                    /\ ~UE_stats'[x].dl /\ UE_stats'[x].dlRound = 0
                    /\ UE_stats'[x].pdu.cr = NoRequest
        <4>1. PICK i \in Templates, x \in Slots :
                    /\ RA_template' \in [Templates -> TemplateRecords]
                    /\ \A j \in Templates : j # i => RA_template'[j] = RA_template[j]
                    /\ RA_template'[i].rnti = RA_template[i].rnti /\ ~RA_template'[i].rar
                    /\ RA_template'[i].active = RA_template[i].active
                    /\ RA_template'[i].ack = RA_template[i].ack
                    /\ UE_stats' \in [Slots -> SlotRecords]
                    /\ \A s \in Slots : s # x => UE_stats'[s] = UE_stats[s]
                    /\ ~UE_stats'[x].dl /\ UE_stats'[x].dlRound = 0
          BY <3>3
        <4>2. TemplateInUse(RA_template'[i]) /\ (Undecided(RA_template[i]) => Undecided(RA_template'[i]))
          BY <4>1, RaParts DEF TemplateInUse, Undecided
        <4>3. SlotInUse(UE_stats'[x])
          BY <4>1 DEF SlotInUse
        <4> QED BY <4>1, <4>2, <4>3, RaParts
      <3> QED BY <1>4, <3>2, <3>3, RarEffect
    <2>2. scheduler' = scheduler
      BY <1>4, RarEffect
    <2>3. Fetched'
      BY <2>1, <2>2, FetchedStays
    <2> QED BY <1>4, <2>1, <2>3, RarEffect, UesStepTypes, RaParts DEF RaTypes, RaShapes
  <1>5. ASSUME NEW s \in Slots, Msg3Error(s) PROVE RaTypes'
    <2>1. /\ RA_template' \in [Templates -> TemplateRecords]
          /\ \A i \in Templates : TemplateInUse(RA_template'[i])
          /\ UE_stats' \in [Slots -> SlotRecords]
          /\ \A x \in Slots : SlotInUse(UE_stats'[x])
          /\ \A i \in Templates : Undecided(RA_template[i]) => Undecided(RA_template'[i])
      <3>1. CASE /\ RA_template' = CancelRaProc(RA_template, UE_stats[s].crnti)
                 /\ UE_stats' = MacPhyRemoveUe(UE_stats, UE_stats[s].crnti)
        BY <3>1, CancelKeepsTypes, RemoveKeepsTypes
      <3>2. CASE /\ RA_template' = RA_template /\ UE_stats' \in [Slots -> SlotRecords]
                 /\ \A x \in Slots : x # s => UE_stats'[x] = UE_stats[x]
                 /\ UE_stats'[s].crnti = UE_stats[s].crnti /\ UE_stats'[s].dl = UE_stats[s].dl
                 /\ UE_stats'[s].dlRound = UE_stats[s].dlRound
        <4>1. SlotInUse(UE_stats'[s])
          BY <3>2, RaParts DEF SlotInUse
        <4> QED BY <3>2, <4>1, RaParts
      <3> QED BY <1>5, <3>1, <3>2, Msg3ErrorEffect
    <2>2. scheduler' = scheduler
      BY <1>5, Msg3ErrorEffect
    <2>3. Fetched'
      BY <2>1, <2>2, FetchedStays
    <2> QED BY <1>5, <2>1, <2>3, Msg3ErrorEffect, UesStepTypes, RaParts DEF RaTypes, RaShapes
  <1>6. ASSUME NEW s \in Slots, NEW u \in UEs, Msg3Received(s, u) PROVE RaTypes'
    <2>1. \A i \in Templates : TemplateInUse(RA_template'[i])
      BY <1>6, Msg3ReceivedEffect, RaParts DEF TemplateInUse
    <2>2. \A x \in Slots : SlotInUse(UE_stats'[x])
      BY <1>6, Msg3ReceivedEffect, RaParts DEF SlotInUse
    <2>3. UE_list' \in SUBSET Rntis
      <3>1. PICK r, mine : r = UE_stats[s].crnti /\ mine = ActiveOf(r)
        OBVIOUS
      <3>2. UE_list' = (IF mine = {} THEN UE_list ELSE UE_list \cup {r}) /\ (mine # {} => r \in Rntis)
        BY <1>6, <3>1, Msg3ReceivedEffect
      <3>3. UE_list \in SUBSET Rntis
        BY RaParts
      <3> QED BY <3>2, <3>3
    <2>4. RaShapes'
      BY <1>6, <2>3, Msg3ReceivedEffect, UesStepTypes, RaParts DEF RaShapes
    <2>5. Fetched'
      <3>1. scheduler' = scheduler /\ \A i \in Templates :
               RA_template'[i].active = RA_template[i].active /\ RA_template'[i].rnti = RA_template[i].rnti
        BY <1>6, Msg3ReceivedEffect
      <3> QED BY <3>1, FetchedStays DEF Undecided
    <2> QED BY <1>6, <2>1, <2>2, <2>4, <2>5, Msg3ReceivedEffect, UesStepTypes DEF RaTypes
  <1>7. ASSUME NEW s \in Slots, Msg4Feedback(s) PROVE RaTypes'
    <2>1. \A x \in Slots : SlotInUse(UE_stats'[x])
      BY <1>7, Msg4Effect, RaParts DEF SlotInUse
    <2>2. UNCHANGED <<RA_template, scheduler>>
      BY <1>7, Msg4Effect
    <2>3. Fetched'
      BY <2>2, FetchedStays
    <2> QED BY <1>7, <2>1, <2>3, Msg4Effect, RaParts DEF RaTypes, RaShapes
  <1>8. ASSUME ScheduleStep PROVE RaTypes'
    <2>0. ScheduleQuiet
      BY <1>8, ScheduleEffect
    <2>1. ASSUME NEW i \in Templates PROVE TemplateInUse(RA_template'[i])
      <3>1. TemplateTurn(RA_template[i], RA_template'[i]) /\ TemplateInUse(RA_template[i])
        BY <2>0, RaParts DEF ScheduleQuiet
      <3>2. RA_template[i] \in TemplateRecords /\ RA_template'[i] \in TemplateRecords
        BY <2>0, RaParts DEF ScheduleQuiet
      <3> QED BY <3>1, <3>2, RaFields DEF TemplateTurn, TemplateInUse
    <2>2. ASSUME NEW s \in Slots PROVE SlotInUse(UE_stats'[s])
      <3>1. SlotTurn(UE_stats[s], UE_stats'[s]) /\ SlotInUse(UE_stats[s])
        BY <2>0, RaParts DEF ScheduleQuiet
      <3> QED BY <3>1 DEF SlotTurn, SlotInUse
    <2>3. RA_template' \in [Templates -> TemplateRecords] /\ UE_stats' \in [Slots -> SlotRecords]
      BY <2>0 DEF ScheduleQuiet
    <2> QED BY <1>8, <2>1, <2>2, <2>3, ScheduleEffect, RaParts DEF RaTypes, RaShapes
  <1>9. ASSUME DecodeCcch PROVE RaTypes'
    <2>1. ccch' \in Seq(CcchRecords)
      <3>1. ccch # <<>> /\ ccch' = Tail(ccch)
        BY <1>9, DecodeEffect
      <3>2. ccch \in Seq(CcchRecords)
        BY RaParts
      <3> QED BY <3>1, <3>2
    <2>2. UNCHANGED <<RA_template, scheduler>>
      BY <1>9, DecodeEffect
    <2>3. Fetched'
      BY <2>2, FetchedStays
    <2> QED BY <1>9, <2>1, <2>3, DecodeEffect, RaParts DEF RaTypes, RaShapes
  <1>10. ASSUME RemoveStep PROVE RaTypes'
    <2>1. /\ RA_template' \in [Templates -> TemplateRecords]
          /\ \A i \in Templates : TemplateInUse(RA_template'[i])
          /\ Fetched'
      <3>1. scheduler' = scheduler
        BY <1>10, RemoveStepTypes
      <3>2. \A i \in Templates : Undecided(RA_template[i]) => Undecided(RA_template'[i])
        BY <1>10, RemoveStepTypes, CancelKeepsTypes
      <3>3. Fetched'
        BY <3>1, <3>2, FetchedStays
      <3> QED BY <1>10, <3>3, RemoveStepTypes, CancelKeepsTypes, RaParts
    <2>2. /\ UE_stats' \in [Slots -> SlotRecords]
          /\ \A s \in Slots : SlotInUse(UE_stats'[s])
      BY <1>10, RemoveStepTypes, RemoveKeepsTypes, RaParts
    <2> QED BY <1>10, <2>1, <2>2, RemoveStepTypes, RaParts DEF RaTypes, RaShapes
  <1>11. ASSUME NEW r \in Rntis, ReleaseTimerExpires(r) PROVE RaTypes'
    <2>1. /\ RA_template' \in [Templates -> TemplateRecords]
          /\ \A i \in Templates : TemplateInUse(RA_template'[i])
          /\ Fetched'
      <3>1. scheduler' = scheduler
        BY <1>11, ReleaseEffect
      <3>2. \A i \in Templates : Undecided(RA_template[i]) => Undecided(RA_template'[i])
        BY <1>11, ReleaseEffect, CancelKeepsTypes
      <3>3. Fetched'
        BY <3>1, <3>2, FetchedStays
      <3> QED BY <1>11, <3>3, ReleaseEffect, CancelKeepsTypes, RaParts
    <2>2. /\ UE_stats' \in [Slots -> SlotRecords]
          /\ \A s \in Slots : SlotInUse(UE_stats'[s])
      BY <1>11, ReleaseEffect, RemoveKeepsTypes, RaParts
    <2>3. UE_list' \in SUBSET Rntis
      BY <1>11, ReleaseEffect, RaParts
    <2> QED BY <1>11, <2>1, <2>2, <2>3, ReleaseEffect, RaParts DEF RaTypes, RaShapes
  <1>12. ASSUME NEW r \in Rntis, Msg3Unheard(r) PROVE RaTypes'
    <2>1. UNCHANGED <<RA_template, scheduler>>
      BY <1>12, UnheardEffect DEF enbVars
    <2>2. Fetched'
      BY <2>1, FetchedStays
    <2> QED BY <1>12, <2>2, UnheardEffect, UesStepTypes, RaParts DEF RaTypes, RaShapes, enbVars
  <1>13. CASE UNCHANGED raVars
    BY <1>13 DEF raVars, enbVars, RaTypes, RaShapes, Fetched
  <1> QED BY <1>1, <1>2, <1>3, <1>4, <1>5, <1>6, <1>7, <1>8, <1>9, <1>10, <1>11, <1>12, <1>13 DEF RaNext

\* The types are those of RaTypeOK.
LEMMA RaTypesImply == RaTypes => RaTypeOK
  BY DEF RaTypes, RaShapes, RaTypeOK, UeRecords, TemplateRecords, SlotRecords, Msg4Pdus, MaybeRntis, Ids,
         CcchRecords, ContextRecords, RemovingRecords, SchedulerRecords, SlotInUse

\* The types of all variables, with or without colliding RNTIs; that a Msg3 never goes past
\* maxHARQ_Msg3Tx rounds and a slot transmits only for a UE are part of them.
THEOREM RaTypeCorrect == RaSpec => []RaTypeOK
  <1>1. RaInit => RaTypes
    BY RaTypesInit
  <1>2. RaTypes /\ [RaNext]_raVars => RaTypes'
    BY RaTypesNext
  <1>3. RaTypes => RaTypeOK
    BY RaTypesImply
  <1> QED BY <1>1, <1>2, <1>3, PTL DEF RaSpec

-----------------------------------------------------------------------------
(***************************************************************************)
(* The tables of MAC, PHY and RRC, when initiate_ra_proc draws no RNTI     *)
(* that somebody still holds.                                              *)
(***************************************************************************)

\* An RNTI has one template.
OneTemplate ==
    \A i, j \in Templates : RA_template[i].rnti # 0 /\ RA_template[i].rnti = RA_template[j].rnti => i = j

\* The RRC task is taking r out of UE_list or of PHY's table.
Removing(r) == removing.rnti = r /\ removing.at \in {"mac", "phy_ra"}
\* Neither UE_list nor RRC knows r; UE_list does, RRC will.
Fresh(r) == r \notin UE_list /\ context[r] = NoContext /\ ~Removing(r)
Waiting(r) == r \in UE_list /\ context[r] = NoContext /\ ~Removing(r)

\* A slot that waits for Msg3, a template that waits for its RAR, and a CCCH message on its
\* way to the RRC task are those of an RNTI the rest of the eNB does not know yet.
ArmedFresh == \A s \in Slots : UE_stats[s].msg3 => UE_stats[s].crnti # 0 /\ Fresh(UE_stats[s].crnti)
RarFresh ==
    \A i \in Templates :
        RA_template[i].rar => /\ Fresh(RA_template[i].rnti)
                              /\ \A s \in Slots : UE_stats[s].crnti # RA_template[i].rnti
CcchWaiting == \A k \in 1 .. Len(ccch) : Waiting(ccch[k].rnti)
CcchOnce == \A j, k \in 1 .. Len(ccch) : ccch[j].rnti = ccch[k].rnti => j = k

\* A UE the RRC task removes has a slot until PHY is told and never a context.
RemovingKnown ==
    /\ removing.at # "phy"
    /\ removing.at = "idle" => removing.rnti = 0
    /\ removing.at \in {"mac", "phy_ra"} =>
          /\ removing.rnti \in Rntis /\ context[removing.rnti] = NoContext
          /\ \E s \in Slots : UE_stats[s].crnti = removing.rnti
    /\ removing.at = "phy_ra" => removing.rnti \notin UE_list

\* The procedure of an RNTI that has had its Msg4 is over.
Over(r) ==
    /\ r # 0
    /\ \A i \in Templates : RA_template[i].rnti = r => ~RA_template[i].active /\ ~RA_template[i].rar
SentMsg4 == \A s \in Slots : UE_stats[s].pdu.cr # NoRequest => Over(UE_stats[s].crnti)
\* The Msg4 of the RNTI of a connected UE was for that UE.
Own(u, r) ==
    \A s \in Slots :
        UE_stats[s].crnti = r => UE_stats[s].pdu.cr # NoRequest /\ UE_stats[s].pdu.cr[1] = u
Connected == \A u \in UEs : ue[u].mode = "PUSCH" => Over(ue[u].crnti) /\ Own(u, ue[u].crnti)

\* The inductive invariant: types, what the tables of MAC and the UEs know of each
\* other, and who still knows an RNTI while RRC adds and removes UEs.
TablesInv == OneSlotPerRnti /\ OneTemplate /\ SentMsg4 /\ Connected /\ ContentionResolved
KnownInv == ArmedFresh /\ RarFresh /\ CcchWaiting /\ CcchOnce /\ RemovingKnown /\ MacUesInPhy
RaInv == RaTypes /\ TablesInv /\ KnownInv

\* What most steps do to a template: nothing, or it comes nearer to its end.
TemplateKeeps(t, x) ==
    /\ x.rnti = t.rnti \/ x.rnti = 0
    /\ x.rar => t.rar /\ x.rnti = t.rnti
    /\ x.active => t.active /\ x.rnti = t.rnti
\* ... and to a slot.
SlotKeeps(y, z) == z = FreeSlot \/ (z.crnti = y.crnti /\ (z.msg3 => y.msg3))
NewMsg4Only(s) ==
    \/ UE_stats'[s].pdu = UE_stats[s].pdu
    \/ UE_stats'[s] = FreeSlot
    \/ \E j \in Templates : /\ RA_template[j].rnti = UE_stats[s].crnti
                            /\ RA_template[j].active /\ ~RA_template'[j].active
                            /\ RA_template'[j].rnti = RA_template[j].rnti /\ ~RA_template'[j].rar

QuietStep ==
    /\ UesStep
    /\ \A i \in Templates : TemplateKeeps(RA_template[i], RA_template'[i])
    /\ \A s \in Slots : SlotKeeps(UE_stats[s], UE_stats'[s]) /\ NewMsg4Only(s)

\* Steps that start no procedure, arm no slot and connect no UE.
LEMMA QuietTables ==
    ASSUME RaTypes, TablesInv, QuietStep
    PROVE  TablesInv'
  <1>1. OneSlotPerRnti'
    <2>1. \A s \in Slots : UE_stats'[s].crnti # 0 => UE_stats'[s].crnti = UE_stats[s].crnti
      BY FreeSlotType DEF QuietStep, SlotKeeps
    <2> QED BY <2>1 DEF OneSlotPerRnti, TablesInv
  <1>2. OneTemplate'
    <2>1. \A i \in Templates : RA_template'[i].rnti # 0 => RA_template'[i].rnti = RA_template[i].rnti
      BY DEF QuietStep, TemplateKeeps
    <2> QED BY <2>1 DEF OneTemplate, TablesInv
  <1>3. ASSUME NEW r, Over(r) PROVE Over(r)'
    <2>1. \A i \in Templates :
             /\ RA_template'[i].active => RA_template[i].active /\ RA_template'[i].rnti = RA_template[i].rnti
             /\ RA_template'[i].rar => RA_template[i].rar /\ RA_template'[i].rnti = RA_template[i].rnti
      BY DEF QuietStep, TemplateKeeps
    <2> QED BY <1>3, <2>1 DEF Over
  <1>4. ASSUME NEW s \in Slots, UE_stats'[s].pdu.cr # NoRequest, NEW r, r = UE_stats'[s].crnti
        PROVE  Over(r)'
    <2>1. UE_stats'[s] # FreeSlot
      BY <1>4, FreeSlotType
    <2>2. UE_stats'[s].crnti = UE_stats[s].crnti
      BY <2>1 DEF QuietStep, SlotKeeps
    <2>3. CASE UE_stats'[s].pdu = UE_stats[s].pdu
      BY <1>3, <1>4, <2>2, <2>3 DEF TablesInv, SentMsg4
    <2>4. CASE UE_stats'[s].pdu # UE_stats[s].pdu
      <3>1. PICK j \in Templates : /\ RA_template[j].rnti = UE_stats[s].crnti
                                   /\ RA_template[j].active /\ ~RA_template'[j].active
                                   /\ RA_template'[j].rnti = RA_template[j].rnti /\ ~RA_template'[j].rar
        BY <2>1, <2>4 DEF QuietStep, NewMsg4Only
      <3>2. RA_template'[j].rnti # 0
        BY <3>1, RaParts DEF TemplateInUse
      <3>3. \A i \in Templates : RA_template'[i].rnti = RA_template'[j].rnti => i = j
        BY <1>2, <3>2 DEF OneTemplate
      <3> QED BY <1>4, <2>2, <3>1, <3>2, <3>3 DEF Over
    <2> QED BY <2>3, <2>4
  <1>5. SentMsg4'
    BY <1>4 DEF SentMsg4, Over
  <1>6. ASSUME NEW u \in UEs, ue'[u].mode = "PUSCH", NEW r, r = ue'[u].crnti
        PROVE  Over(r)' /\ Own(u, r)'
    <2>1. ue[u].mode = "PUSCH" /\ ue[u].crnti = r
      BY <1>6 DEF QuietStep, UesStep, UeStep
    <2>2. Over(r) /\ Own(u, r)
      BY <2>1 DEF TablesInv, Connected
    <2>3. ASSUME NEW s \in Slots, UE_stats'[s].crnti = r
          PROVE  UE_stats'[s].pdu.cr # NoRequest /\ UE_stats'[s].pdu.cr[1] = u
      <3>1. UE_stats'[s] # FreeSlot
        BY <2>2, <2>3, FreeSlotType DEF Over
      <3>2. UE_stats[s].crnti = r
        BY <2>3, <3>1 DEF QuietStep, SlotKeeps
      <3>3. UE_stats'[s].pdu = UE_stats[s].pdu
        BY <2>2, <3>1, <3>2 DEF QuietStep, NewMsg4Only, Over
      <3> QED BY <2>2, <3>2, <3>3 DEF Own
    <2>4. Over(r)'
      BY <1>3, <2>2
    <2> QED BY <2>3, <2>4 DEF Own
  <1>7. Connected'
    BY <1>6 DEF Connected, Over, Own
  <1>8. ContentionResolved'
    <2>1. \A u \in UEs : ue'[u].mode = "PUSCH" => ue[u].mode = "PUSCH" /\ ue'[u].crnti = ue[u].crnti
      BY DEF QuietStep, UesStep, UeStep
    <2> QED BY <2>1 DEF TablesInv, ContentionResolved
  <1> QED BY <1>1, <1>2, <1>5, <1>7, <1>8 DEF TablesInv

\* What nobody holds.
LEMMA NotInUse ==
    ASSUME NEW r, ~InUse(r)
    PROVE  /\ \A u \in UEs : ue[u].crnti # r
           /\ \A i \in Templates : RA_template[i].rnti # r
           /\ \A s \in Slots : UE_stats[s].crnti # r
           /\ context[r] = NoContext
  BY DEF InUse, SlotsOf

\* The messages to the RRC task are about RNTIs.
LEMMA CcchRntis == ASSUME RaTypes PROVE \A k \in 1 .. Len(ccch) : ccch[k].rnti \in Rntis
  <1>1. ccch \in Seq(CcchRecords)
    BY RaParts
  <1>2. \A k \in 1 .. Len(ccch) : ccch[k] \in CcchRecords
    BY <1>1
  <1> QED BY <1>2 DEF CcchRecords

\* A step that changes none of what they speak of keeps what the tables know of each other.
LEMMA KnownStays ==
    ASSUME KnownInv, UNCHANGED <<RA_template, UE_list, UE_stats, ccch, context, removing, aborted>>
    PROVE  KnownInv'
  BY DEF KnownInv, ArmedFresh, RarFresh, CcchWaiting, CcchOnce, RemovingKnown, MacUesInPhy,
         Fresh, Waiting, Removing, SlotsOf

\* Templates and slots that stay are quiet.
LEMMA StaysQuiet ==
    /\ RA_template' = RA_template => \A i \in Templates : TemplateKeeps(RA_template[i], RA_template'[i])
    /\ UE_stats' = UE_stats =>
          \A s \in Slots : SlotKeeps(UE_stats[s], UE_stats'[s]) /\ NewMsg4Only(s)
  BY DEF TemplateKeeps, SlotKeeps, NewMsg4Only

\* A preamble: a new template with an RNTI nobody holds.
LEMMA PrachKeeps ==
    ASSUME RaInv, ~RntiCollisions, NEW p \in Preambles, NEW S, PrachSubframe(p, S)
    PROVE  TablesInv' /\ KnownInv'
  <1> USE DEF RaInv
  <1>1. /\ UesStep /\ \A u \in UEs : ue'[u].crnti = ue[u].crnti
        /\ UNCHANGED <<UE_list, configured, rarDci, UE_stats, ccch, context, Srb0, removing, aborted>>
    BY PrachEffect
  <1>2. CASE RA_template' = RA_template
    <2>1. QuietStep
      BY <1>1, <1>2, StaysQuiet DEF QuietStep
    <2> QED BY <1>1, <1>2, <2>1, QuietTables, KnownStays
  <1>3. CASE RA_template' # RA_template
    <2>1. PICK i \in Templates, r \in Rntis :
                    /\ r \notin UE_list /\ (RntiCollisions \/ ~InUse(r))
                    /\ RA_template' \in [Templates -> TemplateRecords]
                    /\ \A j \in Templates : j # i => RA_template'[j] = RA_template[j]
                    /\ RA_template'[i].rnti = r /\ RA_template'[i].active /\ RA_template'[i].rar
                    /\ ~RA_template'[i].msg4 /\ ~RA_template'[i].ack
      BY <1>3, PrachEffect
    <2>2. /\ \A u \in UEs : ue[u].crnti # r
          /\ \A j \in Templates : RA_template[j].rnti # r
          /\ \A s \in Slots : UE_stats[s].crnti # r
          /\ context[r] = NoContext
      BY <2>1, NotInUse
    <2>3. OneSlotPerRnti'
      BY <1>1 DEF TablesInv, OneSlotPerRnti
    <2>4. OneTemplate'
      BY <2>1, <2>2 DEF TablesInv, OneTemplate
    <2>5. ASSUME NEW c, c # r, Over(c) PROVE Over(c)'
      BY <2>1, <2>5 DEF Over
    <2>6. SentMsg4'
      <3>1. \A s \in Slots : UE_stats'[s] = UE_stats[s] /\ UE_stats[s].crnti # r
        BY <1>1, <2>2
      <3> QED BY <2>5, <3>1 DEF TablesInv, SentMsg4, Over
    <2>7. ASSUME NEW u \in UEs, ue'[u].mode = "PUSCH", NEW c, c = ue'[u].crnti
          PROVE  Over(c)' /\ Own(u, c)'
      <3>1. ue[u].mode = "PUSCH" /\ ue[u].crnti = c /\ c # r
        BY <1>1, <2>2, <2>7 DEF UesStep, UeStep
      <3>2. Over(c) /\ Own(u, c)
        BY <3>1 DEF TablesInv, Connected
      <3>3. Own(u, c)'
        BY <1>1, <3>2 DEF Own
      <3> QED BY <2>5, <3>1, <3>2, <3>3
    <2>8. Connected'
      BY <2>7 DEF Connected, Over, Own
    <2>9. ContentionResolved'
      <3>1. \A u \in UEs : ue'[u].mode = "PUSCH" => ue[u].mode = "PUSCH" /\ ue'[u].crnti = ue[u].crnti
        BY <1>1 DEF UesStep, UeStep
      <3> QED BY <3>1 DEF TablesInv, ContentionResolved
    <2>10. ArmedFresh' /\ CcchWaiting' /\ CcchOnce' /\ RemovingKnown' /\ MacUesInPhy'
      BY <1>1 DEF KnownInv, ArmedFresh, CcchWaiting, CcchOnce, RemovingKnown, MacUesInPhy,
                  Fresh, Waiting, Removing, SlotsOf
    <2>11. Fresh(r)
      BY <2>1, <2>2 DEF KnownInv, RemovingKnown, Fresh, Removing
    <2>12. ASSUME NEW c, Fresh(c) PROVE Fresh(c)'
      BY <1>1, <2>12 DEF Fresh, Removing
    <2>13. ASSUME NEW j \in Templates, RA_template'[j].rar, NEW c, c = RA_template'[j].rnti
           PROVE  Fresh(c)' /\ \A s \in Slots : UE_stats'[s].crnti # c
      <3>1. CASE j = i
        BY <1>1, <2>1, <2>2, <2>11, <2>12, <2>13, <3>1
      <3>2. CASE j # i
        BY <1>1, <2>1, <2>12, <2>13, <3>2 DEF KnownInv, RarFresh
      <3> QED BY <3>1, <3>2
    <2>14. RarFresh'
      BY <2>13 DEF RarFresh, Fresh, Removing
    <2> QED BY <2>3, <2>4, <2>6, <2>8, <2>9, <2>10, <2>14 DEF TablesInv, KnownInv
  <1> QED BY <1>2, <1>3

\* A UE's timers.
LEMMA TimerKeeps ==
    ASSUME RaInv, NEW u \in UEs, ContentionTimerExpires(u) \/ T300Expires(u)
    PROVE  TablesInv' /\ KnownInv'
  <1>1. UesStep /\ UNCHANGED <<RA_template, UE_list, UE_stats, ccch, context, removing, aborted>>
    BY TimerEffect DEF RaInv, enbVars
  <1>2. QuietStep
    BY <1>1, StaysQuiet DEF QuietStep
  <1> QED BY <1>1, <1>2, QuietTables, KnownStays DEF RaInv

\* Msg4 and its feedback: the one place where a UE connects.
LEMMA Msg4Keeps ==
    ASSUME RaInv, NEW s \in Slots, Msg4Feedback(s)
    PROVE  TablesInv' /\ KnownInv'
  <1> USE DEF RaInv
  <1>1. /\ UNCHANGED <<RA_template, UE_list, ccch, context, removing, aborted>>
        /\ \A x \in Slots : /\ UE_stats'[x].crnti = UE_stats[x].crnti
                            /\ UE_stats'[x].msg3 = UE_stats[x].msg3
                            /\ UE_stats'[x].pdu = UE_stats[x].pdu
    BY Msg4Effect
  <1>2. ASSUME NEW u \in UEs
        PROVE  \/ UeStep(ue[u], ue'[u])
               \/ /\ ue'[u].crnti = UE_stats[s].crnti
                  /\ UE_stats[s].pdu.cr \in Requests /\ UE_stats[s].pdu.cr[1] = u
    BY Msg4Effect
  <1>3. PICK r : r = UE_stats[s].crnti
    OBVIOUS
  <1>4. r # 0
    <2>1. UE_stats[s].dl /\ SlotInUse(UE_stats[s])
      BY Msg4Effect, RaParts
    <2> QED BY <1>3, <2>1 DEF SlotInUse
  <1>5. NoRequest \notin Requests
    <2>1. ASSUME NEW q \in Requests PROVE q # <<>>
      BY DEF Requests
    <2> QED BY <2>1 DEF NoRequest
  <1>6. ASSUME NEW u \in UEs, ue'[u].mode = "PUSCH", NEW c, c = ue'[u].crnti
        PROVE  /\ Over(c) /\ Own(u, c)
               /\ (ue[u].mode = "PUSCH" /\ ue[u].crnti = c) \/ (c = r /\ Own(u, r))
    <2>1. CASE UeStep(ue[u], ue'[u])
      <3>1. ue[u].mode = "PUSCH" /\ ue[u].crnti = c
        BY <1>6, <2>1 DEF UeStep
      <3> QED BY <3>1 DEF TablesInv, Connected
    <2>2. CASE c = r /\ UE_stats[s].pdu.cr \in Requests /\ UE_stats[s].pdu.cr[1] = u
      <3>1. Over(r)
        BY <1>3, <1>5, <2>2 DEF TablesInv, SentMsg4
      <3>2. \A x \in Slots : UE_stats[x].crnti = r => x = s
        BY <1>3, <1>4 DEF TablesInv, OneSlotPerRnti
      <3>3. Own(u, r)
        BY <1>5, <2>2, <3>2 DEF Own
      <3> QED BY <2>2, <3>1, <3>3
    <2> QED BY <1>2, <1>3, <1>6, <2>1, <2>2
  <1>7. OneSlotPerRnti' /\ OneTemplate' /\ SentMsg4'
    BY <1>1 DEF TablesInv, OneSlotPerRnti, OneTemplate, SentMsg4, Over
  <1>8. Connected'
    BY <1>1, <1>6 DEF Connected, Over, Own
  <1>9. ASSUME NEW u \in UEs, NEW v \in UEs, u # v, ue'[u].mode = "PUSCH", ue'[v].mode = "PUSCH"
        PROVE  ue'[u].crnti # ue'[v].crnti
    <2>1. ASSUME NEW c, c = ue'[u].crnti, c = ue'[v].crnti PROVE FALSE
      <3>1. Own(u, c) /\ Own(v, c)
        BY <1>6, <1>9, <2>1
      <3>2. CASE c = r
        BY <1>3, <1>9, <3>1, <3>2 DEF Own
      <3>3. CASE c # r
        <4>1. ue[u].mode = "PUSCH" /\ ue[u].crnti = c /\ ue[v].mode = "PUSCH" /\ ue[v].crnti = c
          BY <1>6, <1>9, <2>1, <3>3
        <4> QED BY <1>9, <4>1 DEF TablesInv, ContentionResolved
      <3> QED BY <3>2, <3>3
    <2> QED BY <2>1
  <1>10. ContentionResolved'
    BY <1>9 DEF ContentionResolved
  <1>11. KnownInv'
    <2>1. ArmedFresh' /\ RarFresh' /\ RemovingKnown'
      BY <1>1 DEF KnownInv, ArmedFresh, RarFresh, RemovingKnown, Fresh, Removing
    <2>2. CcchWaiting' /\ CcchOnce'
      BY <1>1 DEF KnownInv, CcchWaiting, CcchOnce, Waiting, Removing
    <2>3. MacUesInPhy'
      BY <1>1 DEF KnownInv, MacUesInPhy, SlotsOf
    <2> QED BY <2>1, <2>2, <2>3 DEF KnownInv
  <1> QED BY <1>7, <1>8, <1>10, <1>11 DEF TablesInv

\* cancel_ra_proc is quiet.
LEMMA CancelQuiet ==
    ASSUME RaTypes, NEW r, RA_template' = CancelRaProc(RA_template, r)
    PROVE  /\ \A i \in Templates : TemplateKeeps(RA_template[i], RA_template'[i])
           /\ \A i \in Templates : RA_template'[i].ack \/ RA_template'[i].active =>
                                      RA_template'[i] = RA_template[i] /\ RA_template[i].rnti # r
  <1>1. RA_template \in [Templates -> TemplateRecords]
    BY RaParts
  <1>2. ASSUME NEW i \in Templates
        PROVE  /\ TemplateKeeps(RA_template[i], RA_template'[i])
               /\ RA_template'[i].ack \/ RA_template'[i].active =>
                     RA_template'[i] = RA_template[i] /\ RA_template[i].rnti # r
    <2>1. CASE RA_template[i].rnti # r
      <3>1. RA_template'[i] = RA_template[i]
        BY <1>1, <2>1, CancelEffect
      <3> QED BY <2>1, <3>1 DEF TemplateKeeps
    <2>2. CASE RA_template[i].rnti = r
      BY <1>1, <2>2, CancelEffect DEF TemplateKeeps
    <2> QED BY <2>1, <2>2
  <1> QED BY <1>2

\* mac_phy_remove_ue is quiet, and all slots of the RNTI are free after it.
LEMMA RemoveQuiet ==
    ASSUME RaTypes, OneSlotPerRnti, NEW r \in Rntis, UE_stats' = MacPhyRemoveUe(UE_stats, r)
    PROVE  /\ \A s \in Slots : SlotKeeps(UE_stats[s], UE_stats'[s]) /\ NewMsg4Only(s)
           /\ \A s \in Slots : IF UE_stats[s].crnti = r THEN UE_stats'[s] = FreeSlot
                               ELSE UE_stats'[s] = UE_stats[s]
  <1>1. UE_stats \in [Slots -> SlotRecords] /\ r # 0
    BY RaParts, RaFields
  <1>2. \A s, x \in Slots : UE_stats[s].crnti = r /\ UE_stats[x].crnti = r => s = x
    BY <1>1 DEF OneSlotPerRnti
  <1>3. \A s \in Slots : IF UE_stats[s].crnti = r THEN UE_stats'[s] = FreeSlot
                         ELSE UE_stats'[s] = UE_stats[s]
    BY <1>1, <1>2, RemoveEffect
  <1> QED BY <1>3 DEF SlotKeeps, NewMsg4Only

\* What is on its way to a slot or to Msg3 stays unknown to the rest, if it was and if no
\* RNTI on that way becomes known.
LEMMA QuietFresh ==
    ASSUME RaTypes, KnownInv, QuietStep,
           \A r \in Rntis : Fresh(r) => \/ Fresh(r)'
                                        \/ /\ \A s \in Slots : UE_stats'[s].msg3 => UE_stats'[s].crnti # r
                                           /\ \A i \in Templates : RA_template[i].rar => RA_template[i].rnti # r
    PROVE  ArmedFresh' /\ RarFresh'
  <1>1. ASSUME NEW s \in Slots, UE_stats'[s].msg3, NEW r, r = UE_stats'[s].crnti
        PROVE  r # 0 /\ Fresh(r)'
    <2>1. UE_stats'[s] # FreeSlot
      BY <1>1, FreeSlotType
    <2>2. UE_stats[s].msg3 /\ UE_stats[s].crnti = r
      BY <1>1, <2>1 DEF QuietStep, SlotKeeps
    <2>3. Fresh(r) /\ r # 0
      BY <2>2 DEF KnownInv, ArmedFresh
    <2>4. r \in Rntis
      BY <2>2, <2>3, RaParts, RaFields
    <2> QED BY <1>1, <2>3, <2>4
  <1>2. ArmedFresh'
    BY <1>1 DEF ArmedFresh, Fresh, Removing
  <1>3. ASSUME NEW i \in Templates, RA_template'[i].rar, NEW r, r = RA_template'[i].rnti
        PROVE  Fresh(r)' /\ \A s \in Slots : UE_stats'[s].crnti # r
    <2>1. RA_template[i].rar /\ RA_template[i].rnti = r
      BY <1>3 DEF QuietStep, TemplateKeeps
    <2>2. r # 0 /\ r \in Rntis
      BY <2>1, RaParts, RaFields DEF TemplateInUse
    <2>3. Fresh(r) /\ \A s \in Slots : UE_stats[s].crnti # r
      BY <2>1 DEF KnownInv, RarFresh
    <2>4. Fresh(r)'
      BY <2>1, <2>2, <2>3
    <2>5. \A s \in Slots : UE_stats'[s].crnti # r
      BY <2>2, <2>3, FreeSlotType DEF QuietStep, SlotKeeps
    <2> QED BY <2>4, <2>5
  <1>4. RarFresh'
    BY <1>3 DEF RarFresh, Fresh, Removing
  <1> QED BY <1>2, <1>4

\* The RAR is sent: its template gets a slot, or is cancelled.
LEMMA RarKeeps ==
    ASSUME RaInv, SendRar
    PROVE  TablesInv' /\ KnownInv'
  <1> USE DEF RaInv
  <1>1. UesStep /\ UNCHANGED <<UE_list, ccch, context, removing, aborted>>
    BY RarEffect
  <1>2. ASSUME NEW c PROVE (Fresh(c) => Fresh(c)') /\ (Waiting(c) => Waiting(c)')
    BY <1>1 DEF Fresh, Waiting, Removing
  <1>4. ASSUME NEW r, RA_template' = CancelRaProc(RA_template, r), UE_stats' = UE_stats
        PROVE  TablesInv' /\ KnownInv'
    <2>1. QuietStep
      BY <1>1, <1>4, StaysQuiet, CancelQuiet DEF QuietStep
    <2>2. TablesInv'
      BY <2>1, QuietTables
    <2>3. ArmedFresh' /\ RarFresh'
      BY <1>2, <2>1, QuietFresh
    <2>5. CcchWaiting' /\ CcchOnce' /\ RemovingKnown' /\ MacUesInPhy'
      BY <1>1, <1>4 DEF KnownInv, CcchWaiting, CcchOnce, RemovingKnown, MacUesInPhy, Waiting,
                        Removing, SlotsOf
    <2> QED BY <2>2, <2>3, <2>5 DEF KnownInv
  <1>5. ASSUME NEW i \in Templates, NEW x \in Slots,
               RA_template[i].rar, UE_stats[x].crnti = 0,
               \A j \in Templates : j # i => RA_template'[j] = RA_template[j],
               RA_template'[i].rnti = RA_template[i].rnti, ~RA_template'[i].rar,
               RA_template'[i].active = RA_template[i].active,
               RA_template'[i].msg4 = RA_template[i].msg4, RA_template'[i].ack = RA_template[i].ack,
               \A s \in Slots : s # x => UE_stats'[s] = UE_stats[s],
               UE_stats'[x].crnti = RA_template[i].rnti, UE_stats'[x].msg3,
               UE_stats'[x].pdu.cr = NoRequest
        PROVE  TablesInv' /\ KnownInv'
    <2>1. PICK r : r = RA_template[i].rnti
      OBVIOUS
    <2>2. r # 0
      BY <1>5, <2>1, RaParts DEF TemplateInUse
    <2>3. Fresh(r) /\ \A s \in Slots : UE_stats[s].crnti # r
      BY <1>5, <2>1 DEF KnownInv, RarFresh
    <2>4. \A j \in Templates : RA_template'[j].rnti = RA_template[j].rnti
                               /\ RA_template'[j].active = RA_template[j].active
                               /\ RA_template'[j].msg4 = RA_template[j].msg4
                               /\ RA_template'[j].ack = RA_template[j].ack
                               /\ (RA_template'[j].rar => RA_template[j].rar)
      BY <1>5
    <2>5. OneSlotPerRnti'
      BY <1>5, <2>1, <2>3 DEF TablesInv, OneSlotPerRnti
    <2>6. OneTemplate'
      BY <2>4 DEF TablesInv, OneTemplate
    <2>7. SentMsg4'
      BY <1>5, <2>4 DEF TablesInv, SentMsg4, Over
    <2>8. ASSUME NEW u \in UEs, ue'[u].mode = "PUSCH", NEW c, c = ue'[u].crnti
          PROVE  Over(c)' /\ Own(u, c)'
      <3>1. ue[u].mode = "PUSCH" /\ ue[u].crnti = c
        BY <1>1, <2>8 DEF UesStep, UeStep
      <3>2. Over(c) /\ Own(u, c)
        BY <3>1 DEF TablesInv, Connected
      <3>3. c # r
        BY <1>5, <2>1, <2>2, <3>2 DEF Over
      <3>4. Own(u, c)'
        BY <1>5, <2>1, <3>2, <3>3 DEF Own
      <3>5. Over(c)'
        BY <2>4, <3>2 DEF Over
      <3> QED BY <3>4, <3>5
    <2>9. Connected'
      BY <2>8 DEF Connected, Over, Own
    <2>10. ContentionResolved'
      <3>1. \A u \in UEs : ue'[u].mode = "PUSCH" => ue[u].mode = "PUSCH" /\ ue'[u].crnti = ue[u].crnti
        BY <1>1 DEF UesStep, UeStep
      <3> QED BY <3>1 DEF TablesInv, ContentionResolved
    <2>11. ASSUME NEW s \in Slots, UE_stats'[s].msg3, NEW c, c = UE_stats'[s].crnti
           PROVE  c # 0 /\ Fresh(c)'
      BY <1>2, <1>5, <2>1, <2>2, <2>3, <2>11 DEF KnownInv, ArmedFresh
    <2>12. ArmedFresh'
      BY <2>11 DEF ArmedFresh, Fresh, Removing
    <2>13. ASSUME NEW j \in Templates, RA_template'[j].rar, NEW c, c = RA_template'[j].rnti
           PROVE  Fresh(c)' /\ \A s \in Slots : UE_stats'[s].crnti # c
      <3>1. j # i /\ RA_template[j].rar /\ RA_template[j].rnti = c
        BY <1>5, <2>13
      <3>2. c # r
        BY <2>1, <2>2, <3>1 DEF TablesInv, OneTemplate
      <3>3. Fresh(c) /\ \A s \in Slots : UE_stats[s].crnti # c
        BY <3>1 DEF KnownInv, RarFresh
      <3> QED BY <1>2, <1>5, <2>1, <3>2, <3>3
    <2>14. RarFresh'
      BY <2>13 DEF RarFresh, Fresh, Removing
    <2>16. CcchWaiting' /\ CcchOnce'
      BY <1>1 DEF KnownInv, CcchWaiting, CcchOnce, Waiting, Removing
    <2>17. ASSUME NEW c, c # 0, NEW s \in Slots, UE_stats[s].crnti = c PROVE UE_stats'[s].crnti = c
      BY <1>5, <2>17
    <2>18. RemovingKnown'
      BY <1>1, <2>17, RaFields DEF KnownInv, RemovingKnown
    <2>19. MacUesInPhy'
      <3>1. ASSUME NEW c \in UE_list PROVE \E y \in Slots : UE_stats'[y].crnti = c
        <4>1. c # 0
          BY RaParts, RaFields
        <4>2. PICK y \in Slots : UE_stats[y].crnti = c
          BY DEF KnownInv, MacUesInPhy, SlotsOf
        <4> QED BY <2>17, <4>1, <4>2
      <3> QED BY <1>1, <3>1 DEF MacUesInPhy, SlotsOf
    <2> QED BY <2>5, <2>6, <2>7, <2>9, <2>10, <2>12, <2>14, <2>16, <2>18, <2>19
            DEF TablesInv, KnownInv
  <1> QED BY <1>4, <1>5, RarEffect

\* Msg3 is not decoded.
LEMMA Msg3ErrorKeeps ==
    ASSUME RaInv, NEW s \in Slots, Msg3Error(s)
    PROVE  TablesInv' /\ KnownInv'
  <1> USE DEF RaInv
  <1>1. UesStep /\ UE_stats[s].msg3 /\ UNCHANGED <<UE_list, ccch, context, removing, aborted>>
    BY Msg3ErrorEffect
  <1>2. ASSUME NEW c PROVE (Fresh(c) => Fresh(c)') /\ (Waiting(c) => Waiting(c)')
    BY <1>1 DEF Fresh, Waiting, Removing
  <1>3. CcchWaiting' /\ CcchOnce'
    BY <1>1 DEF KnownInv, CcchWaiting, CcchOnce, Waiting, Removing
  <1>4. CASE /\ RA_template' = CancelRaProc(RA_template, UE_stats[s].crnti)
             /\ UE_stats' = MacPhyRemoveUe(UE_stats, UE_stats[s].crnti)
    <2>1. PICK r : r = UE_stats[s].crnti
      OBVIOUS
    <2>2. r # 0 /\ Fresh(r)
      BY <1>1, <2>1 DEF KnownInv, ArmedFresh
    <2>3. r \in Rntis
      BY <2>1, <2>2, RaParts, RaFields
    <2>4. /\ \A x \in Slots : SlotKeeps(UE_stats[x], UE_stats'[x]) /\ NewMsg4Only(x)
          /\ \A x \in Slots : UE_stats[x].crnti # r => UE_stats'[x] = UE_stats[x]
      BY <1>4, <2>1, <2>3, RemoveQuiet DEF TablesInv
    <2>5. QuietStep
      BY <1>1, <1>4, <2>4, CancelQuiet DEF QuietStep
    <2>6. TablesInv'
      BY <2>5, QuietTables
    <2>7. ArmedFresh' /\ RarFresh'
      BY <1>2, <2>5, QuietFresh
    <2>9. RemovingKnown'
      BY <1>1, <2>2, <2>4 DEF KnownInv, RemovingKnown, Fresh, Removing
    <2>10. MacUesInPhy'
      BY <1>1, <2>2, <2>4 DEF KnownInv, MacUesInPhy, SlotsOf, Fresh
    <2> QED BY <1>3, <2>6, <2>7, <2>9, <2>10 DEF KnownInv
  <1>5. CASE /\ RA_template' = RA_template
             /\ \A x \in Slots : x # s => UE_stats'[x] = UE_stats[x]
             /\ UE_stats'[s].crnti = UE_stats[s].crnti /\ UE_stats'[s].msg3 = UE_stats[s].msg3
             /\ UE_stats'[s].pdu = UE_stats[s].pdu
    <2>1. \A x \in Slots : /\ UE_stats'[x].crnti = UE_stats[x].crnti
                           /\ UE_stats'[x].msg3 = UE_stats[x].msg3
                           /\ UE_stats'[x].pdu = UE_stats[x].pdu
      BY <1>5
    <2>2. QuietStep
      BY <1>1, <1>5, <2>1, StaysQuiet DEF QuietStep, SlotKeeps, NewMsg4Only
    <2>3. TablesInv'
      BY <2>2, QuietTables
    <2>4. ArmedFresh' /\ RarFresh'
      BY <1>2, <2>2, QuietFresh
    <2>5. RemovingKnown'
      BY <1>1, <1>5, <2>1 DEF KnownInv, RemovingKnown
    <2>6. MacUesInPhy'
      BY <1>1, <2>1 DEF KnownInv, MacUesInPhy, SlotsOf
    <2> QED BY <1>3, <2>3, <2>4, <2>5, <2>6 DEF KnownInv
  <1> QED BY <1>4, <1>5, Msg3ErrorEffect

\* The templates of an RNTI that rx_sdu finds: none or one.
LEMMA OneActive ==
    ASSUME OneTemplate, NEW r, r # 0
    PROVE  ActiveOf(r) = {} \/ Cardinality(ActiveOf(r)) = 1
  <1>1. ASSUME NEW i \in ActiveOf(r) PROVE Cardinality(ActiveOf(r)) = 1
    <2>1. ActiveOf(r) = {i}
      BY <1>1 DEF ActiveOf, OneTemplate
    <2> QED BY <2>1, FS_Singleton
  <1> QED BY <1>1

\* Msg3 is decoded: its RNTI becomes known to UE_list, and to RRC by a message.
LEMMA Msg3ReceivedKeeps ==
    ASSUME RaInv, NEW s \in Slots, NEW u \in UEs, Msg3Received(s, u)
    PROVE  TablesInv' /\ KnownInv'
  <1> USE DEF RaInv
  <1>1. PICK r, mine : r = UE_stats[s].crnti /\ mine = ActiveOf(r)
    OBVIOUS
  <1>2. /\ UesStep /\ UE_stats[s].msg3 /\ context' = context /\ removing' = removing
        /\ \A x \in Slots : x # s => UE_stats'[x] = UE_stats[x]
        /\ UE_stats'[s].crnti = r /\ ~UE_stats'[s].msg3 /\ UE_stats'[s].pdu = UE_stats[s].pdu
        /\ \A i \in Templates : /\ i \notin mine => RA_template'[i] = RA_template[i]
                                /\ RA_template'[i].rnti = RA_template[i].rnti
                                /\ RA_template'[i].rar = RA_template[i].rar
                                /\ RA_template'[i].active = RA_template[i].active
        /\ UE_list' = IF mine = {} THEN UE_list ELSE UE_list \cup {r}
        /\ mine = {} => ccch' = ccch
        /\ Cardinality(mine) = 1 => \E m \in CcchRecords : m.rnti = r /\ ccch' = Append(ccch, m)
    BY <1>1, Msg3ReceivedEffect
  <1>3. ~aborted
    BY DEF Msg3Received
  <1>4. r # 0 /\ Fresh(r)
    BY <1>1, <1>2 DEF KnownInv, ArmedFresh
  <1>5. \A x \in Slots : UE_stats'[x].crnti = UE_stats[x].crnti
    BY <1>1, <1>2
  <1>6. QuietStep
    BY <1>1, <1>2, <1>5 DEF QuietStep, TemplateKeeps, SlotKeeps, NewMsg4Only
  <1>7. TablesInv'
    BY <1>6, QuietTables
  <1>8. ASSUME NEW c, Fresh(c), c # r PROVE Fresh(c)'
    BY <1>2, <1>8 DEF Fresh, Removing
  <1>9. /\ \A x \in Slots : UE_stats'[x].msg3 => UE_stats'[x].crnti # r
        /\ \A i \in Templates : RA_template[i].rar => RA_template[i].rnti # r
    <2>1. \A x \in Slots : UE_stats[x].crnti = r => x = s
      BY <1>1, <1>4 DEF TablesInv, OneSlotPerRnti
    <2>2. \A i \in Templates : RA_template[i].rar => RA_template[i].rnti # r
      BY <1>1 DEF KnownInv, RarFresh
    <2> QED BY <1>2, <2>1, <2>2
  <1>10. ArmedFresh' /\ RarFresh'
    BY <1>6, <1>8, <1>9, QuietFresh
  <1>11. RemovingKnown'
    BY <1>2, <1>4, <1>5 DEF KnownInv, RemovingKnown, Fresh, Removing
  <1>12. MacUesInPhy'
    <2>1. ASSUME NEW c \in UE_list' PROVE \E y \in Slots : UE_stats'[y].crnti = c
      BY <1>1, <1>2, <1>5 DEF KnownInv, MacUesInPhy, SlotsOf
    <2> QED BY <2>1 DEF MacUesInPhy, SlotsOf
  <1>14. CcchWaiting' /\ CcchOnce'
    <2>1. CASE mine = {}
      BY <1>2, <2>1 DEF KnownInv, CcchWaiting, CcchOnce, Waiting, Removing
    <2>2. CASE mine # {}
      <3>1. Cardinality(mine) = 1
        BY <1>1, <1>4, <2>2, OneActive DEF TablesInv
      <3>2. PICK m \in CcchRecords : m.rnti = r /\ ccch' = Append(ccch, m)
        BY <1>2, <3>1
      <3>3. ccch \in Seq(CcchRecords)
        BY RaParts
      <3>4. /\ Len(ccch') = Len(ccch) + 1 /\ Len(ccch) \in Nat
            /\ \A k \in 1 .. Len(ccch) : ccch'[k] = ccch[k]
            /\ ccch'[Len(ccch) + 1] = m
        BY <3>2, <3>3
      <3>5. ASSUME NEW c, Waiting(c) PROVE Waiting(c)'
        BY <1>2, <3>5 DEF Waiting, Removing
      <3>6. Waiting(r)'
        BY <1>2, <1>4, <2>2 DEF Waiting, Fresh, Removing
      <3>7. ASSUME NEW k \in 1 .. Len(ccch'), NEW c, c = ccch'[k].rnti PROVE Waiting(c)'
        <4>1. CASE k = Len(ccch) + 1
          BY <3>2, <3>4, <3>6, <3>7, <4>1
        <4>2. CASE k # Len(ccch) + 1
          <5>1. k \in 1 .. Len(ccch) /\ ccch[k].rnti = c
            BY <3>4, <3>7, <4>2
          <5>2. Waiting(c)
            BY <5>1 DEF KnownInv, CcchWaiting
          <5> QED BY <3>5, <5>2
        <4> QED BY <4>1, <4>2
      <3>8. CcchWaiting'
        BY <3>7 DEF CcchWaiting, Waiting, Removing
      <3>9. \A k \in 1 .. Len(ccch) : ccch[k].rnti # r
        BY <1>4 DEF KnownInv, CcchWaiting, Waiting, Fresh
      <3>10. CcchOnce'
        BY <3>2, <3>4, <3>9 DEF KnownInv, CcchOnce
      <3> QED BY <3>8, <3>10
    <2> QED BY <2>1, <2>2
  <1> QED BY <1>7, <1>10, <1>11, <1>12, <1>14 DEF KnownInv

\* A Msg3 nobody listens to.
LEMMA UnheardKeeps ==
    ASSUME RaInv, NEW r \in Rntis, Msg3Unheard(r)
    PROVE  TablesInv' /\ KnownInv'
  <1>1. UesStep /\ UNCHANGED <<RA_template, UE_list, UE_stats, ccch, context, removing, aborted>>
    BY UnheardEffect DEF RaInv, enbVars
  <1>2. QuietStep
    BY <1>1, StaysQuiet DEF QuietStep
  <1> QED BY <1>1, <1>2, QuietTables, KnownStays DEF RaInv

\* A step of schedule_RA.  The RNTI of a slot that gets a Msg4 waits for no RAR, so its procedure
\* is over.
LEMMA ScheduleKeeps ==
    ASSUME RaInv, ScheduleStep
    PROVE  TablesInv' /\ KnownInv'
  <1> USE DEF RaInv
  <1>1. /\ \A j \in Templates : TemplateTurn(RA_template[j], RA_template'[j])
        /\ \A s \in Slots : SlotTurn(UE_stats[s], UE_stats'[s]) /\ Msg4Of(s)
        /\ UNCHANGED <<ue, sent, UE_list, ccch, context, removing>>
    BY ScheduleEffect DEF ScheduleQuiet
  <1>3. UesStep
    BY <1>1, RaParts, UeStays DEF UesStep
  <1>4. \A i \in Templates : TemplateKeeps(RA_template[i], RA_template'[i])
    BY <1>1 DEF TemplateTurn, TemplateKeeps
  <1>5. \A i \in Templates : /\ RA_template'[i].rnti = RA_template[i].rnti
                             /\ RA_template'[i].rar = RA_template[i].rar
    BY <1>1 DEF TemplateTurn
  <1>6. \A s \in Slots : UE_stats'[s].crnti = UE_stats[s].crnti /\ UE_stats'[s].msg3 = UE_stats[s].msg3
    BY <1>1 DEF SlotTurn
  <1>7. ASSUME NEW s \in Slots PROVE SlotKeeps(UE_stats[s], UE_stats'[s]) /\ NewMsg4Only(s)
    <2>1. SlotKeeps(UE_stats[s], UE_stats'[s])
      BY <1>6 DEF SlotKeeps
    <2>2. CASE UE_stats'[s].pdu = UE_stats[s].pdu
      BY <2>1, <2>2 DEF NewMsg4Only
    <2>3. CASE \E j \in Templates : /\ RA_template[j].rnti = UE_stats[s].crnti
                                    /\ RA_template[j].active /\ ~RA_template'[j].active
      <3>1. PICK j \in Templates : /\ RA_template[j].rnti = UE_stats[s].crnti
                                   /\ RA_template[j].active /\ ~RA_template'[j].active
        BY <2>3
      <3>2. ~RA_template[j].rar
        BY <3>1 DEF KnownInv, RarFresh
      <3> QED BY <1>5, <2>1, <3>1, <3>2 DEF NewMsg4Only
    <2> QED BY <1>1, <2>2, <2>3 DEF Msg4Of
  <1>8. QuietStep
    BY <1>3, <1>4, <1>7 DEF QuietStep
  <1>9. TablesInv'
    BY <1>8, QuietTables
  <1>10. ASSUME NEW c, Fresh(c) PROVE Fresh(c)'
    BY <1>1, <1>10 DEF Fresh, Removing
  <1>11. ArmedFresh' /\ RarFresh'
    BY <1>8, <1>10, QuietFresh
  <1>12. CcchWaiting' /\ CcchOnce' /\ RemovingKnown'
    BY <1>1, <1>6 DEF KnownInv, CcchWaiting, CcchOnce, RemovingKnown, Waiting, Removing
  <1>13. MacUesInPhy'
    BY <1>1, <1>6 DEF KnownInv, MacUesInPhy, SlotsOf
  <1> QED BY <1>9, <1>11, <1>12, <1>13 DEF KnownInv

\* RRCConnectionSetupComplete.
LEMMA SetupKeeps ==
    ASSUME RaInv, NEW u \in UEs, SetupComplete(u)
    PROVE  TablesInv' /\ KnownInv'
  <1> USE DEF RaInv
  <1>1. /\ \A r \in Rntis : context[r] = NoContext => context'[r] = NoContext
        /\ UNCHANGED <<ue, RA_template, UE_list, UE_stats, ccch, removing, aborted>>
    BY SetupEffect
  <1>2. UesStep
    BY <1>1, RaParts, UeStays DEF UesStep
  <1>3. QuietStep
    BY <1>1, <1>2, StaysQuiet DEF QuietStep
  <1>4. TablesInv'
    BY <1>3, QuietTables
  <1>5. ASSUME NEW c \in Rntis PROVE (Fresh(c) => Fresh(c)') /\ (Waiting(c) => Waiting(c)')
    BY <1>1 DEF Fresh, Waiting, Removing
  <1>6. ArmedFresh' /\ RarFresh'
    BY <1>3, <1>5, QuietFresh
  <1>7. \A k \in 1 .. Len(ccch) : ccch[k].rnti \in Rntis
    BY CcchRntis
  <1>8. CcchWaiting' /\ CcchOnce'
    BY <1>1, <1>5, <1>7 DEF KnownInv, CcchWaiting, CcchOnce, Waiting, Removing
  <1>9. RemovingKnown' /\ MacUesInPhy'
    BY <1>1 DEF KnownInv, RemovingKnown, MacUesInPhy, SlotsOf
  <1> QED BY <1>4, <1>6, <1>8, <1>9 DEF KnownInv

\* rrc_eNB_decode_ccch: the RRC task gets to know an RNTI, or starts to remove it.
LEMMA DecodeKeeps ==
    ASSUME RaInv, DecodeCcch
    PROVE  TablesInv' /\ KnownInv'
  <1> USE DEF RaInv
  <1>1. PICK r : r = Head(ccch).rnti
    OBVIOUS
  <1>2. /\ removing.at = "idle" /\ ccch # <<>> /\ ccch' = Tail(ccch)
        /\ \/ /\ context[r] = NoContext /\ context' = context /\ removing'.rnti = r
              /\ removing'.at = IF r \in UE_list THEN "mac" ELSE "phy"
           \/ /\ removing' = removing
              /\ \A x \in Rntis : x # r => context'[x] = context[x]
        /\ UNCHANGED <<ue, RA_template, UE_list, UE_stats, aborted>>
    BY <1>1, DecodeEffect
  <1>3. ccch \in Seq(CcchRecords)
    BY RaParts
  <1>4. /\ Head(ccch) = ccch[1] /\ Len(ccch) \in Nat /\ 1 \in 1 .. Len(ccch)
        /\ Len(ccch') = Len(ccch) - 1
        /\ \A k \in 1 .. Len(ccch') : ccch'[k] = ccch[k + 1] /\ k + 1 \in 1 .. Len(ccch) /\ k + 1 # 1
    BY <1>2, <1>3
  <1>5. Waiting(r) /\ r \in Rntis /\ ccch[1].rnti = r
    BY <1>1, <1>4, CcchRntis DEF KnownInv, CcchWaiting
  <1>6. UesStep
    BY <1>2, RaParts, UeStays DEF UesStep
  <1>7. QuietStep
    BY <1>2, <1>6, StaysQuiet DEF QuietStep
  <1>8. TablesInv'
    BY <1>7, QuietTables
  <1>9. ASSUME NEW c \in Rntis, c # r PROVE (Fresh(c) => Fresh(c)') /\ (Waiting(c) => Waiting(c)')
    BY <1>2, <1>9 DEF Fresh, Waiting, Removing
  <1>10. ~Fresh(r)
    BY <1>5 DEF Fresh, Waiting
  <1>11. ArmedFresh' /\ RarFresh'
    BY <1>7, <1>9, <1>10, QuietFresh
  <1>12. ASSUME NEW k \in 1 .. Len(ccch'), NEW c, c = ccch'[k].rnti PROVE Waiting(c)'
    <2>1. k + 1 \in 1 .. Len(ccch) /\ ccch[k + 1].rnti = c /\ k + 1 # 1
      BY <1>4, <1>12
    <2>2. Waiting(c) /\ c \in Rntis
      BY <2>1, CcchRntis DEF KnownInv, CcchWaiting
    <2>3. c # r
      BY <1>4, <1>5, <2>1 DEF KnownInv, CcchOnce
    <2> QED BY <1>9, <2>2, <2>3
  <1>13. CcchWaiting'
    BY <1>12 DEF CcchWaiting, Waiting, Removing
  <1>14. CcchOnce'
    <2>1. ASSUME NEW j \in 1 .. Len(ccch'), NEW k \in 1 .. Len(ccch'), ccch'[j].rnti = ccch'[k].rnti
          PROVE  j = k
      <3>1. /\ j + 1 \in 1 .. Len(ccch) /\ k + 1 \in 1 .. Len(ccch)
            /\ ccch[j + 1].rnti = ccch[k + 1].rnti
        BY <1>4, <2>1
      <3>2. j + 1 = k + 1
        BY <3>1 DEF KnownInv, CcchOnce
      <3> QED BY <1>4, <3>2
    <2> QED BY <2>1 DEF CcchOnce
  <1>15. RemovingKnown'
    <2>1. CASE removing' = removing
      BY <1>2, <2>1 DEF KnownInv, RemovingKnown
    <2>2. CASE removing'.rnti = r /\ removing'.at = "mac" /\ context' = context
      <3>1. \E s \in Slots : UE_stats[s].crnti = r
        BY <1>5 DEF KnownInv, MacUesInPhy, SlotsOf, Waiting
      <3> QED BY <1>2, <1>5, <2>2, <3>1 DEF RemovingKnown, Waiting
    <2> QED BY <1>2, <1>5, <2>1, <2>2 DEF Waiting
  <1>16. MacUesInPhy'
    BY <1>2 DEF KnownInv, MacUesInPhy, SlotsOf
  <1> QED BY <1>8, <1>11, <1>13, <1>14, <1>15, <1>16 DEF KnownInv

\* rrc_mac_remove_ue, one table at a time.
LEMMA RemoveKeeps ==
    ASSUME RaInv, RemoveStep
    PROVE  TablesInv' /\ KnownInv'
  <1> USE DEF RaInv
  <1>1. PICK r : r = removing.rnti
    OBVIOUS
  <1>2. UNCHANGED <<ue, ccch, context, aborted>>
    BY DEF RemoveStep
  <1>3. UesStep
    BY <1>2, RaParts, UeStays DEF UesStep
  <1>4. removing.at # "phy"
    BY DEF KnownInv, RemovingKnown
  <1>5. removing \in [rnti : MaybeRntis, at : {"idle", "mac", "phy", "phy_ra", "ra"}]
    BY RaParts DEF RemovingRecords
  <1>6. CcchOnce'
    BY <1>2 DEF KnownInv, CcchOnce
  <1>7. CASE /\ removing.at = "mac" /\ UE_list' = UE_list \ {r} /\ UNCHANGED <<UE_stats, RA_template>>
             /\ removing' = [removing EXCEPT !.at = "phy_ra"]
    <2>1. removing'.at = "phy_ra" /\ removing'.rnti = r
      BY <1>1, <1>5, <1>7
    <2>2. QuietStep
      BY <1>3, <1>7, StaysQuiet DEF QuietStep
    <2>3. ASSUME NEW c PROVE (Fresh(c) => Fresh(c)') /\ (Waiting(c) => Waiting(c)')
      BY <1>1, <1>2, <1>7, <2>1 DEF Fresh, Waiting, Removing
    <2>4. ArmedFresh' /\ RarFresh'
      BY <2>2, <2>3, QuietFresh
    <2>5. CcchWaiting'
      BY <1>2, <2>3 DEF KnownInv, CcchWaiting, Waiting, Removing
    <2>6. RemovingKnown'
      BY <1>1, <1>2, <1>7, <2>1 DEF KnownInv, RemovingKnown
    <2>8. MacUesInPhy'
      BY <1>7 DEF KnownInv, MacUesInPhy, SlotsOf
    <2> QED BY <1>6, <2>2, <2>4, <2>5, <2>6, <2>8, QuietTables DEF KnownInv
  <1>8. CASE /\ removing.at = "phy_ra" /\ UE_stats' = MacPhyRemoveUe(UE_stats, r)
             /\ UNCHANGED <<UE_list, RA_template>>
             /\ removing' = [removing EXCEPT !.at = "ra"]
    <2>1. removing'.at = "ra" /\ removing'.rnti = r
      BY <1>1, <1>5, <1>8
    <2>2. r \in Rntis /\ r \notin UE_list
      BY <1>1, <1>8 DEF KnownInv, RemovingKnown
    <2>3. /\ \A s \in Slots : SlotKeeps(UE_stats[s], UE_stats'[s]) /\ NewMsg4Only(s)
          /\ \A s \in Slots : UE_stats[s].crnti # r => UE_stats'[s] = UE_stats[s]
      BY <1>8, <2>2, RemoveQuiet DEF TablesInv
    <2>4. QuietStep
      BY <1>3, <1>8, <2>3, StaysQuiet DEF QuietStep
    <2>5. ASSUME NEW c PROVE (Fresh(c) => Fresh(c)') /\ (Waiting(c) => Waiting(c)')
      BY <1>1, <1>2, <1>8, <2>1 DEF Fresh, Waiting, Removing
    <2>6. ArmedFresh' /\ RarFresh'
      BY <2>4, <2>5, QuietFresh
    <2>7. CcchWaiting'
      BY <1>2, <2>5 DEF KnownInv, CcchWaiting, Waiting, Removing
    <2>8. RemovingKnown'
      BY <2>1 DEF RemovingKnown
    <2>10. MacUesInPhy'
      BY <1>8, <2>2, <2>3 DEF KnownInv, MacUesInPhy, SlotsOf
    <2> QED BY <1>6, <2>4, <2>6, <2>7, <2>8, <2>10, QuietTables DEF KnownInv
  <1>9. CASE /\ removing.at = "ra" /\ RA_template' = CancelRaProc(RA_template, r)
             /\ UNCHANGED <<UE_list, UE_stats>>
             /\ removing' = [rnti |-> 0, at |-> "idle"]
    <2>1. removing'.at = "idle" /\ removing'.rnti = 0
      BY <1>9
    <2>2. QuietStep
      BY <1>3, <1>9, StaysQuiet, CancelQuiet DEF QuietStep
    <2>3. ASSUME NEW c PROVE (Fresh(c) => Fresh(c)') /\ (Waiting(c) => Waiting(c)')
      BY <1>2, <1>9, <2>1 DEF Fresh, Waiting, Removing
    <2>4. ArmedFresh' /\ RarFresh'
      BY <2>2, <2>3, QuietFresh
    <2>5. CcchWaiting'
      BY <1>2, <2>3 DEF KnownInv, CcchWaiting, Waiting, Removing
    <2>6. RemovingKnown'
      BY <2>1 DEF RemovingKnown
    <2>9. MacUesInPhy'
      BY <1>9 DEF KnownInv, MacUesInPhy, SlotsOf
    <2> QED BY <1>6, <2>2, <2>4, <2>5, <2>6, <2>9, QuietTables DEF KnownInv
  <1> QED BY <1>1, <1>4, <1>7, <1>8, <1>9 DEF RemoveStep

\* The release timer expires.
LEMMA ReleaseKeeps ==
    ASSUME RaInv, NEW r \in Rntis, ReleaseTimerExpires(r)
    PROVE  TablesInv' /\ KnownInv'
  <1> USE DEF RaInv
  <1>1. /\ context[r] # NoContext /\ context'[r] = NoContext
        /\ \A x \in Rntis : x # r => context'[x] = context[x]
        /\ UE_list' = UE_list \ {r}
        /\ UE_stats' = MacPhyRemoveUe(UE_stats, r)
        /\ RA_template' = IF r \in UE_list THEN CancelRaProc(RA_template, r) ELSE RA_template
        /\ UNCHANGED <<ue, ccch, removing, aborted>>
    BY ReleaseEffect
  <1>2. UesStep
    BY <1>1, RaParts, UeStays DEF UesStep
  <1>3. /\ \A s \in Slots : SlotKeeps(UE_stats[s], UE_stats'[s]) /\ NewMsg4Only(s)
        /\ \A s \in Slots : UE_stats[s].crnti # r => UE_stats'[s] = UE_stats[s]
    BY <1>1, RemoveQuiet DEF TablesInv
  <1>4. \A i \in Templates : TemplateKeeps(RA_template[i], RA_template'[i])
    BY <1>1, StaysQuiet, CancelQuiet
  <1>5. QuietStep
    BY <1>2, <1>3, <1>4 DEF QuietStep
  <1>6. TablesInv'
    BY <1>5, QuietTables
  <1>7. ASSUME NEW c \in Rntis PROVE (Fresh(c) => Fresh(c)') /\ (Waiting(c) => Waiting(c)')
    BY <1>1 DEF Fresh, Waiting, Removing
  <1>8. ArmedFresh' /\ RarFresh'
    BY <1>5, <1>7, QuietFresh
  <1>9. CcchWaiting' /\ CcchOnce'
    BY <1>1, <1>7, CcchRntis DEF KnownInv, CcchWaiting, CcchOnce, Waiting, Removing
  <1>10. RemovingKnown'
    BY <1>1, <1>3 DEF KnownInv, RemovingKnown
  <1>12. MacUesInPhy'
    BY <1>1, <1>3 DEF KnownInv, MacUesInPhy, SlotsOf
  <1> QED BY <1>6, <1>8, <1>9, <1>10, <1>12 DEF KnownInv

\* The tables at the start.
LEMMA RaInvInit == RaInit => RaInv
  <1> SUFFICES ASSUME RaInit PROVE RaInv
    OBVIOUS
  <1>1. /\ \A u \in UEs : ue[u].mode = "PRACH"
        /\ \A i \in Templates : RA_template[i] = IdleTemplate
        /\ \A s \in Slots : UE_stats[s] = FreeSlot
        /\ UE_list = {} /\ ccch = <<>> /\ removing.rnti = 0 /\ removing.at = "idle"
    BY DEF RaInit
  <1>2. ~IdleTemplate.active /\ ~IdleTemplate.rar /\ ~IdleTemplate.ack /\ IdleTemplate.rnti = 0
    BY DEF IdleTemplate
  <1>3. TablesInv
    BY <1>1, <1>2, FreeSlotType DEF TablesInv, OneSlotPerRnti, OneTemplate, SentMsg4, Connected, ContentionResolved
  <1>4. KnownInv
    BY <1>1, <1>2, FreeSlotType DEF KnownInv, ArmedFresh, RarFresh, CcchWaiting, CcchOnce, RemovingKnown,
                                    MacUesInPhy
  <1> QED BY <1>3, <1>4, RaTypesInit DEF RaInv

\* Every step keeps the tables, when no RNTI is drawn that is still in use.
LEMMA RaInvNext ==
    ASSUME ~RntiCollisions
    PROVE  RaInv /\ [RaNext]_raVars => RaInv'
  <1> SUFFICES ASSUME RaInv, [RaNext]_raVars PROVE RaInv'
    OBVIOUS
  <1>1. RaTypes'
    BY RaTypesNext DEF RaInv
  <1>2. TablesInv' /\ KnownInv'
    <2>1. CASE UNCHANGED raVars
      <3>1. UNCHANGED <<ue, RA_template, UE_list, UE_stats, ccch, context, removing, aborted>>
        BY <2>1 DEF raVars, enbVars
      <3>2. QuietStep
        BY <3>1, StaysQuiet, RaParts, UeStays DEF QuietStep, UesStep, RaInv
      <3> QED BY <3>1, <3>2, QuietTables, KnownStays DEF RaInv
    <2>2. CASE RaNext
      BY <2>2, PrachKeeps, TimerKeeps, SetupKeeps, RarKeeps, Msg3ErrorKeeps, Msg3ReceivedKeeps,
         UnheardKeeps, Msg4Keeps, ScheduleKeeps, DecodeKeeps, RemoveKeeps, ReleaseKeeps DEF RaNext
    <2> QED BY <2>1, <2>2
  <1> QED BY <1>1, <1>2 DEF RaInv

-----------------------------------------------------------------------------
(***************************************************************************)
(* The theorems.  Their hypothesis is that of the run random_access: the   *)
(* RNTI initiate_ra_proc draws is held by no UE, template, slot or context *)
(* any more.  UE_list, the one table the code does look at, is checked by  *)
(* the code itself.                                                        *)
(***************************************************************************)

\* The tables agree in every reachable state.
LEMMA RaInvHolds == ASSUME ~RntiCollisions PROVE RaSpec => []RaInv
  <1>1. RaInit => RaInv
    BY RaInvInit
  <1>2. RaInv /\ [RaNext]_raVars => RaInv'
    BY RaInvNext
  <1> QED BY <1>1, <1>2, PTL DEF RaSpec

\* ue_send_sdu resolves contention: two UEs never take the same C-RNTI for theirs, however many
\* of them sent the same preamble and whatever the RRC task does to the tables meanwhile.
THEOREM RaContentionResolved == ASSUME ~RntiCollisions PROVE RaSpec => []ContentionResolved
  <1>1. RaInv => ContentionResolved
    BY DEF RaInv, TablesInv
  <1> QED BY <1>1, RaInvHolds, PTL

\* An RNTI never gets a second slot of PHY's table, so that mac_phy_remove_ue, which frees the
\* first slot it finds, leaves none behind.
THEOREM RaOneSlotPerRnti == ASSUME ~RntiCollisions PROVE RaSpec => []OneSlotPerRnti
  <1>1. RaInv => OneSlotPerRnti
    BY DEF RaInv, TablesInv
  <1> QED BY <1>1, RaInvHolds, PTL

\* Every UE of UE_list has a slot of PHY's table, at every point where the RRC task may be in
\* rrc_mac_remove_ue.
THEOREM RaMacUesInPhy == ASSUME ~RntiCollisions PROVE RaSpec => []MacUesInPhy
  <1>1. RaInv => MacUesInPhy
    BY DEF RaInv, KnownInv
  <1> QED BY <1>1, RaInvHolds, PTL
=============================================================================
