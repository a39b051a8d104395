---------------------------- MODULE RandomAccess ----------------------------
(***************************************************************************)
(* Contention-based random access and the RRC connection request it        *)
(* carries: the UEs (MAC, PHY and the CCCH part of RRC), the eNB's RA      *)
(* templates, UE_list and PHY table, and the eNB's RRC task, which runs in *)
(* a thread of its own and shares Srb0.Tx_buffer, UE_list and the          *)
(* templates with the MAC scheduler without a lock.  schedule_RA is        *)
(* therefore one step per template, and two for a Msg4: the RRC task, the  *)
(* PRACH thread and the other of PHY's two threads may come in between.    *)
(*                                                                         *)
(* RNTIs are numbers and 0 is no RNTI.  A connection request is known by   *)
(* <<u, k>>, the k-th random value UE u drew, and a RRCConnectionSetup by  *)
(* the RNTI whose context it configures.  Subframes are not counted: RAR,  *)
(* Msg3 and Msg4 take place in one action with the UEs that hear them.     *)
(***************************************************************************)
EXTENDS Integers, Sequences, FiniteSets

CONSTANTS UEs, Preambles,
          MaxRnti,             \* RNTIs the generator may draw: 1 .. MaxRnti
          NB_RA_PROC_MAX, NUMBER_OF_UE_MAX,
          maxHARQ_Msg3Tx, Mlimit,
          MaxRach,             \* bound: PRACH subframes used in a behaviour
          MaxT300,             \* bound: expiries of T300 in a behaviour
          RntiCollisions       \* may taus() draw an RNTI some UE still holds?

ASSUME RaAssumption ==
    /\ {MaxRnti, NB_RA_PROC_MAX, NUMBER_OF_UE_MAX, maxHARQ_Msg3Tx, Mlimit,
        MaxRach} \subseteq Nat \ {0}
    /\ MaxT300 \in Nat
    /\ IsFiniteSet(UEs)
    /\ RntiCollisions \in BOOLEAN

VARIABLES ue,          \* UE_mac_inst, UE_mode and the CCCH state of UE_rrc_inst
          sent,        \* PRACH subframes used so far
          RA_template, \* common_channels.RA_template
          UE_list,     \* RNTIs active in UE_list
          configured,  \* those with UE_template.configured
          rarDci,      \* a DCI for the RA-RNTI is in the subframe's DCI_pdu
          UE_stats,    \* PHY's table of UEs, with ulsch and dlsch process 0
          ccch,        \* RRC task's queue of RRC_MAC_CCCH_DATA_IND
          context,     \* rrc_ue_head: the context of each RNTI
          Srb0,        \* whose setup is in Srb0.Tx_buffer, 0 when empty
          removing,    \* how far the RRC task is in rrc_mac_remove_ue
          scheduler,   \* where schedule_RA is: template, and CCCH SDU fetched for it
          aborted      \* the eNB has called abort() or failed a DevAssert

enbVars == <<RA_template, UE_list, configured, rarDci, UE_stats, context, Srb0>>
raVars == <<ue, sent, enbVars, ccch, removing, scheduler, aborted>>

Rntis == 1 .. MaxRnti
Requests == UEs \X (1 .. MaxT300 + 1)
Templates == 1 .. NB_RA_PROC_MAX
Slots == 1 .. NUMBER_OF_UE_MAX

NoRequest == <<>>
NoContext == [id |-> NoRequest, timer |-> FALSE]
NoMsg4 == [cr |-> NoRequest, setup |-> 0]
IdleTemplate == [active |-> FALSE, rar |-> FALSE, msg4 |-> FALSE,
                 ack |-> FALSE, rnti |-> 0, preamble |-> 0, cr |-> NoRequest]
FreeSlot == [crnti |-> 0, msg3 |-> FALSE, round |-> 0,
             dl |-> FALSE, dlRound |-> 0, pdu |-> NoMsg4]
Idle == [i |-> 0, sdu |-> 0]

RaInit ==
    /\ ue = [u \in UEs |-> [mode |-> "PRACH", active |-> FALSE, preamble |-> 0,
                            crnti |-> 0, msg3 |-> FALSE, timer |-> FALSE,
                            t300 |-> FALSE, req |-> 1, pdu |-> 0, setup |-> 0]]
    /\ sent = 0
    /\ RA_template = [i \in Templates |-> IdleTemplate]
    /\ UE_list = {}
    /\ configured = {}
    /\ rarDci = FALSE
    /\ UE_stats = [s \in Slots |-> FreeSlot]
    /\ ccch = <<>>
    /\ context = [r \in Rntis |-> NoContext]
    /\ Srb0 = 0
    /\ removing = [rnti |-> 0, at |-> "idle"]
    /\ scheduler = Idle
    /\ aborted = FALSE

---------------------------------------------------------------------------
(***************************************************************************)
(* The UE.                                                                 *)
(***************************************************************************)

\* ue_get_rach in a PRACH subframe: a new procedure takes RRC's connection
\* request, which restarts T300; an active one whose response window is over
\* sends another preamble with the request it has.
UeGetRach(s, p) ==
    IF s.active THEN [s EXCEPT !.preamble = p]
    ELSE [s EXCEPT !.preamble = p, !.active = TRUE, !.pdu = s.req, !.t300 = TRUE]

\* process_rar with ue_process_rar: only a UE that has sent a preamble and is
\* not connected looks at the RAR, and takes it if the RAPID is its own.
HearsRar(u) == ue[u].mode # "PUSCH" /\ ue[u].preamble # 0

TakeRar(s, rapid, rnti) ==
    IF s.preamble # rapid THEN s
    ELSE [s EXCEPT !.crnti = rnti, !.msg3 = TRUE, !.mode = "RA_RESPONSE"]

\* ra_failed, with what its callers reset in MAC.
RaFailed(s) ==
    [s EXCEPT !.mode = "PRACH", !.crnti = 0, !.active = FALSE, !.timer = FALSE]

\* Mutant of UeSendSdu: any contention resolution identity will do.
UeSendSduAnyId(u, s, m) ==
    IF ~s.active THEN [s EXCEPT !.t300 = FALSE, !.setup = m.setup]
    ELSE [s EXCEPT !.active = FALSE, !.timer = FALSE, !.msg3 = FALSE,
                   !.mode = "PUSCH", !.t300 = FALSE, !.setup = m.setup]

\* ue_send_sdu for a Msg4: while the procedure is active the contention
\* resolution identity must be the UE's own CCCH SDU; the setup behind it then
\* goes to rrc_ue_decode_ccch, which stops T300.  When no procedure is active
\* the identity is not looked at, and RRC gets the setup all the same.
UeSendSdu(u, s, m) ==
    IF ~s.active THEN [s EXCEPT !.t300 = FALSE, !.setup = m.setup]
    ELSE IF m.cr # <<u, s.pdu>> THEN RaFailed(s)
    ELSE [s EXCEPT !.active = FALSE, !.timer = FALSE, !.msg3 = FALSE,
                   !.mode = "PUSCH", !.t300 = FALSE, !.setup = m.setup]

\* ue_scheduler: the contention resolution timer expires.
ContentionTimerExpires(u) ==
    /\ ue[u].timer
    /\ ue' = [ue EXCEPT ![u] = RaFailed(@)]
    /\ UNCHANGED <<sent, enbVars, ccch, removing, scheduler, aborted>>

\* The random values the UEs have replaced so far, one for every expiry of T300.
Discarded == {q \in Requests : q[2] < ue[q[1]].req}

\* rrc_rx_tx: T300 expires, RRC draws a new random value and PHY goes back to
\* PRACH.  RA_active, the contention timer and the Msg3 buffer stay.
T300Expires(u) ==
    /\ ue[u].t300
    /\ Cardinality(Discarded) < MaxT300
    /\ ue' = [ue EXCEPT ![u] = [@ EXCEPT !.t300 = FALSE, !.req = ue[u].req + 1,
                                         !.mode = "PRACH"]]
    /\ UNCHANGED <<sent, enbVars, ccch, removing, scheduler, aborted>>

---------------------------------------------------------------------------
(***************************************************************************)
(* The eNB's PHY and MAC.                                                  *)
(***************************************************************************)

FirstIn(S) == CHOOSE i \in S : \A j \in S : i <= j

FreeSlots == {s \in Slots : UE_stats[s].crnti = 0}
SlotsOf(r) == {s \in Slots : UE_stats[s].crnti = r}
FreeTemplates ==
    {i \in Templates : ~RA_template[i].active /\ ~RA_template[i].ack}

\* Someone besides UE_list still holds RNTI r.
InUse(r) ==
    \/ \E u \in UEs : ue[u].crnti = r
    \/ \E i \in Templates : RA_template[i].rnti = r
    \/ SlotsOf(r) # {}
    \/ context[r] # NoContext
    \/ removing.rnti = r

\* initiate_ra_proc: the first free template gets a random RNTI that UE_list
\* does not have.
InitiateRaProc(p) ==
    \E r \in Rntis \ UE_list :
       /\ RntiCollisions \/ ~InUse(r)
       /\ RA_template' = [RA_template EXCEPT ![FirstIn(FreeTemplates)] =
             [@ EXCEPT !.active = TRUE, !.rar = TRUE, !.msg4 = FALSE,
                       !.ack = FALSE, !.rnti = r, !.preamble = p]]

\* A PRACH subframe in which the UEs of S send preamble p: prach_procedures
\* misses it, drops it for want of a UE index or of a template, or starts one
\* procedure.  It has a thread of its own.
PrachSubframe(p, S) ==
    /\ S # {}
    /\ \A u \in S : ue[u].mode = "PRACH"
    /\ sent < MaxRach
    /\ sent' = sent + 1
    /\ ue' = [u \in UEs |-> IF u \in S THEN UeGetRach(ue[u], p) ELSE ue[u]]
    /\ \/ UNCHANGED RA_template
       \/ /\ ~aborted
          /\ FreeSlots # {}
          /\ FreeTemplates # {}
          /\ InitiateRaProc(p)
    /\ UNCHANGED <<UE_list, configured, rarDci, UE_stats, ccch, context, Srb0,
                   removing, scheduler, aborted>>

\* cancel_ra_proc, and the loop that ends rrc_mac_remove_ue: every template of
\* the RNTI is reset.
CancelRaProc(tmpl, r) ==
    [i \in Templates |->
       IF tmpl[i].rnti # r THEN tmpl[i]
       ELSE [tmpl[i] EXCEPT !.active = FALSE, !.rar = FALSE, !.msg4 = FALSE,
                            !.ack = FALSE, !.rnti = 0]]

\* mac_phy_remove_ue: the first slot with the RNTI is cleared.
MacPhyRemoveUe(stats, r) ==
    LET S == {s \in Slots : stats[s].crnti = r}
    IN  IF S = {} THEN stats ELSE [stats EXCEPT ![FirstIn(S)] = FreeSlot]

\* Mutant of AddUeFails: the RAR is dropped and the procedure left as it is.
AddUeFailsQuietly(t) ==
    [i \in Templates |-> [RA_template[i] EXCEPT !.rar = @ /\ RA_template[i] # t]]

\* add_ue has found no free slot for the UE of template t: cancel_ra_proc.
AddUeFails(t) == CancelRaProc(RA_template, t.rnti)

\* The UEs of got take the RAR with this RAPID and temporary C-RNTI.
RarHeard(got, rapid, rnti) ==
    [u \in UEs |-> IF u \in got THEN TakeRar(ue[u], rapid, rnti) ELSE ue[u]]

\* Mutant of RarFilled: generate_rar stays set.
RarFilledAgain(i) == RA_template

\* fill_rar has put template i into the RAR.
RarFilled(i) == [RA_template EXCEPT ![i].rar = FALSE]

\* PHY sends the RAR of the subframe: fill_rar takes the first template that
\* waits for one, add_ue gives its RNTI a slot and arms Msg3, or the procedure
\* is cancelled.  The RAR is encoded and sent in either case, and the UEs of got
\* hear it.  Without a template that waits, what is sent is the array on the
\* stack that fill_rar has not written, and cancel_ra_proc gets RNTI 0.
SendRar ==
    LET waiting == {i \in Templates : RA_template[i].rar}
        i == FirstIn(waiting)
        t == RA_template[i]
    IN  /\ ~aborted
        /\ rarDci
        /\ scheduler = Idle
        /\ rarDci' = FALSE
        /\ \E got \in SUBSET {u \in UEs : HearsRar(u)} :
              IF waiting = {}
              THEN /\ RA_template' = CancelRaProc(RA_template, 0)
                   /\ \E rapid \in Preambles, rnti \in 0 .. MaxRnti :
                         ue' = RarHeard(got, rapid, rnti)
                   /\ UNCHANGED UE_stats
              ELSE /\ ue' = RarHeard(got, t.preamble, t.rnti)
                   /\ IF FreeSlots = {}
                      THEN /\ RA_template' = AddUeFails(t)
                           /\ UNCHANGED UE_stats
                      ELSE /\ RA_template' = RarFilled(i)
                           /\ UE_stats' = [UE_stats EXCEPT ![FirstIn(FreeSlots)] =
                                 [FreeSlot EXCEPT !.crnti = t.rnti, !.msg3 = TRUE]]
        /\ UNCHANGED <<sent, UE_list, configured, ccch, context, Srb0,
                       removing, scheduler, aborted>>

\* The UEs that transmit Msg3 for RNTI r; Msg3_tx starts the contention timer
\* at every transmission, and PHICH says whether there will be another.
Senders(r) ==
    {u \in UEs : ue[u].mode = "RA_RESPONSE" /\ ue[u].msg3 /\ ue[u].crnti = r}

\* Mutant of Msg3Tx: the contention timer is not started.
Msg3TxNoTimer(r, again) ==
    [u \in UEs |-> IF u \in Senders(r) THEN [ue[u] EXCEPT !.msg3 = again] ELSE ue[u]]

Msg3Tx(r, again) ==
    [u \in UEs |->
       IF u \in Senders(r) THEN [ue[u] EXCEPT !.timer = TRUE, !.msg3 = again]
       ELSE ue[u]]

\* A Msg3 the eNB does not listen to: no slot of the RNTI has Msg3 armed, for
\* instance because add_ue had none.  The UE takes PHICH for what it likes.
Msg3Unheard(r) ==
    /\ Senders(r) # {}
    /\ \A s \in SlotsOf(r) : ~UE_stats[s].msg3
    /\ \E again \in BOOLEAN : ue' = Msg3Tx(r, again)
    /\ UNCHANGED <<sent, enbVars, ccch, removing, scheduler, aborted>>

\* Mutant of Msg3Error: one round too many.
Msg3ErrorOnceMore(s) ==
    LET r == UE_stats[s].crnti
        last == UE_stats[s].round + 1 > maxHARQ_Msg3Tx
    IN  /\ ~aborted
        /\ UE_stats[s].msg3
        /\ ue' = Msg3Tx(r, ~last)
        /\ IF last
           THEN /\ RA_template' = CancelRaProc(RA_template, r)
                /\ UE_stats' = MacPhyRemoveUe(UE_stats, r)
           ELSE /\ UE_stats' = [UE_stats EXCEPT ![s].round = @ + 1]
                /\ UNCHANGED RA_template
        /\ UNCHANGED <<sent, UE_list, configured, rarDci, ccch, context,
                       Srb0, removing, scheduler, aborted>>

\* Msg3 of slot s is not decoded: one more round, or at maxHARQ_Msg3Tx the
\* procedure is cancelled and the slot freed.
Msg3Error(s) ==
    LET r == UE_stats[s].crnti
        last == UE_stats[s].round + 1 = maxHARQ_Msg3Tx
    IN  /\ ~aborted
        /\ UE_stats[s].msg3
        /\ ue' = Msg3Tx(r, ~last)
        /\ IF last
           THEN /\ RA_template' = CancelRaProc(RA_template, r)
                /\ UE_stats' = MacPhyRemoveUe(UE_stats, r)
           ELSE /\ UE_stats' = [UE_stats EXCEPT ![s].round = @ + 1]
                /\ UNCHANGED RA_template
        /\ UNCHANGED <<sent, UE_list, configured, rarDci, ccch, context,
                       Srb0, removing, scheduler, aborted>>

\* Msg3 of sender u is decoded in slot s: rx_sdu finds every active template of
\* the RNTI, the first of a new UE keeps the contention resolution identity and
\* enters the UE in UE_list, each hands the SDU to RRC and asks for a Msg4. A
\* full UE_list ends the eNB.
Msg3Received(s, u) ==
    LET r == UE_stats[s].crnti
        id == <<u, ue[u].pdu>>
        mine == {i \in Templates : RA_template[i].rnti = r /\ RA_template[i].active}
        new == r \notin UE_list
    IN  /\ ~aborted
        /\ UE_stats[s].msg3
        /\ u \in Senders(r)
        /\ ue' = Msg3Tx(r, FALSE)
        /\ UE_stats' = [UE_stats EXCEPT ![s].msg3 = FALSE, ![s].round = 0]
        /\ RA_template' = [i \in Templates |->
              IF i \notin mine THEN RA_template[i]
              ELSE [RA_template[i] EXCEPT
                      !.msg4 = TRUE, !.ack = FALSE,
                      !.cr = IF new /\ i = FirstIn(mine) THEN id ELSE @]]
        /\ UE_list' = IF mine = {} THEN UE_list ELSE UE_list \cup {r}
        /\ configured' = IF mine # {} /\ new THEN configured \ {r} ELSE configured
        /\ ccch' = ccch \o [k \in 1 .. Cardinality(mine) |-> [rnti |-> r, id |-> id]]
        /\ aborted' = (mine # {} /\ new /\ Cardinality(UE_list) = NUMBER_OF_UE_MAX)
        /\ UNCHANGED <<sent, rarDci, context, Srb0, removing, scheduler>>

\* get_ue_active_harq_pid for process 0: a UE unknown to PHY is in round 0.
DlRound(stats, r) ==
    LET S == {s \in Slots : stats[s].crnti = r}
    IN  IF S = {} THEN 0 ELSE stats[FirstIn(S)].dlRound

\* The transport block of slot FirstIn(S) is on the air.  PHY sends nothing for a
\* RNTI it does not know, and nothing for RNTI 0.
Transmit(r, pdu) ==
    IF r = 0 \/ SlotsOf(r) = {} THEN UE_stats
    ELSE [UE_stats EXCEPT ![FirstIn(SlotsOf(r))].dl = TRUE,
                          ![FirstIn(SlotsOf(r))].pdu = pdu]

(***************************************************************************)
(* schedule_RA, one step for each turn of its loop over the templates.     *)
(* fits: CCE_allocation_infeasible is false for the DCI of the turn.       *)
(***************************************************************************)

\* The loop goes on to the next template, or the call ends.
NextTurn ==
    scheduler' = IF scheduler.i = NB_RA_PROC_MAX THEN Idle
                 ELSE [i |-> scheduler.i + 1, sdu |-> 0]

\* The call, in subframe 5, when there is something to schedule: the RAR and the
\* Msg4s of the last call have been sent and their feedback is in.
ScheduleRA ==
    /\ ~aborted
    /\ scheduler = Idle
    /\ ~rarDci
    /\ \A s \in Slots : ~UE_stats[s].dl
    /\ \E i \in Templates : RA_template[i].active \/ RA_template[i].ack
    /\ scheduler' = [i |-> 1, sdu |-> 0]
    /\ UNCHANGED <<ue, sent, enbVars, ccch, removing, aborted>>

\* It is the turn of template i, for which no CCCH SDU has been fetched.
TurnOf(i) == ~aborted /\ scheduler = [i |-> i, sdu |-> 0]

\* A template that is idle, or active with nothing to send yet.
SkipTemplate(i) ==
    /\ TurnOf(i)
    /\ IF RA_template[i].active THEN ~RA_template[i].rar /\ ~RA_template[i].msg4
       ELSE ~RA_template[i].ack
    /\ NextTurn
    /\ UNCHANGED <<ue, sent, enbVars, ccch, removing, aborted>>

\* The DCI of the RAR.
ScheduleRar(i, fits) ==
    /\ TurnOf(i)
    /\ RA_template[i].active
    /\ RA_template[i].rar
    /\ rarDci' = (rarDci \/ fits)
    /\ NextTurn
    /\ UNCHANGED <<ue, sent, RA_template, UE_list, configured, UE_stats, ccch,
                   context, Srb0, removing, aborted>>

\* Msg4, first part: find_UE_id, which ends the eNB when UE_list has lost the UE,
\* and mac_rrc_data_req, which empties Srb0 whether the DCI will fit or not.
FetchSetup(i) ==
    LET t == RA_template[i]
    IN  /\ TurnOf(i)
        /\ t.active
        /\ ~t.rar
        /\ t.msg4
        /\ IF t.rnti \notin UE_list
           THEN /\ aborted' = TRUE
                /\ UNCHANGED <<scheduler, Srb0>>
           ELSE /\ Srb0' = 0
                /\ IF Srb0 = 0 THEN NextTurn
                   ELSE scheduler' = [scheduler EXCEPT !.sdu = Srb0]
                /\ UNCHANGED aborted
        /\ UNCHANGED <<ue, sent, RA_template, UE_list, configured, rarDci,
                       UE_stats, ccch, context, removing>>

\* What schedule_RA writes into a template whose Msg4 it sends.
Msg4Sent(t) == [t EXCEPT !.active = FALSE, !.msg4 = FALSE, !.ack = TRUE]

\* Msg4, second part: the DCI and the transport block, for the RNTI and with the
\* contention resolution identity the template has by now, although the RRC task
\* may have reset it, and the PRACH thread taken it again, in the meantime.
SendMsg4(i, fits) ==
    LET t == RA_template[i]
    IN  /\ ~aborted
        /\ scheduler.i = i
        /\ scheduler.sdu # 0
        /\ IF fits
           THEN /\ RA_template' = [RA_template EXCEPT ![i] = Msg4Sent(@)]
                /\ UE_stats' = Transmit(t.rnti, [cr |-> t.cr, setup |-> scheduler.sdu])
           ELSE UNCHANGED <<RA_template, UE_stats>>
        /\ NextTurn
        /\ UNCHANGED <<ue, sent, UE_list, configured, rarDci, ccch, context,
                       Srb0, removing, aborted>>

\* A template that waits for the acknowledgement of its Msg4.  Any other round
\* than 0 of process 0 asks for a retransmission; round 0 is taken for an
\* acknowledgement, and DevAssert wants the UE in UE_list.
CheckMsg4(i, fits) ==
    LET t == RA_template[i]
        again == DlRound(UE_stats, t.rnti) > 0
    IN  /\ TurnOf(i)
        /\ ~t.active
        /\ t.ack
        /\ IF again
           THEN /\ UE_stats' = IF ~fits THEN UE_stats
                               ELSE [UE_stats EXCEPT ![FirstIn(SlotsOf(t.rnti))].dl = TRUE]
                /\ UNCHANGED <<RA_template, configured, aborted>>
           ELSE /\ RA_template' = [RA_template EXCEPT ![i].ack = FALSE]
                /\ configured' = configured \cup ({t.rnti} \cap UE_list)
                /\ aborted' = (t.rnti \notin UE_list)
                /\ UNCHANGED UE_stats
        /\ NextTurn
        /\ UNCHANGED <<ue, sent, UE_list, rarDci, ccch, context, Srb0, removing>>

\* Msg4 of slot s is heard by the UEs in got, and process_HARQ_feedback sees an
\* ACK or a NACK; after Mlimit rounds the process starts again from 0.
Msg4Feedback(s) ==
    /\ ~aborted
    /\ scheduler = Idle
    /\ UE_stats[s].dl
    /\ \E got \in SUBSET {u \in UEs : /\ ue[u].mode # "PRACH"
                                      /\ ue[u].crnti = UE_stats[s].crnti} :
       \E ack \in (IF got = {} THEN {FALSE} ELSE BOOLEAN) :
          /\ ue' = [u \in UEs |-> IF u \in got
                                  THEN UeSendSdu(u, ue[u], UE_stats[s].pdu)
                                  ELSE ue[u]]
          /\ UE_stats' = [UE_stats EXCEPT
                ![s].dl = FALSE,
                ![s].dlRound = IF ack THEN 0 ELSE (@ + 1) % Mlimit]
    /\ UNCHANGED <<sent, RA_template, UE_list, configured, rarDci, ccch,
                   context, Srb0, removing, scheduler, aborted>>

---------------------------------------------------------------------------
(***************************************************************************)
(* The eNB's RRC task.                                                     *)
(***************************************************************************)

\* rrc_eNB_decode_ccch of a RRCConnectionRequest with a random value, the only
\* identity do_RRCConnectionRequest of this repository's UE ever sends: a known
\* RNTI keeps its context, a random value known under another RNTI makes the
\* new one a zombie to remove, any other gets a context.  The setup replaces
\* whatever Srb0.Tx_buffer holds.
DecodeCcch ==
    LET m == Head(ccch)
        zombie == \E r \in Rntis : context[r].id = m.id
    IN  /\ ~aborted
        /\ removing.at = "idle"
        /\ ccch # <<>>
        /\ ccch' = Tail(ccch)
        /\ IF context[m.rnti] = NoContext /\ zombie
           THEN /\ removing' = [rnti |-> m.rnti,
                                at |-> IF m.rnti \in UE_list THEN "mac" ELSE "phy"]
                /\ UNCHANGED <<context, Srb0>>
           ELSE /\ context' = [context EXCEPT ![m.rnti] =
                      [id |-> IF @ = NoContext THEN m.id ELSE @.id,
                       timer |-> TRUE]]
                /\ Srb0' = m.rnti
                /\ UNCHANGED removing
        /\ UNCHANGED <<ue, sent, RA_template, UE_list, configured,
                       rarDci, UE_stats, scheduler, aborted>>

\* Mutant of RemoveStep: PHY forgets the UE before UE_list does.
RemovePhyFirst ==
    LET r == removing.rnti
    IN  /\ ~aborted
        /\ \/ /\ removing.at \in {"mac", "phy"}
              /\ UE_stats' = MacPhyRemoveUe(UE_stats, r)
              /\ removing' = [removing EXCEPT !.at = "phy_ra"]
              /\ UNCHANGED <<UE_list, RA_template>>
           \/ /\ removing.at \in {"phy_ra", "ra"}
              /\ UE_list' = UE_list \ {r}
              /\ RA_template' = CancelRaProc(RA_template, r)
              /\ removing' = [rnti |-> 0, at |-> "idle"]
              /\ UNCHANGED UE_stats
        /\ UNCHANGED <<ue, sent, configured, rarDci, ccch, context, Srb0,
                       scheduler, aborted>>

\* rrc_mac_remove_ue in the RRC task, without a lock: UE_list, then PHY, then
\* the templates.
RemoveStep ==
    LET r == removing.rnti
        known == removing.at # "phy"
    IN  /\ ~aborted
        /\ \/ /\ removing.at = "mac"
              /\ UE_list' = UE_list \ {r}
              /\ removing' = [removing EXCEPT !.at = "phy_ra"]
              /\ UNCHANGED <<UE_stats, RA_template>>
           \/ /\ removing.at \in {"phy", "phy_ra"}
              /\ UE_stats' = MacPhyRemoveUe(UE_stats, r)
              /\ removing' = IF known THEN [removing EXCEPT !.at = "ra"]
                             ELSE [rnti |-> 0, at |-> "idle"]
              /\ UNCHANGED <<UE_list, RA_template>>
           \/ /\ removing.at = "ra"
              /\ RA_template' = CancelRaProc(RA_template, r)
              /\ removing' = [rnti |-> 0, at |-> "idle"]
              /\ UNCHANGED <<UE_list, UE_stats>>
        /\ UNCHANGED <<ue, sent, configured, rarDci, ccch, context,
                       Srb0, scheduler, aborted>>

\* RRCConnectionSetupComplete of a connected UE arrives: the release timer of
\* its context stops.
SetupComplete(u) ==
    LET r == ue[u].crnti
    IN  /\ ~aborted
        /\ ue[u].mode = "PUSCH"
        /\ context[r].timer
        /\ context' = [context EXCEPT ![r].timer = FALSE]
        /\ UNCHANGED <<ue, sent, RA_template, UE_list, configured,
                       rarDci, UE_stats, ccch, Srb0, removing, scheduler,
                       aborted>>

\* rrc_rx_tx, in whichever of PHY's two threads has the subframe: the release
\* timer expires, and rrc_eNB_free_UE removes the UE from MAC, PHY and RRC.
ReleaseTimerExpires(r) ==
    /\ ~aborted
    /\ context[r].timer
    /\ context' = [context EXCEPT ![r] = NoContext]
    /\ UE_list' = UE_list \ {r}
    /\ UE_stats' = MacPhyRemoveUe(UE_stats, r)
    /\ RA_template' = IF r \in UE_list THEN CancelRaProc(RA_template, r)
                      ELSE RA_template
    /\ UNCHANGED <<ue, sent, configured, rarDci, ccch, Srb0, removing,
                   scheduler, aborted>>

---------------------------------------------------------------------------
\* The call of schedule_RA goes on.
ScheduleStep ==
    \/ ScheduleRA
    \/ \E i \in Templates : \/ SkipTemplate(i)
                            \/ FetchSetup(i)
                            \/ \E fits \in BOOLEAN : \/ ScheduleRar(i, fits)
                                                     \/ SendMsg4(i, fits)
                                                     \/ CheckMsg4(i, fits)

RaNext ==
    \/ \E p \in Preambles, S \in SUBSET UEs : PrachSubframe(p, S)
    \/ \E u \in UEs : \/ ContentionTimerExpires(u)
                      \/ T300Expires(u)
                      \/ SetupComplete(u)
    \/ SendRar
    \/ \E s \in Slots : \/ Msg3Error(s)
                        \/ \E u \in UEs : Msg3Received(s, u)
                        \/ Msg4Feedback(s)
    \/ ScheduleStep
    \/ DecodeCcch
    \/ RemoveStep
    \/ \E r \in Rntis : \/ Msg3Unheard(r)
                        \/ ReleaseTimerExpires(r)

\* What goes on by itself: timers run, subframes keep coming, the threads of the
\* eNB are scheduled, and a RAR that is scheduled again and again finds room on
\* the control channel in the end.  That a UE starts a procedure, that T300
\* expires, that the DCI of a Msg4 ever fits or that RRCConnectionSetupComplete
\* gets through is not assumed.
RaFairness ==
    /\ \A u \in UEs : WF_raVars(ContentionTimerExpires(u))
    /\ WF_raVars(SendRar)
    /\ \A s \in Slots :
          /\ WF_raVars(Msg3Error(s) \/ \E u \in UEs : Msg3Received(s, u))
          /\ WF_raVars(Msg4Feedback(s))
    /\ WF_raVars(ScheduleStep)
    /\ \A i \in Templates : SF_raVars(ScheduleRar(i, TRUE))
    /\ WF_raVars(DecodeCcch \/ RemoveStep)
    /\ \A r \in Rntis : /\ WF_raVars(Msg3Unheard(r))
                         /\ WF_raVars(ReleaseTimerExpires(r))

RaSpec == RaInit /\ [][RaNext]_raVars /\ RaFairness

---------------------------------------------------------------------------
(***************************************************************************)
(* Properties.                                                             *)
(***************************************************************************)

\* Every variable has its type; a Msg3 never goes past maxHARQ_Msg3Tx rounds and
\* a slot that waits for feedback belongs to a UE.
RaTypeOK ==
    /\ ue \in [UEs -> [mode : {"PRACH", "RA_RESPONSE", "PUSCH"},
                       active : BOOLEAN, preamble : Preambles \cup {0},
                       crnti : 0 .. MaxRnti, msg3 : BOOLEAN, timer : BOOLEAN,
                       t300 : BOOLEAN, req : 1 .. MaxT300 + 1,
                       pdu : 0 .. MaxT300 + 1, setup : 0 .. MaxRnti]]
    /\ sent \in 0 .. MaxRach
    /\ RA_template \in [Templates ->
          [active : BOOLEAN, rar : BOOLEAN, msg4 : BOOLEAN, ack : BOOLEAN,
           rnti : 0 .. MaxRnti, preamble : Preambles \cup {0},
           cr : Requests \cup {NoRequest}]]
    /\ UE_list \subseteq Rntis
    /\ configured \subseteq Rntis
    /\ rarDci \in BOOLEAN
    /\ UE_stats \in [Slots ->
          [crnti : 0 .. MaxRnti, msg3 : BOOLEAN, round : 0 .. maxHARQ_Msg3Tx - 1,
           dl : BOOLEAN, dlRound : 0 .. Mlimit - 1,
           pdu : [cr : Requests \cup {NoRequest}, setup : 0 .. MaxRnti]]]
    /\ \A s \in Slots : UE_stats[s].dl => UE_stats[s].crnti # 0
    /\ ccch \in Seq([rnti : Rntis, id : Requests])
    /\ context \in [Rntis -> [id : Requests \cup {NoRequest}, timer : BOOLEAN]]
    /\ Srb0 \in 0 .. MaxRnti
    /\ removing \in [rnti : 0 .. MaxRnti, at : {"idle", "mac", "phy", "phy_ra", "ra"}]
    /\ scheduler \in [i : 0 .. NB_RA_PROC_MAX, sdu : 0 .. MaxRnti]
    /\ aborted \in BOOLEAN

\* Contention is resolved: two UEs that sent the same preamble, heard the same
\* RAR and sent their Msg3 on the same temporary C-RNTI never both take it for
\* their C-RNTI (ue_send_sdu, case UE_CONT_RES).
ContentionResolved ==
    \A u, v \in UEs :
        (u # v /\ ue[u].mode = "PUSCH" /\ ue[v].mode = "PUSCH")
            => ue[u].crnti # ue[v].crnti

\* An RNTI has one slot of PHY's table at most: add_ue takes the first free slot
\* without looking whether the RNTI has one, and mac_phy_remove_ue frees the first
\* it finds, so a second one would stay.
OneSlotPerRnti ==
    \A s, x \in Slots :
        UE_stats[s].crnti # 0 /\ UE_stats[s].crnti = UE_stats[x].crnti => s = x

\* MAC never schedules a UE that PHY does not know: rrc_mac_remove_ue takes the
\* UE out of UE_list before mac_phy_remove_ue, so the inclusion holds at every
\* interleaving of the two threads.
MacUesInPhy == \A r \in UE_list : SlotsOf(r) # {}

\* A UE whose Msg3 has gone out does not wait for Msg4 for ever: contention is
\* resolved, lost, or the timer sends the UE back to PRACH.
RaResponseEnds ==
    \A u \in UEs : (ue[u].mode = "RA_RESPONSE") ~> (ue[u].mode # "RA_RESPONSE" \/ aborted)

\* RNTI r occupies a template, a slot or a place in UE_list.
Held(r) ==
    \/ \E i \in Templates : /\ RA_template[i].rnti = r
                            /\ RA_template[i].active \/ RA_template[i].ack
    \/ SlotsOf(r) # {}
    \/ r \in UE_list

\* What an attempt takes is given back: whatever is lost on the way, template,
\* PHY slot and UE_list entry of an RNTI are released in the end, or RRC has had
\* the RRCConnectionSetupComplete for it.
NothingLeaks ==
    \A r \in Rntis :
        Held(r) ~> \/ ~Held(r)
                   \/ context[r] # NoContext /\ ~context[r].timer
                   \/ aborted

\* The RRCConnectionSetup a UE accepts is the one RRC made for its RNTI.
SetupIsOwn ==
    \A u \in UEs : ue[u].mode = "PUSCH" => ue[u].setup = ue[u].crnti
============================================================================
