# TLA+ models of OpenAirInterface: RLC, PDCP, random access, inter-task messages

The repository is OpenAirInterface, an LTE base station (eNB) and user equipment
(UE) in C. This directory holds TLA+ modules for the parts of its own logic in
which the order of events matters most and which tests reach least:

* the radio link control protocol in acknowledged mode (`openair2/LAYER2/RLC/AM_v9.3.0`)
  and in unacknowledged mode (`.../UM_v9.3.0`);
* the numbering under which PDCP ciphers (`openair2/LAYER2/PDCP_v10.1.0`);
* random access with the RRC connection request it carries, across MAC, PHY and
  RRC of the UE and of the eNB;
* ITTI, the threads and message queues every task runs on (`common/utils/itti`).

`PROJECT.json` lists components, runs, source map, hazards, findings and theorems.
Model-check a run with `tlc -config tx.cfg MCRlcAmTx` (module and cfg of each run
are in `PROJECT.json`); check the proofs of a module with `tlapm RlcAmTxProof.tla`
(and likewise for the other modules `*Proof` and `Recursion`).

## 1. Inventory of the system

| Part | State | Operations | Interacts with |
|---|---|---|---|
| **RLC AM, transmitting side** | VT(A), VT(S), VT(MS), POLL_SN, poll counters, t-PollRetransmit, `tx_data_pdu_buffer` (512 entries, shared by SN modulo 512), totals of what is pending | SDU from PDCP, request for PDUs by MAC, STATUS PDU, timer | PDCP above, MAC below, the peer's receiver |
| **RLC AM, receiving side** | VR(R), VR(MR), VR(X), VR(MS), VR(H), `receiver_buffer` (sorted list of PDUs and segments), t-Reordering, t-StatusProhibit, status triggers | data PDU, request for a STATUS PDU, timers | PDCP above, MAC below, the peer's transmitter |
| RLC AM input ring (`rlc_am_in_sdu.c`) | ring of SDUs with a count of the PDUs that carry them | SDU in, segment out, confirm | PDCP and MAC threads, `lock_input_sdus` |
| **RLC UM** | VT(US), list of SDUs; VR(UR), VR(UX), VR(UH), `dar_buffer`, t-Reordering, the SDU in construction | SDU, request by MAC, PDU, timer | PDCP, MAC |
| RLC TM, RLC dispatch | a queue; a hash table of entities | pass through | MAC, RRC, PDCP |
| **PDCP** | next SN and HFN of each direction, last SN submitted | SDU, PDU, (de)cipher, configuration | RLC, RRC, IP, GTP-U |
| **MAC random access** | UE: RA state, Msg3 buffer, contention timer; eNB: RA templates, `UE_list` | preamble, RAR, Msg3, Msg4, timers, removal | PHY, RRC |
| MAC schedulers and multiplexing | HARQ processes, buffer status | subframe tick | PHY, RLC |
| **RRC eNB / UE** (part) | UE contexts and their release timers, `Srb0.Tx_buffer`; T300 | CCCH messages, timers | MAC, RLC/PDCP configuration, S1AP, NAS |
| NAS UE (EMM, ESM) | EMM state, T3410 and others | attach, detach, authentication | RRC |
| S1AP, GTP-U, SCTP, UDP, X2AP tasks | connections, TEIDs | ITTI messages | RRC, core network |
| **ITTI** | task states, a queue per task, event descriptors, pending signals, timers | create, send, receive, broadcast, terminate, join | every task |
| memory pool, lists, hash tables, eNB application, FlexRAN agent, modem threads, PHY | | | |

Modelled parts are in bold. What is hard in them:

* **Unreliable, reordered delivery.** HARQ processes run in parallel: PDUs are
  lost, repeated and overtake each other; with resegmentation the same bytes
  arrive again in other pieces. On the random access channel two UEs may even be
  one to the eNB.
* **Windows over small circles of sequence numbers**, compared modulo a power of
  two against moving bases, in RLC with signed remainders, in PDCP with a hyper
  frame number that both ends must count alike without ever exchanging it.
* **State kept twice by hand**: totals of pending retransmissions; the UEs of MAC,
  of PHY and of RRC; an event counter beside a queue.
* **Threads without locks**: RRC removes a UE while MAC schedules it; tasks start,
  send and end at every interleaving.
* **Timers racing answers**: t-PollRetransmit against a late STATUS PDU, T300
  against Msg4, the contention timer against its retransmission.
* **Liveness across entities**: somebody must poll, somebody must answer, what an
  attempt took must be given back, everybody must hear of the end.

## 2. Modules

| Module | What |
|---|---|
| `RlcAmSn` | arithmetic on sequence numbers, slots; the modulus is twice the window |
| `RlcAmTx` | AM transmitter; `TxSpec` is the transmitter with a peer that may send STATUS PDUs that make no sense |
| `RlcAmRx` | AM receiver: actions and operators |
| `RlcAmLink` | composes a transmitter, its peer's receiver and the two MAC layers |
| `RlcAmService` | abstract specification: an in-order, exactly-once byte pipe |
| `MCRlcAmTx`, `MCRlcAmLink` | constants for TLC |
| `RlcAmTxProof` | theorems about `TxSpec` |
| `RlcAmLinkProof` | theorems about `LinkSpec` |
| `RlcUmTx`, `RlcUmRx` | UM segmentation; duplicate detection, reordering, reassembly |
| `RlcUmLink` | composes the two with MAC layers that lose, repeat and reorder |
| `RlcUmService` | abstract specification: whole SDUs, in order, none twice, any of them missing |
| `RlcUmProof` | theorems about `UmSpec`: segmentation, window, types |
| `RlcUmLinkProof` | theorems about `UmSpec`: which SDUs come out |
| `Pdcp` | both ends of a PDCP bearer with RLC between them |
| `RandomAccess` | the UEs, the eNB's MAC and PHY tables, and the eNB's RRC task |
| `Itti` | main, the threads of the tasks, their queues, the start and the end |
| `PdcpProof`, `RandomAccessProof`, `IttiProof` | theorems about the three |
| `Recursion` | lemmas for loops written as recursive functions |

### State and actions against the code

**RLC AM.** An entry of `tx_data_pdu_buffer` is split in two functions over slots:
`pdu` (sn, whether `mem_block` is held, bytes) and `ctl` (`flags` and the
retransmission fields). `receiver_buffer` is the set of the elements of a list the
code keeps sorted. An `AssertFatal` sets `tx_fatal` or `rx_fatal`, after which the
entity does nothing more. `DataReq`, `Retransmit`, `NewPdu`, `OnlyGiveUp`,
`SendStatusPdu` are `rlc_am_data_req` and the three parts of `rlc_am_get_pdus`;
`ReceiveStatus` is `rlc_am_receive_process_control_pdu`; `ReceiveDataPdu` is
`rlc_am_receive_process_data_pdu` with everything it calls; three expiries are the
timer checks. The bytes handed over are numbered and a PDU is an interval of them:
which bytes come out is exact. `ends` says where SDUs end, and `LiBytes` what the length
indicators of a PDU or segment take (1.5 bytes each, rounded up). Where none fits behind
an SDU, `rlc_am_segment_10` reduces `pdu_remaining_size` only: the PDU then carries a
`filler`, bytes nobody wrote, which the receiver takes for data (`Unwritten`); asked for
a segment of such a PDU, `rlc_am_retransmit_get_am_segment` stops on an assertion. Framing
info, the limits of 128 SDUs to a PDU and of 11 bits to a length indicator are left out;
an SDU that `rlc_am_data_req` drops for want of room in `input_sdus` is one that was never
handed over. A block freed by an insertion and read on by its caller keeps its contents;
a block from the pool keeps a field nobody writes (`StaleFlags`; every run has both
values). `TimerConfigs` says which of t-Reordering and t-StatusProhibit RRC configured;
the choice is made in `Init`. `Status`, the STATUS PDUs of `tx`, leaves out those whose
NACK_SNs are not in order and those whose first NACK_SN is ahead of ACK_SN or more than
a window before it: the walk of the handler over those numbers is not modelled.

**RLC UM.** A byte is known by its SDU and its place in it. `TestPass` and
`FillPass` are the two loops of `rlc_um_segment_5/_10` with the sizes of length
indicators (2, 1, 2, 1, ... bytes); a PDU carries the pieces of SDUs that the
receiver will read out of it, bytes nobody wrote included (`Garbage`). The handlers
of `rlc_um_dar.c` hold `lock_dar_buffer` and are functions of the entity `rx`.
A window of 0 is a multicast channel, without HARQ. Left out: SDUs too long for the 11
bits of a length indicator (`rlc_um_segment.c:711-728`), more than 128 of them in a PDU
(`rlc_um_dar.c:186`), and an SDU in construction that overflows its buffer
(`rlc_um_reassembly.c:78-97`).

**PDCP.** `PdcpDataReq` is `pdcp_data_req` with `pdcp_get_next_tx_seq_number` and
the COUNT `pdcp_apply_security` takes; `PdcpDataInd` is `pdcp_data_ind` with
`pdcp_is_rx_seq_number_valid` and the COUNT `pdcp_validate_security` takes. What is on
the wire are octets: `Header` writes the 5-bit SN of an SRB and a 12-bit SN on *every*
DRB, `SnOfHeader` reads 5, 7 or 12 bits. A kind of bearer selects the branches:
`um_short` is a DRB over UM configured with 7-bit SNs, `am_gtp` a DRB over AM at an eNB
that forwards its SDUs to GTP-U. RLC may drop a PDU that has its number already, over UM
on the air, over AM in `rlc_am_data_req` when the input buffer is full
(`rlc_am.c:1267-1304`). A transmitted PDU remembers the HFN it was ciphered with, which is
what the receiver has to guess. The HFN is a natural number here, 32 bits in the code.

**Random access.** One action per event of a subframe, with the UEs that hear it
chosen freely: `PrachSubframe`, `SendRar`, `Msg3Error`, `Msg3Received`,
`Msg4Feedback`. `SendRar` sends the RAR also when `add_ue` finds no slot and the procedure
is cancelled; a UE that hears it sends a Msg3 nobody listens to (`Msg3Unheard`).
`ScheduleRA` starts a call of `schedule_RA`, which then takes one step per template
(`SkipTemplate`, `ScheduleRar`, `CheckMsg4`) and two for a Msg4: `FetchSetup`, which looks
the UE up and takes the CCCH SDU, and `SendMsg4`, which writes the template and the
transport block. Nothing is locked: the RRC task runs `DecodeCcch` and the three steps of
`rrc_mac_remove_ue` (`RemoveStep`) between any two of them, and so do the PRACH thread
(`lte-enb.c:1549-1575`) and the other of PHY's two threads (`lte-enb.c:586-661`), in
which `ReleaseTimerExpires` may run. Whether a DCI fits is chosen freely. PHY sends nothing
for an RNTI it does not know, nor for RNTI 0. `aborted` is an `abort()`, `DevAssert` or
`macphy_exit` of the eNB. A connection request carries a random value, the only identity
this repository's UE sends (`asn1_msg.c:1175`); the branch of `rrc_eNB_decode_ccch` for an
S-TMSI (`rrc_eNB.c:4207-4240`) is not modelled. RNTIs are drawn so that nobody holds them
(`RntiCollisions = FALSE`; see 3).

**ITTI.** `pc` says where main and each thread is. `itti_send_msg_to_task` is three
steps (state of the destination, enqueue, write of the event), a reception two,
`ready_tasks++` two, `itti_create_task` three (the thread exists, `created_tasks++`, the
wait), the end of `itti_terminate_tasks` two (SIGUSR1 to main, `pthread_exit`). A broadcast
visits every thread but the caller's own. A task sends while it handles a message, may call `exit_fun`,
and leaves on TERMINATE_MESSAGE. Sub-tasks share the thread of `TASK_L2L1`: they
have a queue that is polled and no event descriptor.

## 3. Runs

| Run | Instance | Shows |
|---|---|---|
| `tx` | window 2, three 3-byte PDUs, grants that force segments, the STATUS PDUs of `Status` over those numbers with up to two ranges | types, window, no held PDU overwritten, totals never below what is pending |
| `link_wrap` | window 2, five 1-byte PDUs, STATUS grants for one or two NACKs, four timer configurations | AM refines the byte pipe, no byte lost, windows agree |
| `link_live` | two SDUs of 2 bytes, in one PDU with a length indicator or in two, grants 7 and 8, so that a retransmission may be whole or in segments; t-StatusProhibit | no byte lost; everything is delivered and acknowledged unless a PDU was given up |
| `um_link` | 6 sequence numbers, three SDUs of 1 or 3 bytes, grants 2 and 7, three PDUs on the air | UM refines the SDU service, loses nothing to reordering alone, the two passes agree, the receiving window keeps its order, stored PDUs come out |
| `pdcp` | 5 kinds of bearer, 8 sequence numbers, 18 PDUs (two wraps), gaps up to 3 | COUNTs are never reused; where the receiver keeps up they agree and both ends are in step |
| `random_access` | 2 UEs, 1 preamble, 2 templates, 2 slots, 2 RNTIs, 2 PRACH subframes, one T300 expiry | contention is resolved, an RNTI has one PHY slot, PHY knows every UE of `UE_list` |
| `ra_live` | the same with 1 slot, so that RARs go out without one; no T300 expiry | every response ends, nothing leaks |
| `itti` | 2 threads, a sub-task, main, queues of 2, one message each, one task that may end the program | events match messages, senders find their task, the start completes, messages arrive, everybody is told, Ctrl-C ends the program |
| `link_stale`, `um_10_bits`, `pdcp_uplink`, `ra_setup` | | violations, below |

*Bounds.* Every bound is a named constant. A window of 2 (AM) gives the numbers
0..3 and two buffer entries, so five PDUs wrap and reuse entries; 6 numbers (UM)
leave a window of 3, the smallest in which a PDU can be missing, another wait
above it and a third push the window on. `max_retx_threshold = 1` and
`maxHARQ_Msg3Tx = Mlimit = 2` let a retransmission happen and be the last. One
preamble makes every simultaneous attempt a collision. Two conditions keep small
circles honest: `MacLifetime` (AM) and `WithinWindow` (UM) say that MAC does not
hold a PDU while a window of later ones is sent (in `MacLifetime`: VT(S) is at most
a window ahead of the PDU), and `PdcpDataReq` that RLC does
not drop half the numbers in a row; with 512, 16 or 2048 numbers against a few
milliseconds of HARQ the code relies on the same.

*Deadlock* is not checked: once the bounded traffic is delivered, or the process
has ended, there is nothing left to do.

*Fairness.* AM: weak fairness of the link's own steps, since MAC asks every entity
in every scheduling round and timers are checked every subframe; a loss counts as
progress, so liveness rests on retransmissions being bounded, and allows for a PDU
that was given up. It also rests on totals that are right (`CountedOnce`, which holds in
all of `link_live`; below what happens when it does not). UM: a running t-Reordering
expires. Random access: timers,
subframes and both eNB threads go on, and the control channel has room now and
then for a RAR that is scheduled again and again (strong fairness of
`ScheduleRar(i, TRUE)`); that T300 expires, that a UE tries again or that
RRCConnectionSetupComplete gets through is not assumed. ITTI: the operating system
runs main and each thread; nobody has to send, to end the program or to type
Ctrl-C.

### Findings

Four runs end in a violation of what a comment of the code says:

* `link_stale`: `create_new_segment_from_pdu` (`rlc_am_rx_list.c:122-315`) fills the fields
  of a truncated segment one by one, but not `all_segments_received`; "Content is supposed
  to be init with 0", says line 239, but blocks of the pool keep what they held. With TRUE
  the head of the list is delivered although it has been delivered before: in the run the
  bytes 0, 1, 0, 1, 2, 3 come out.
* `um_10_bits`: `rlc_um_segment_10` "reduces the size of the PDU" in one of two
  variables (`rlc_um_segment.c:171-210`; `rlc_um_segment_5` reduces both). The PDU
  ends in bytes nobody wrote, and the receiver appends them to the last SDU.
  `um_link` therefore checks the 5-bit variant. `rlc_am_segment.c:262-311` has the same
  arithmetic, and so has `RlcAmTx`: `link_wrap` with `DataGrants = {4}` violates
  `ImplementsService` in the same way. Its own grants leave no filler, like those of
  `link_live`.
* `pdcp_uplink`: where SDUs are forwarded to GTP-U, `last_submitted_pdcp_rx_sn`
  never moves from its first value. From half the SN range on, PDUs count as out of
  window, and are deciphered with RX_HFN - 1 although nothing was lost.
* `ra_setup`: `Srb0.Tx_buffer` is one per carrier and is fetched without an RNTI.
  When two Msg3 arrive before RRC answers, a UE can accept the RRCConnectionSetup
  made for another.

Observed while modelling, and reproduced by the modules without a run of their own:

* RLC AM, `rlc_am_status_report.c:332`: of an overtaken STATUS PDU the first NACK_SN
  may lie before VT(A); the cursor runs round the circle and frees everything
  outstanding (`link_wrap` with `MaxStatus = 2` and `StatusReorder = TRUE` violates
  `NoByteLost`).
* `rlc_am_status_report.c:353`: a NACK is refused *after* earlier PDUs were freed;
  VT(A) stays, and `rlc_am_timer_poll_retransmit.c:91` asserts on such an entry.
* `rlc_am_timer_poll_retransmit.c:99`: a PDU already pending is counted twice; later
  a retransmission starts with nothing outstanding (`rlc_am_retransmit.c:1197`), or
  the bytes left over make line 81 believe that something is to be sent, no PDU is ever
  reconsidered, and the link stops (`link_live` with `DataGrants = {3, 7}`,
  `SduSizes = {1}`, `MaxBytes = 3` violates `EveryByteDelivered` without `CountedOnce`).
* `rlc_am_retransmit.c:63`: `assert(so_startP <= so_endP)` on what the peer sent; a STATUS
  PDU with such a range stops the process (`NackAsserts`).
* `rlc_am_receiver.c:181`: a PDU completed by a segment that is not its last leaves
  VR(MS) behind VR(R), which is why `link_live` does not check `WindowsAgree`.
* `rlc_am_rx_list.c:765`: a whole PDU after delivered segments of it leaves kept
  segments that are not marked complete, and the reassembly check asserts. So do
  `:632` (a segment that covers stored ones) and `:744` (insertion before NULL).
* `rlc_am_timer_reordering.c:115` speaks of restarting t-Reordering, but nothing sets
  `running` again; `rlc_am_status_report.c:662`: SO ranges after the first gap cover
  received bytes; `rlc_am_retransmit.c:1239`: RRC is not told of a PDU given up.
* `rlc_um_dar.c:657`: with t-Reordering of 0 ms the timer never runs, and PDUs above
  a gap wait for the window to pass. The model has a positive duration.
* `pdcp_sequence_manager.c:240`: when the PDU with the last SN is missing, the first one
  behind the wrap increments `next_pdcp_rx_sn` instead of setting it, and it may leave its
  range. Over AM that takes an SDU `rlc_am_data_req` drops; `Followed` ends there
  (`wrapLost`), and `EveryCountAgrees` fails afterwards.
* `pdcp.c:191,236-241`: a DRB with 7-bit SNs is sent 12-bit headers, of which
  `pdcp.c:547-549` reads 7 bits of the first octet. `Followed` is false for `um_short`;
  `BearerKinds = {"um_short"}` violates `EveryCountAgrees` with the second PDU.
* `eNB_scheduler_RA.c:269`: `find_UE_id` fails, and the eNB aborts, when the RRC task has
  taken the UE out of `UE_list` and not yet reset the template. When the whole removal
  falls between line 268 and line 616, the scheduler sets `wait_ack_Msg4` in a template
  that was reset, with RNTI 0, and the DevAssert of line 730 fails in a later call. The
  model has both outcomes (`aborted`), no property forbids them. Line 716:
  Msg4 HARQ that ran out of rounds counts as acknowledged. The SDU fetched for a
  Msg4 whose DCI does not fit is lost. Line 767: an RNTI may be in use without being
  in `UE_list` (the comment says so); with `RntiCollisions = TRUE` the uniqueness of
  C-RNTIs is gone, so the runs assume it does not happen (58976 RNTIs).
* `intertask_interface.c:766-767`: a thread is READY before `ready_tasks++`, which is
  not atomic. `itti_wait_ready(0)` may compare too early or miss an increment and
  stop the program; `Itti` has that outcome (`fatal = "wait_ready"`), and
  `StartCompletes` allows for it. Line 795: a task that ends the program before
  main listens tells nobody. Line 1015: `&& (!end)` makes the first pass over
  the threads the last, so the retries are never used and main usually leaves by
  the forced exit. A message to a task that has ended is not freed.

## 4. What is proved

### RLC AM, transmitting side (`RlcAmTxProof`)

`RlcAmTxProof` proves, for **every** window size, configuration, set of grants
and sizes of SDUs and every STATUS PDU in `Status`:

* `TxTypeCorrect`: `TxSpec => []TxTypeOK`
* `TxWindowCorrect`: `TxSpec => []TxWindow`
* `TxNeverOverwrites`: `TxSpec => NeverOverwritten`
* `TxRetransCoversPending`: `TxSpec => []RetransCoversPending`

Assumptions: `WindowAssumption` (the window is a positive number; the modulus is
twice the window by definition) and `TxAssumption` (constants have their types).

*Types.* `TxTypeOK` is inductive. Its content is in the entries: a list of ranges
from the peer becomes holes only after `AcceptedRanges` cut it to a prefix of
proper, disjoint ranges inside the PDU (`AcceptedRangesFit`, which needs that a
bounded set of naturals has a maximum), so the pending bytes are at most the
payload (`BytesOfFits`, by cardinality of an interval), and cutting a segment off
keeps it so (`AfterSegmentFits`). That a new PDU and a segment take at least a byte and
at most what is there is `LongestFits`: one byte needs no length indicator, so the set
`Longest` takes the maximum of is not empty. One lemma per action follows.

*Window.* `TxWindow` is a conjunction: at most a window is outstanding and VT(MS)
is its end; the entry of an outstanding number is its own; a held block belongs
to an outstanding number. It is inductive together with the types. The code
compares ACK_SN with the window, but the first NACK_SN, to which VT(A) moves, with
nothing. `FirstNackOutstanding` shows why the window survives: if the status is
accepted, the NACK was not refused, so its slot holds a block that was not freed;
that block's number is outstanding and shares the slot, hence is the NACK_SN
itself or a window before it (`SameSlot`), and in the latter case the cursor has
passed and freed it. (The proof also shows the weak point: it is the *refusal*
that protects VT(A), after blocks were freed.)

*No overwriting.* In `NewPdu` the window is not full, so the slot of VT(S)
belongs to no outstanding number and, by the window invariant, has no block.

*Retransmission totals.* A STATUS PDU changes many entries at once, so the argument
is per entry: a step changes a total by at least what it changes in each entry, and
sums that compare entry by entry compare (`SumOver` is a recursive function over the
slots, `Recursion` gives its induction). `RetransInv` adds `PendingMarked`:
`rlc_am_ack_pdu` takes an entry for pending by its `retx_payload_size`, not by its
flag, and the two must agree or acknowledging would leave a stale amount behind or
subtract one that was never added.

The lemmas are about `TxStep`, a step of the transmitter with *some* peer whose STATUS
PDUs satisfy `StatusOK` (ACK_SN and NACK_SNs are sequence numbers, ranges are ranges of
naturals, the first NACK_SN is one of the NACKs). `TxNext` is one such peer
(`NextIsStep`), the receiver of the bearer another.

### RLC AM, bearer (`RlcAmLinkProof`)

For every window size, every configuration of timers, thresholds and grants for STATUS
PDUs, whatever MAC loses and however data PDUs overtake each other:

* `LinkTypeCorrect`, `LinkWindowsAgree`, `LinkNoByteLost`:
  `LinkSpec /\ []WholePdus => []...`
* `LinkImplementsService`: `LinkSpec /\ []WholePdus => ImplementsService`

There are two hypotheses, and each is where the code fails. `~StatusReorder`: STATUS PDUs
arrive in the order in which they were sent; otherwise the code loses bytes (section 3,
`rlc_am_status_report.c:332`). `WholePdus`: no PDU on the air is a segment, and none has a
filler. With segments `WindowsAgree` (`rlc_am_receiver.c:181`) and `ImplementsService`
(`link_stale`) are false of the code; with a filler, bytes come out that nobody sent.
The hypothesis is about the behaviour, not about the configuration: a bearer has the
properties up to the first segment or filler MAC is given. SDUs of any size, several to a
PDU and PDUs with length indicators are covered. Run `link_wrap` is an instance.

The invariant `LinkInv` follows a byte through both entities:

* `Pieces`: the PDUs from VR(R) to VT(S) are held, and their payloads follow each other
  without a gap up to the last byte that left the transmission buffer;
* `InFlight` and `Buffer`: what is on the air and what is in `receiver_buffer` is a copy
  of the PDU in the transmitter's entry, if the receiver still expects it. The entry of
  a number is shared with another number a window away; `MacLifetime` and `Order` are
  what excludes the other one;
* `Order`: VT(A) <= VR(R) <= VR(MS) <= VR(H) <= VT(S), VR(X) in between while
  t-Reordering runs, and nothing is stored at VR(MS);
* `Reports`: every STATUS PDU on its way would move VT(A) at most to VR(R), and not
  behind where an older one would move it. This is the part that fails when STATUS
  PDUs overtake each other;
* `Delivered`: what came out is everything before the first byte of the PDU at VR(R).

Nothing in the code compares VT(A) with the peer's VR(R). That VT(A) stays behind it
follows from what is reported: ACK_SN is reached from VR(R) by passing only numbers
that are stored or NACKed, nothing is stored at VR(R), so a report beyond VR(R) has
VR(R) as its first NACK (`StatusPduIs`). For the arrival of a PDU, `NewHIs`, `NewRIs` and
`NewMsIs` say where VR(H), VR(R) and VR(MS) go, `ReassembleIs` what comes out: the loop of
`rlc_am_rx_list_reassemble_rlc_sdus` is a recursive function, `LoopIs` shows by
induction that after k turns it has taken the first k PDUs from the list (`LoopState`),
and `TurnStops` that it ends exactly at the new VR(R). The refinement is then immediate:
the bytes that come out in a step are the next ones of the pipe (`DeliveryIsNext`).

### RLC UM (`RlcUmProof`)

For every even number of sequence numbers, both header variants, every set of grants
and sizes of SDUs, unicast and multicast:

* `UmSegmentationNeverAsserts`: `UmSpec => []SegmentationNeverAsserts`
* `UmWindowCorrect`: `UmSpec => []UmWindow`
* `UmTypeCorrect`: `UmSpec => []UmTypeOK`

The assumptions are `UmTxAssumption` (types of the constants, an even modulus) and
`NoPduAssumption` (an empty slot of `dar_buffer` is not a PDU).

*Segmentation.* The invariant `SduInv` says that `buffer_occupancy` is the sum of what
remains of the SDUs, none of which is empty. With it the room of a PDU is either what
MAC offers or exactly what all SDUs need, and then no indicator follows the last one;
so the first pass either ends inside the list, or at its end with the room used up.
`PassesAgree` follows both loops to the SDU at which they stop (`RoomIs`: the room
after k SDUs is what both passes subtract) and shows that they stop at the same one:
the bytes the first pass cuts off are what makes "remaining = room" true in the second.
`PayloadIs`, `AfterWhole` and `AfterPart` then restore the sum. Both variants of the
header are covered; that `rlc_um_segment_10` counts bytes nobody wrote (section 3) is
a different matter, as it concerns `tb_size` only.

*Window.* `WindowOK` places all numbers by their distance from VR(UR): VR(UH) at most a
window ahead, the stored PDUs strictly below it, VR(UX) not above it. `CModIs` and
`KeptIs` reduce the tests on signed remainders to such distances, wraps included. Two
things carry the argument. The slot at VR(UH) is always empty, so the search of the
time-out from VR(UX) ends there at the latest (`TimeOutIs`) instead of going round the
circle. And a PDU that is not discarded is stored either inside the window or less than
a window above it, so that moving VR(UH) to it frees everything that falls out below
(`Advance`: what `rlc_um_try_reassembly` leaves is ahead of the new VR(UR)). A multicast
channel has a window of 0, every test fails there, and the argument is the order of
the channel: `OrderOK` says that VR(UH) is the number of the next PDU expected.

### RLC UM, what comes out (`RlcUmLinkProof`)

With the 5-bit header (`ShortSn`), from the same assumptions and in the same generality:

* `UmLosesNothing`: `UmSpec => []ReorderingLosesNothing`
* `UmImplementsService`: `UmSpec => ImplementsUmService`

`ShortSn` is needed: `um_10_bits` is the counterexample for the other header.

Nothing in the program says where in the stream of SDUs a PDU starts. The invariant
`StreamInv` says that such *cuts* exist: PDU n starts at byte o[n] of SDU c[n], and
ends where PDU n + 1 starts. In terms of them:

* `Sent`: cuts lie inside the SDUs handed over and follow each other strictly (`Cuts`);
  the last one is where the list of SDUs starts now; each PDU on the air carries exactly
  the pieces between its two cuts (`IsPdu`);
* `RxAt`: VR(UR) is the number of a PDU U and VR(UH) that of PDU `seen`, not only modulo
  the number of sequence numbers; what is stored are PDUs from U on, below `seen`; the
  SDU in construction is SDU c[U] up to byte o[U], unless a PDU was missing, in which
  case it is empty; what came out are SDUs before c[U], whole and in order (`Done`);
* `NoGap`: as long as nothing was lost and t-Reordering has not expired, PDU U, if sent, is still
  on the air and so is every later one that is not stored. Then `Done` holds of all SDUs.

`CutIs` and `NewPdu` show that one call of the segmentation adds one cut, from what
`SegmentSdus` (`RlcUmProof`) says of the two passes: with the 5-bit header the number of
bytes nobody wrote is 0. `PduReassembled` follows a PDU through the reassembly: its first
piece is joined to the SDU in construction exactly when the PDU before it was there, and
dropped when the start of that SDU is missing. `RunIs` is the loop over the stored PDUs,
by the induction of `Recursion`. `ReceiveTo` and `TimeOutTo` say to which PDU the handlers
move VR(UR) and VR(UH); `DiscardedIs` and `NotDiscardedIs` that the tests on signed
remainders discard exactly what was handled or is stored already, which is where the
numbers of PDUs, rather than sequence numbers, are needed. The refinement follows: the
SDUs that come out in one step extend a strictly increasing list of SDU numbers.

### PDCP (`PdcpProof`)

For every SN length, every set of bearers and any amount of traffic:

* `PdcpNoCountTwice`: `PdcpSpec => NoCountTwice`, on every kind of bearer;
* `PdcpTypeCorrect`, `PdcpCountsAgree`, `PdcpEndsInStep`: `PdcpSpec => []...`, without a
  hypothesis.

The last two say something while `Followed`: on SRBs, on DRBs over UM with 12-bit SNs, and
on DRBs over AM until RLC drops a PDU with the last SN. Each exception is one of the code:
`am_gtp` (run `pdcp_uplink`), `um_short` and the dropped PDU (section 3).

That the receiver reads the SN the transmitter wrote is a lemma about octets
(`HeaderRead`). The invariant places the receiver *behind the transmitter by what is in RLC*:
`PdusLead` says that the PDUs in RLC follow each other, the first at most half the
numbers after the last one received, and the transmitter after the last. With it
`RxFollows` shows that the receiver's comparison (new PDU, or one of the window
before) finds the HFN of the PDU, at the wrap of the SN in particular. For the
COUNTs an invariant `PdusBehind` on positions (HFN, SN) suffices: the position is
strictly increasing, and so is the COUNT computed from it (`CountGrows`).

### ITTI (`IttiProof`)

For any sets of threads, sub-tasks and senders and any queue size, without a
hypothesis: `IttiTypeCorrect`, `IttiEventsMatch`, `IttiSendersFindTheirTask`,
`IttiEverybodyIsTold`.

The invariant has a part per phase of a task's life. `StartInv`: as long as
`wait_tasks` is set only main moves beyond its start, and once it is reset every
thread created is READY (the loop of `itti_wait_ready` counts them); this is what
senders rely on when they read the state of their destination without a lock.
`CountInv`: `ready_tasks` is at most the number of threads that passed the
increment, counting a thread between load and store, and `created_tasks` is the number
of threads started, but for the one main has not counted yet; so that equality in
`itti_wait_ready` really means everybody. `QueueInv`: the event counter of a task is the
number of its messages, less the writes still to come, plus what its thread has
read and not yet taken. `TellInv`: a broadcast leaves behind it only threads that have a
TERMINATE_MESSAGE or are leaving, besides the one that broadcasts; that one is on its way
to `pthread_exit` when it signals main, and what was enqueued is still there unless its
receiver has ended.

### Random access (`RandomAccessProof`)

For any number of UEs, preambles, templates, slots and RNTIs, and any limits:

* `RaTypeCorrect`: `RaSpec => []RaTypeOK`;
* `RaContentionResolved`, `RaOneSlotPerRnti`, `RaMacUesInPhy` under
  `~RntiCollisions`, the assumption of the runs: the eNB draws no RNTI still in
  use somewhere. The code does not check that (section 3), and without it C-RNTIs
  are not unique.

`TablesInv` gives an RNTI one slot of PHY and one template, and says that once a slot
carries a Msg4 the procedure is over, and that the Msg4 in the slot of a connected UE
is the one made for that UE: two UEs with one C-RNTI would both have found their
identity in it. `KnownInv` says who knows an RNTI: an armed Msg3 and a pending RAR are
of an RNTI neither `UE_list` nor RRC knows yet, a CCCH message on its way to the RRC
task is of one that only `UE_list` knows, and a UE being removed keeps its slot until
PHY is told.

The steps of `schedule_RA` are proved one by one; what the thread carries from
`FetchSetup` to `SendMsg4` needs a part of its own: while it holds a CCCH SDU, the
template it is for is still active or has been reset (`Fetched`). With it a Msg4 never
goes to a UE whose procedure is over, although the template may have been reset, and even
taken again for another RNTI, in between.

### Recursion

Loops are recursive functions in the models. What such a function computes cannot be
proved by the library's induction theorems; `Recursion` therefore proves existence
(`RecursionExists`) and induction up to a bound in the form of sets (`InductionTo`), from
the least element of a set of naturals. The proofs of RLC use them.

### Only model-checked

Liveness (fairness and ENABLED are out of the prover's reach); the AM bearer when PDUs
are sent in segments (`link_live`).

## 5. Not modelled, and the plan

The repository has about half a million lines, most of which are signal
processing, its unit simulations, generated ASN.1 and message tables, and
configuration: numeric or sequential code without a protocol to check. Of the rest,
not modelled: the schedulers (here the environment that offers grants), I/O tasks
(S1AP, GTP-U, SCTP, UDP), NAS, RRC beyond the connection request, RLC TM, bearer
configuration in RLC and PDCP, the AM input ring with its data confirmations,
`rlc_am_reestablish` and other functions nothing calls. Time is not modelled: a
running timer may expire at any step, so comparisons with a wrapping frame counter
are not covered.

Next, the proof for the AM receiver's buffer with segments (stored segments of a PDU
are disjoint parts of it), and `NoByteLost` from it.

Modules worth adding after that: the AM input ring and its lock, the EMM attach
procedure with its retransmission timers, UE-associated S1AP connections.
