------------------------------- MODULE RlcUmRx -------------------------------
(***************************************************************************)
(* The receiving side of an RLC unacknowledged-mode entity: duplicate      *)
(* detection, reordering and reassembly of rlc_um_dar.c and                *)
(* rlc_um_reassembly.c.  The handlers are functions of the entity rx,      *)
(* taken while lock_dar_buffer is held, so that one handler is one step.   *)
(***************************************************************************)
EXTENDS RlcUmTx

CONSTANT NoPdu   \* an empty slot of dar_buffer

VARIABLES
    rx,          \* the receiving part of the entity
    delivered    \* the SDUs (sequences of bytes) given to the upper layer

Sns == 0 .. SnModulo - 1

(***************************************************************************)
(* rlc_um_init and rlc_um_configure.  A multicast channel (is_mXch) has a  *)
(* window of 0.                                                            *)
(***************************************************************************)
UmRxInit ==
    /\ \E window \in {0, SnModulo \div 2} :
          rx = [win |-> window, ur |-> 0, ux |-> 0, uh |-> 0,
                dar |-> [sn \in Sns |-> NoPdu], running |-> FALSE,
                sdu |-> <<>>, missing |-> FALSE, last |-> SnModulo - 1, out |-> <<>>]
    /\ delivered = <<>>

Succ(sn) == (sn + 1) % SnModulo

-----------------------------------------------------------------------------
(***************************************************************************)
(* The two window tests.  rlc_sn_t is signed and C's remainder keeps the   *)
(* sign of the dividend.                                                   *)
(***************************************************************************)
CMod(a) == IF a >= 0 THEN a % SnModulo ELSE -((-a) % SnModulo)

InWindow(r, lower, sn, higher) ==
    LET modulus == r.uh - r.win
        l == CMod(lower - modulus)
        h == CMod(higher - modulus)
        s == CMod(sn - modulus)
    IN  CASE l > s -> -2
          [] l <= s /\ h < s -> -1
          [] l < s /\ s < h -> 0
          [] l = s /\ s < h -> 1
          [] l < s /\ s = h -> 2
          [] l = s /\ s = h -> 3

InReorderingWindow(r, sn) == CMod(sn - (r.uh - r.win)) \in 0 .. r.win - 1

-----------------------------------------------------------------------------
\* Mutant of Skipped: the tail of an SDU whose start is missing passes for an SDU.
NothingSkipped(r, pdu) == FALSE

\* The first piece is the tail of an SDU that began in a missing PDU.
Skipped(r, pdu) == ~pdu.starts /\ r.missing

(***************************************************************************)
(* The pieces of one PDU join the SDU in construction: every piece but the *)
(* last completes an SDU, the last one if the PDU ends with an SDU.  After *)
(* a missing PDU the tail of an SDU that began in it is skipped.           *)
(***************************************************************************)
Reassembly(r, pdu) ==
    LET pieces == IF Skipped(r, pdu) THEN Tail(pdu.pieces) ELSE pdu.pieces
        m == Len(pieces)
        begun == IF pdu.starts THEN <<>> ELSE r.sdu
        joined == [i \in 1 .. m |-> IF i = 1 THEN begun \o pieces[1] ELSE pieces[i]]
    IN  [r EXCEPT !.out = @ \o SubSeq(joined, 1, IF pdu.ends THEN m ELSE m - 1),
                  !.sdu = IF m = 0 THEN begun ELSE IF pdu.ends THEN <<>> ELSE joined[m],
                  !.missing = m = 0 /\ ~pdu.ends]

\* One turn of the loop of rlc_um_try_reassembly.
ReassemblySn(r, sn) ==
    IF r.dar[sn] = NoPdu
    THEN [r EXCEPT !.missing = TRUE, !.sdu = <<>>]
    ELSE Reassembly([r EXCEPT !.sdu = IF Succ(r.last) = sn THEN @ ELSE <<>>,
                              !.last = sn,
                              !.dar[sn] = NoPdu],
                    r.dar[sn])

TryReassembly(r, start, end) ==
    LET turns == Min({k \in 1 .. SnModulo : (start + k) % SnModulo \in {r.uh, end}})
        loop[k \in 0 .. turns] ==
            IF k = 0 THEN r ELSE ReassemblySn(loop[k - 1], (start + k - 1) % SnModulo)
    IN  IF start = end THEN r ELSE loop[turns]

\* Mutant of WindowBottom: VR(UH) - UM_Window_Size is not brought back into range.
WindowBottomSigned(r) == r.uh - r.win

WindowBottom(r) == (r.uh - r.win + SnModulo) % SnModulo

\* Mutant of MoveWindow: VR(UR) is not pulled up when VR(UH) moves.
MovesUhOnly(r, sn) ==
    IF InReorderingWindow(r, sn) THEN r ELSE [r EXCEPT !.uh = Succ(sn)]

\* The PDU is beyond the reordering window: the window moves up to it.
MoveWindow(r, sn) ==
    LET r1 == [r EXCEPT !.uh = Succ(sn)]
        bottom == WindowBottom(r1)
    IN  IF InReorderingWindow(r, sn) THEN r
        ELSE IF InReorderingWindow(r1, r1.ur) THEN r1
        ELSE [TryReassembly(r1, r1.ur, bottom) EXCEPT !.ur = bottom]

\* The first SN after ur that was not received, at most uh.
AfterRun(r) ==
    LET run == Min({k \in 1 .. SnModulo :
                        LET s == (r.ur + k) % SnModulo IN r.dar[s] = NoPdu \/ s = r.uh})
    IN  (r.ur + run) % SnModulo

\* Mutant of MoveUr: VR(UR) goes on by one PDU only.
MovesUrByOne(r, sn) ==
    IF sn = r.ur /\ r.dar[sn] # NoPdu
    THEN TryReassembly([r EXCEPT !.ur = Succ(sn)], sn, Succ(sn))
    ELSE r

MoveUr(r, sn) ==
    IF sn = r.ur /\ r.dar[sn] # NoPdu
    THEN TryReassembly([r EXCEPT !.ur = AfterRun(r)], sn, AfterRun(r))
    ELSE r

StopTimer(r) ==
    IF /\ r.running
       /\ \/ r.uh # r.ux /\ ~InReorderingWindow(r, r.ux)
          \/ InWindow(r, r.ur, r.ux, r.uh) \in {-2, 1}
    THEN [r EXCEPT !.running = FALSE]
    ELSE r

StartTimer(r) ==
    IF ~r.running /\ InWindow(r, r.ur, r.uh, r.uh) = 2
    THEN [r EXCEPT !.running = TRUE, !.ux = r.uh]
    ELSE r

\* The discarded PDU: below VR(UR), or in the buffer already.
Discarded(r, sn) ==
    \/ InWindow(r, r.uh - r.win, sn, r.ur) \in {0, 1}
    \/ r.dar[sn] # NoPdu /\ InWindow(r, r.ur, sn, r.uh) = 0

ReceiveProcessDar(r, pdu) ==
    IF Discarded(r, pdu.sn) THEN r
    ELSE StartTimer(StopTimer(MoveUr(MoveWindow([r EXCEPT !.dar[pdu.sn] = pdu], pdu.sn),
                                     pdu.sn)))

\* Mutant of TimerDarTimeOut: t-Reordering is not started again.
StopsForGood(r) ==
    LET run == Min({k \in 0 .. SnModulo : r.dar[(r.ux + k) % SnModulo] = NoPdu})
        ur == (r.ux + run) % SnModulo
    IN  [TryReassembly([r EXCEPT !.ur = ur], r.ur, ur) EXCEPT !.running = FALSE]

\* rlc_um_check_timer_dar_time_out, at the time-out.
TimerDarTimeOut(r) ==
    LET run == Min({k \in 0 .. SnModulo : r.dar[(r.ux + k) % SnModulo] = NoPdu})
        ur == (r.ux + run) % SnModulo
        r1 == TryReassembly([r EXCEPT !.ur = ur], r.ur, ur)
    IN  StartTimer([r1 EXCEPT !.running = FALSE])

\* A handler ends: rlc_um_send_sdu has passed its SDUs on.
Handled(r) ==
    /\ rx' = [r EXCEPT !.out = <<>>]
    /\ delivered' = delivered \o r.out
=============================================================================
