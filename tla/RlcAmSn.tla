------------------------------- MODULE RlcAmSn -------------------------------
(***************************************************************************)
(* Sequence-number arithmetic of the RLC acknowledged-mode entity          *)
(* (openair2/LAYER2/RLC/AM_v9.3.0/rlc_am_constants.h).  The code has       *)
(* 10-bit sequence numbers (RLC_AM_SN_MODULO = 1024) and a window of 512;  *)
(* the window is a parameter here, the modulus twice the window as there.  *)
(***************************************************************************)
EXTENDS Integers

CONSTANT WINDOW_SIZE   \* RLC_AM_WINDOW_SIZE

ASSUME WindowAssumption == WINDOW_SIZE \in Nat \ {0}

SN_MODULO == 2 * WINDOW_SIZE
SN == 0 .. SN_MODULO - 1
Slots == 0 .. WINDOW_SIZE - 1

\* RLC_SN_UNDEFINED: what poll_sn, vr_x and sn_status_triggered_delayed hold for "none".
Undefined == -1

(***************************************************************************)
(* RLC_AM_NEXT_SN, RLC_AM_PREV_SN, RLC_AM_DIFF_SN and RLC_AM_SN_IN_WINDOW. *)
(* The arguments are in 0 .. SN_MODULO - 1, so the mask of the code is one *)
(* subtraction.  DiffSn(sn, ref) is how far sn lies ahead of ref on the    *)
(* circle of sequence numbers.                                             *)
(***************************************************************************)
NextSnNoWrap(sn) == sn + 1   \* mutant of NextSn: the mask is forgotten
PlusSn(sn, n) == IF sn + n < SN_MODULO THEN sn + n ELSE sn + n - SN_MODULO
NextSn(sn) == PlusSn(sn, 1)
PrevSn(sn) == IF sn = 0 THEN SN_MODULO - 1 ELSE sn - 1
DiffSn(sn, ref) == IF sn >= ref THEN sn - ref ELSE sn - ref + SN_MODULO
SnInWindow(sn, ref) == DiffSn(sn, ref) < WINDOW_SIZE

\* The index of sn in tx_data_pdu_buffer: sn % RLC_AM_WINDOW_SIZE.
Slot(sn) == IF sn < WINDOW_SIZE THEN sn ELSE sn - WINDOW_SIZE

\* The sequence numbers a cursor visits on its way from a up to, not including, b.
Between(a, b) == {sn \in SN : DiffSn(sn, a) < DiffSn(b, a)}

\* Where a cursor that starts at a and stops at the first member of S, or at b, ends.
FirstIn(S, a, b) ==
    IF S \cap Between(a, b) = {} THEN b
    ELSE CHOOSE sn \in S \cap Between(a, b) :
            \A other \in S \cap Between(a, b) : DiffSn(sn, a) <= DiffSn(other, a)
=============================================================================
