------------------------------- MODULE RlcUmTx -------------------------------
(***************************************************************************)
(* The transmitting side of an RLC unacknowledged-mode entity: the list of *)
(* input SDUs of rlc_um.c and the two fill passes of rlc_um_segment.c.     *)
(*                                                                         *)
(* A byte is <<k, j>>: the j-th byte of the k-th SDU.  Garbage is a byte   *)
(* of the PDU's block that nothing was copied to.                          *)
(***************************************************************************)
EXTENDS Integers, Sequences, FiniteSets, FiniteSetsExt

CONSTANTS
    SnModulo,       \* rx_sn_modulo and tx_sn_modulo: 32 or 1024
    ShortSn,        \* the 5-bit sequence numbers (rlc_um_segment_5), else the 10-bit ones
    UmGrants,       \* transport-block sizes (bytes) MAC may offer
    UmSduSizes,     \* sizes of the SDUs the upper layer hands over
    MaxSdus,        \* bound: SDUs handed over in a behaviour
    MaxOnAir        \* bound: PDUs between the two MAC layers

ASSUME UmTxAssumption ==
    /\ SnModulo \in Nat \ {0} /\ SnModulo % 2 = 0
    /\ ShortSn \in BOOLEAN
    /\ UmGrants \subseteq Nat
    /\ UmSduSizes \subseteq Nat \ {0}
    /\ MaxSdus \in Nat
    /\ MaxOnAir \in Nat

MinHeader == IF ShortSn THEN 1 ELSE 2   \* tx_header_min_length_in_bytes
Garbage == <<0, 0>>

VARIABLES
    vt_us,              \* VT(US); the header carries it modulo SnModulo
    input_sdus,         \* list of SDUs [id, size, remaining]
    buffer_occupancy,
    sdu_sizes,          \* sizes of all SDUs handed over so far
    air,                \* PDUs given to MAC, neither lost nor delivered for the last time
    um_fatal            \* the assertion that stopped the process, or "none"

umTxVars == <<vt_us, input_sdus, buffer_occupancy, sdu_sizes, air, um_fatal>>

UmTxInit ==
    /\ vt_us = 0
    /\ input_sdus = <<>>
    /\ buffer_occupancy = 0
    /\ sdu_sizes = <<>>
    /\ air = {}
    /\ um_fatal = "none"

SduBytes(id, from, n) == [j \in 1 .. n |-> <<id, from + j - 1>>]

\* rlc_um_data_req: the upper layer hands an SDU over.
UmDataReq(size) ==
    /\ um_fatal = "none" /\ Len(sdu_sizes) < MaxSdus
    /\ sdu_sizes' = Append(sdu_sizes, size)
    /\ input_sdus' = Append(input_sdus,
                            [id |-> Len(sdu_sizes) + 1, size |-> size, remaining |-> size])
    /\ buffer_occupancy' = buffer_occupancy + size
    /\ UNCHANGED <<vt_us, air, um_fatal>>

-----------------------------------------------------------------------------
(***************************************************************************)
(* The size of the PDU: what MAC offers, or what all SDUs need.  k length  *)
(* indicators take 2, 1, 2, 1, ... bytes (12 bits each, padded).           *)
(***************************************************************************)
LiBytes(k) == (3 * k + 1) \div 2

DataPduSize(grant) ==
    Min({grant, buffer_occupancy + MinHeader + LiBytes(Len(input_sdus) - 1)})

NextLi(li) == 3 - li   \* li_length_in_bytes ^ 3

(***************************************************************************)
(* First pass: how many length indicators the PDU will hold, and how many  *)
(* bytes are cut off its room because an indicator that would end it is    *)
(* not needed.  shrink is the part of it that the 5-bit variant also takes *)
(* off data_pdu_size ("modifier pour duy").                                *)
(***************************************************************************)
\* Mutant of TestSdu: no byte is cut when an indicator does not fit after the SDU.
TestSduNoCut(t, remaining) ==
    LET li == NextLi(t.li)
    IN  IF remaining + li < t.room
        THEN [t EXCEPT !.room = @ - remaining - li, !.li = li, !.num_li = @ + 1]
        ELSE [t EXCEPT !.more = FALSE]

TestSdu(t, remaining) ==
    LET li == NextLi(t.li)
    IN  CASE remaining >= t.room -> [t EXCEPT !.more = FALSE]
          [] remaining < t.room /\ remaining + li = t.room ->
                [t EXCEPT !.more = FALSE, !.cut = li, !.shrink = li]
          [] remaining + li < t.room ->
                [t EXCEPT !.room = @ - remaining - li, !.li = li, !.num_li = @ + 1]
          [] OTHER -> [t EXCEPT !.more = FALSE, !.cut = 1, !.shrink = 1]

TestPass(room) ==
    LET pass[i \in 0 .. Len(input_sdus)] ==
            IF i = 0 THEN [room |-> room, li |-> 1, num_li |-> 0, cut |-> 0, shrink |-> 0,
                           more |-> TRUE]
            ELSE IF pass[i - 1].more THEN TestSdu(pass[i - 1], input_sdus[i].remaining)
            ELSE pass[i - 1]
        t == pass[Len(input_sdus)]
    IN  IF t.more THEN [t EXCEPT !.num_li = @ - 1, !.cut = t.li] ELSE t

\* Second pass: the SDUs are copied.
FillSdu(f, sdu) ==
    LET li == NextLi(f.li)
        copied == Append(f.pieces, SduBytes(sdu.id, sdu.size - sdu.remaining + 1,
                                            Min({sdu.remaining, f.room})))
    IN  CASE sdu.remaining > f.room ->
                [f EXCEPT !.pieces = copied, !.room = 0, !.more = FALSE, !.ends = FALSE]
          [] sdu.remaining = f.room ->
                [f EXCEPT !.pieces = copied, !.room = 0, !.more = FALSE, !.ends = TRUE]
          [] sdu.remaining + li < f.room ->
                [f EXCEPT !.pieces = copied, !.room = @ - sdu.remaining - li, !.li = li]
          [] OTHER -> [f EXCEPT !.more = FALSE, !.assert = TRUE]

FillPass(room) ==
    LET pass[i \in 0 .. Len(input_sdus)] ==
            IF i = 0 THEN [room |-> room, li |-> 1, pieces |-> <<>>, ends |-> FALSE,
                           more |-> TRUE, assert |-> FALSE]
            ELSE IF pass[i - 1].more THEN FillSdu(pass[i - 1], input_sdus[i])
            ELSE pass[i - 1]
    IN  pass[Len(input_sdus)]

\* f[1] + ... + f[n], and the number of bytes in all the pieces.
SumTo(f, n) ==
    LET sum[k \in 0 .. n] == IF k = 0 THEN 0 ELSE sum[k - 1] + f[k]
    IN  sum[n]
SumLen(pieces) == SumTo([i \in DOMAIN pieces |-> Len(pieces[i])], Len(pieces))

\* tb_size: data_pdu_size less what is left of the room.
TbSize(size, test, fill) == size - fill.room - (IF ShortSn THEN test.shrink ELSE 0)

\* The list after `full` SDUs were copied to their end and `some` bytes of the one after them.
AfterFill(full, some) ==
    LET rest == SubSeq(input_sdus, full + 1, Len(input_sdus))
    IN  IF some = 0 THEN rest ELSE [rest EXCEPT ![1].remaining = @ - some]

\* rlc_um_segment_5 and rlc_um_segment_10: one PDU for MAC.
UmSegment(grant) ==
    LET size == DataPduSize(grant)
        test == TestPass(size - MinHeader)
        fill == FillPass(size - MinHeader - test.cut)
        n == Len(fill.pieces)
        payload == SumLen(fill.pieces)
        tb_size == TbSize(size, test, fill)
        \* What the receiver takes for the payload of the last SDU is all that follows.
        extra == tb_size - MinHeader - LiBytes(n - 1) - payload
        last == fill.pieces[n] \o [j \in 1 .. extra |-> Garbage]
    IN  /\ um_fatal = "none" /\ Cardinality(air) < MaxOnAir
        /\ input_sdus # <<>> /\ grant > MinHeader
        /\ IF fill.assert \/ fill.more \/ n - 1 # test.num_li
           THEN /\ um_fatal' = "segment"
                /\ UNCHANGED <<vt_us, input_sdus, buffer_occupancy, air>>
           ELSE /\ vt_us' = vt_us + 1
                /\ input_sdus' = IF fill.ends THEN AfterFill(n, 0)
                                 ELSE AfterFill(n - 1, Len(fill.pieces[n]))
                /\ buffer_occupancy' = buffer_occupancy - payload
                /\ air' = air \cup
                     {[n |-> vt_us, sn |-> vt_us % SnModulo,
                       starts |-> input_sdus[1].remaining = input_sdus[1].size,
                       ends |-> fill.ends,
                       pieces |-> [fill.pieces EXCEPT ![n] = last]]}
                /\ UNCHANGED um_fatal
        /\ UNCHANGED sdu_sizes
=============================================================================
