------------------------------ MODULE MCRlcAmTx ------------------------------
(***************************************************************************)
(* The transmitter alone, against a peer that may send any STATUS PDU.     *)
(***************************************************************************)
EXTENDS RlcAmTx

\* A NACK of the whole PDU, of two separate pieces of it, of bytes it does not have,
\* and of a piece whose end is before its start.
Pieces ==
    {<<>>,
     <<[start |-> 0, stop |-> 0], [start |-> 2, stop |-> SO_END_ALL]>>,
     <<[start |-> 1, stop |-> 3]>>,
     <<[start |-> 2, stop |-> 1]>>}
=============================================================================
