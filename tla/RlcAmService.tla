---------------------------- MODULE RlcAmService -----------------------------
(***************************************************************************)
(* What an acknowledged-mode bearer promises the layer above it: the bytes *)
(* handed over (numbered 0, 1, 2, ...) come out at the other end in order, *)
(* each once, none made up.                                                *)
(***************************************************************************)
EXTENDS Naturals, Sequences

CONSTANT SduSizes

VARIABLES
    taken,      \* how many bytes were handed over
    delivered   \* the bytes that came out, in that order

serviceVars == <<taken, delivered>>

ServiceInit == taken = 0 /\ delivered = <<>>

Accept(size) == taken' = taken + size /\ UNCHANGED delivered

\* The next n bytes come out.
Deliver(n) ==
    /\ delivered' = delivered \o [k \in 1 .. n |-> Len(delivered) + k - 1]
    /\ UNCHANGED taken

ServiceNext ==
    \/ \E size \in SduSizes : Accept(size)
    \/ \E n \in 1 .. taken - Len(delivered) : Deliver(n)

ServiceSpec == ServiceInit /\ [][ServiceNext]_serviceVars
=============================================================================
