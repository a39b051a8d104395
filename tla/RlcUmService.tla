---------------------------- MODULE RlcUmService -----------------------------
(***************************************************************************)
(* What an unacknowledged-mode bearer promises the layer above it: the     *)
(* SDUs handed over (numbered 1, 2, 3, ...) come out whole, in order, none *)
(* twice.  Any of them may be missing.                                     *)
(***************************************************************************)
EXTENDS Naturals, SequencesExt

VARIABLES
    accepted,   \* how many SDUs were handed over
    out         \* the numbers of the SDUs that came out, in that order

umServiceVars == <<accepted, out>>

UmServiceInit == accepted = 0 /\ out = <<>>

AcceptSdu == accepted' = accepted + 1 /\ UNCHANGED out

Rising(s) == \A i, j \in DOMAIN s : i < j => s[i] < s[j]

\* Some later SDUs come out; the handler of one PDU may complete several.
DeliverSdus ==
    /\ IsPrefix(out, out')
    /\ Rising(out') /\ \A i \in DOMAIN out' : out'[i] \in 1 .. accepted
    /\ UNCHANGED accepted

UmServiceNext == AcceptSdu \/ DeliverSdus

UmServiceSpec == UmServiceInit /\ [][UmServiceNext]_umServiceVars
=============================================================================
