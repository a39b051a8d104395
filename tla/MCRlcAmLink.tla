----------------------------- MODULE MCRlcAmLink -----------------------------
(***************************************************************************)
(* Both sides of a bearer.  The STATUS PDUs are those the receiver builds, *)
(* so the set the transmitter alone is checked with stays empty.           *)
(***************************************************************************)
EXTENDS RlcAmLink

NoRangeLists == {}

\* With and without t-Reordering and t-StatusProhibit.
AllTimerConfigs == SUBSET {"t_reordering", "t_status_prohibit"}
WithProhibit == {{"t_status_prohibit"}, {"t_reordering", "t_status_prohibit"}}
=============================================================================
