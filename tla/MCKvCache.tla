------------------------------ MODULE MCKvCache ------------------------------
(***************************************************************************)
(* KvCache for TLC: one stream for all sequences, without a window.        *)
(***************************************************************************)
EXTENDS KvCache

\* Shifts: one position back, as a context shift does.
Back == {-1}
=============================================================================
