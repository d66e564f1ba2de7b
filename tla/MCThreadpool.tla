---------------------------- MODULE MCThreadpool ----------------------------
(***************************************************************************)
(* Threadpool for TLC.  A run covers two kinds of callers: one whose       *)
(* graphs leave threads of the pool out (Requests), and one whose graphs   *)
(* use all of them, some by asking for more (WideRequests).                *)
(***************************************************************************)
EXTENDS ThreadpoolInv

CONSTANT WideRequests

VARIABLE caller  \* "spare" or "wide"

Wide == INSTANCE ThreadpoolInv WITH Requests <- WideRequests

CallersInit == Init /\ caller \in {"spare", "wide"}
CallersNext == /\ \/ caller = "spare" /\ Next
                  \/ caller = "wide" /\ Wide!Next
               /\ UNCHANGED caller

CallersSpec == CallersInit /\ [][CallersNext]_<<vars, caller>> /\ Fairness
=============================================================================
