---------------------------- MODULE MCCommonLog -----------------------------
(***************************************************************************)
(* CommonLog for TLC.                                                      *)
(***************************************************************************)
EXTENDS CommonLog
=============================================================================
