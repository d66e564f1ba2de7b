------------------------------ MODULE LogSink -------------------------------
(***************************************************************************)
(* What common/log promises: messages logged while the worker runs are     *)
(* written once each, in the order they were logged, and to the log file   *)
(* that was set when they were logged; messages logged while it is paused  *)
(* are discarded.                                                          *)
(***************************************************************************)
EXTENDS Naturals, Sequences

CONSTANTS
  Msgs,   \* the messages
  Files   \* the log files set_file can choose

VARIABLES accepting, pending, written, file

vars == <<accepting, pending, written, file>>

Init ==
  /\ accepting = TRUE
  /\ pending = <<>>
  /\ written = <<>>
  /\ file \in Files

\* A message is queued with the file it is meant for.
Log ==
  /\ accepting
  /\ \E m \in Msgs : pending' = Append(pending, <<m, file>>)
  /\ UNCHANGED <<accepting, written, file>>

Write ==
  /\ pending # <<>>
  /\ written' = Append(written, Head(pending))
  /\ pending' = Tail(pending)
  /\ UNCHANGED <<accepting, file>>

Pause ==
  /\ accepting' = FALSE
  /\ UNCHANGED <<pending, written, file>>

\* Logging starts again, or goes to another file, only when all that was
\* accepted has been written.
Resume ==
  /\ pending = <<>>
  /\ accepting' = TRUE
  /\ UNCHANGED <<pending, written, file>>

SetFile ==
  /\ ~accepting /\ pending = <<>>
  /\ file' \in Files
  /\ UNCHANGED <<accepting, pending, written>>

Next == Log \/ Write \/ Pause \/ Resume \/ SetFile

Safety == Init /\ [][Next]_vars
Live   == WF_vars(Write)
Spec   == Safety /\ Live
=============================================================================
