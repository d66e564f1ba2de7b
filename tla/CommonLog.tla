----------------------------- MODULE CommonLog ------------------------------
(***************************************************************************)
(* The logger of the tools, common/log.cpp: any thread adds messages to a  *)
(* ring buffer, a worker thread takes them out and prints them.  One       *)
(* control thread pauses and resumes the worker ("not thread-safe") and,   *)
(* with the worker paused, changes the log file.  Each critical section of *)
(* the log's mutex is one step.  An entry carries, beyond what the code     *)
(* stores, the file that was set when it was logged (dest).                *)
(***************************************************************************)
EXTENDS Integers, Sequences

CONSTANTS
  Capacity,  \* initial size of the ring (256 in the code)
  Files,     \* the log files, and "no file"
  MaxMsgs    \* bound on the number of messages

ASSUME CapacityAssumption == Capacity \in Nat \ {0}
ASSUME BoundAssumption    == MaxMsgs \in Nat

VARIABLES
  entries, head, tail,  \* the ring
  running,              \* messages are accepted
  file,                 \* where messages are copied to
  worker,               \* "none", "check" the ring, "sleep", "print" or "exit"
  cur,                  \* the entry the worker has taken
  control,              \* where the control thread is
  sent,                 \* number of messages offered so far
  printed               \* what has been printed, with the file it was copied to

ringVars == <<entries, head, tail>>
vars == <<ringVars, running, file, worker, cur, control, sent, printed>>

NoEntry == [msg |-> 0, dest |-> CHOOSE f \in Files : TRUE, is_end |-> FALSE]
Size    == Len(entries)

\* Indices of the code start at 0, those of sequences at 1.
Entry(i) == entries[i + 1]

\* Faulty: an index runs past the end of the ring.
SuccFlat(i) == i + 1

Succ(i) == (i + 1) % Size

\* cv.notify_one: the worker is the only thread that waits.
Notified == IF worker = "sleep" THEN "check" ELSE worker
-----------------------------------------------------------------------------
\* The constructor: an empty ring and a worker.
Init ==
  /\ entries = [i \in 1 .. Capacity |-> NoEntry]
  /\ head = 0 /\ tail = 0
  /\ running = TRUE
  /\ file \in Files
  /\ worker = "check"
  /\ cur = NoEntry
  /\ control = "idle"
  /\ sent = 0
  /\ printed = <<>>

\* Faulty: the entries are copied from the start of the ring, not from its head.
UnrolledFlat(ring) == ring

\* The entries of a ring in the order in which they were added.
Unrolled(ring) == [i \in 1 .. Len(ring) |-> ring[1 + ((head + i - 1) % Len(ring))]]

\* common_log::add while the worker is paused: the message is dropped.
Discard ==
  /\ sent < MaxMsgs /\ ~running
  /\ sent' = sent + 1
  /\ UNCHANGED <<ringVars, running, file, worker, cur, control, printed>>

\* common_log::add: store the message, double a ring that has become full.
Add ==
  /\ sent < MaxMsgs /\ running
  /\ sent' = sent + 1
  /\ LET ring == [entries EXCEPT ![tail + 1] =
                    [msg |-> sent', dest |-> file, is_end |-> FALSE]]
     IN IF Succ(tail) # head
        THEN /\ entries' = ring
             /\ tail' = Succ(tail)
             /\ UNCHANGED head
        ELSE /\ entries' = Unrolled(ring) \o [i \in 1 .. Size |-> NoEntry]
             /\ head' = 0
             /\ tail' = Size
  /\ worker' = Notified
  /\ UNCHANGED <<running, file, cur, control, printed>>
-----------------------------------------------------------------------------
\* The worker takes an entry, or waits for one.
Take ==
  /\ worker = "check"
  /\ \/ /\ head # tail
        /\ cur' = Entry(head)
        /\ head' = Succ(head)
        /\ worker' = IF Entry(head).is_end THEN "exit" ELSE "print"
     \/ /\ head = tail
        /\ worker' = "sleep"
        /\ UNCHANGED <<cur, head>>
  /\ UNCHANGED <<entries, tail, running, file, control, sent, printed>>

\* ... and prints it without the mutex.
PrintEntry ==
  /\ worker = "print"
  /\ printed' = Append(printed, <<cur.msg, file>>)
  /\ worker' = "check"
  /\ UNCHANGED <<ringVars, running, file, cur, control, sent>>

\* A condition variable may wake up by itself.
Spurious ==
  /\ worker = "sleep"
  /\ worker' = "check"
  /\ UNCHANGED <<ringVars, running, file, cur, control, sent, printed>>
-----------------------------------------------------------------------------
\* Faulty: the worker is not told about the end entry.
PauseSilent(next) ==
  /\ control = "idle" /\ running
  /\ running' = FALSE
  /\ entries' = [entries EXCEPT ![tail + 1].is_end = TRUE]
  /\ tail' = Succ(tail)
  /\ control' = next
  /\ UNCHANGED <<head, worker, file, cur, sent, printed>>

\* common_log::pause: stop accepting, push the entry that ends the worker and
\* join it.  The ring is not expanded here: the entry that fills it makes it look
\* empty.
PauseRunning(next) ==
  /\ control = "idle" /\ running
  /\ running' = FALSE
  /\ entries' = [entries EXCEPT ![tail + 1].is_end = TRUE]
  /\ tail' = Succ(tail)
  /\ worker' = Notified
  /\ control' = next
  /\ UNCHANGED <<head, file, cur, sent, printed>>

Pause == PauseRunning("join")

\* The worker has ended.
Join ==
  /\ control \in {"join", "join_file"}
  /\ worker = "exit"
  /\ worker' = "none"
  /\ control' = IF control = "join" THEN "idle" ELSE "file"
  /\ UNCHANGED <<ringVars, running, file, cur, sent, printed>>

\* common_log::set_file (and set_colors): pause, unless paused already ...
SetFilePause ==
  \/ PauseRunning("join_file")
  \/ /\ control = "idle" /\ ~running
     /\ control' = "file"
     /\ UNCHANGED <<ringVars, running, file, worker, cur, sent, printed>>

\* ... replace the file ...
SetFile ==
  /\ control = "file"
  /\ file' \in Files
  /\ control' = "resume"
  /\ UNCHANGED <<ringVars, running, worker, cur, sent, printed>>

\* ... and resume.  common_log::resume starts a new worker.
Resume ==
  /\ control = "resume" \/ (control = "idle" /\ ~running)
  /\ running' = TRUE
  /\ worker' = "check"
  /\ control' = "idle"
  /\ UNCHANGED <<ringVars, file, cur, sent, printed>>
-----------------------------------------------------------------------------
Control == Join \/ SetFile \/ (control = "resume" /\ Resume)
Next == Discard \/ Add \/ Take \/ PrintEntry \/ Spurious \/ Pause \/ SetFilePause \/ Join \/ SetFile \/ Resume

\* The worker and the control thread are scheduled; nobody has to log, pause or
\* resume.
Fairness == WF_vars(Take \/ PrintEntry) /\ WF_vars(Control)

Spec == Init /\ [][Next]_vars /\ Fairness
-----------------------------------------------------------------------------
(***************************************************************************)
(* Properties.                                                             *)
(***************************************************************************)
EntryType == [msg : 0 .. MaxMsgs, dest : Files, is_end : BOOLEAN]

\* The size of the ring after it has been doubled n times.
Doubled[n \in Nat] == IF n = 0 THEN Capacity ELSE 2 * Doubled[n - 1]

\* The type invariant.  The ring only ever doubles, each time for one message.
TypeOK ==
  /\ entries \in Seq(EntryType)
  /\ \E n \in 0 .. sent : Size = Doubled[n]
  /\ head \in 0 .. Size - 1 /\ tail \in 0 .. Size - 1
  /\ running \in BOOLEAN
  /\ file \in Files
  /\ worker \in {"none", "check", "sleep", "print", "exit"}
  /\ cur \in EntryType
  /\ control \in {"idle", "join", "join_file", "file", "resume"}
  /\ sent \in 0 .. MaxMsgs
  /\ printed \in Seq((0 .. MaxMsgs) \X Files)

\* pause waits for a worker that will not find the end entry: it filled the ring.
Joining == control \in {"join", "join_file"}
Full    == Joining /\ head = tail /\ worker # "exit"

\* The entries of the ring, oldest first; only the last can be the one that
\* ends the worker, the others are messages.
Count    == IF Full THEN Size ELSE (tail - head) % Size
Waiting  == [i \in 1 .. Count |-> Entry((head + i - 1) % Size)]
Accepted == IF Count # 0 /\ Waiting[Count].is_end THEN Count - 1 ELSE Count
Item(e)  == <<e.msg, e.dest>>
InHand   == IF worker = "print" THEN <<Item(cur)>> ELSE <<>>
Messages == [i \in 1 .. Accepted |-> Item(Waiting[i])]
Pending  == InHand \o Messages

Sink == INSTANCE LogSink WITH Msgs <- 1 .. MaxMsgs, accepting <- running, pending <- Pending, written <- printed

\* The ring and the worker implement the sink: nothing accepted is lost, printed
\* twice, reordered by the expansion of the ring, or written to a file that was
\* set after it was logged; and all of it is written, unless a pause fills the
\* ring.
Implements == Sink!Safety /\ (Sink!Live \/ <>[]Full)

\* common_log::pause (and so set_file and the destructor) returns: the entry it
\* pushes stops the worker.  Not so when that entry fills the ring, which then
\* looks empty to the worker for ever.
PauseReturns == /\ Joining /\ ~Full ~> ~Joining
                /\ [][Full => Full']_vars
=============================================================================
