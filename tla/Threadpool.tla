----------------------------- MODULE Threadpool -----------------------------
(***************************************************************************)
(* The CPU backend's thread pool, ggml/src/ggml-cpu/ggml-cpu.c, in the     *)
(* build without OpenMP: one main thread (thread 0) that computes graphs   *)
(* and pauses, resumes and frees the pool, and NThreads - 1 secondary      *)
(* threads that poll or sleep until a graph is kicked off and then run     *)
(* its nodes in step with the main thread, one ggml_barrier per node.      *)
(*                                                                         *)
(* Every load or store of a shared atomic is a step of its own.  The one   *)
(* exception is a critical section of a secondary thread: all it reads     *)
(* (pause, stop, n_graph, n_threads_cur) is written under the same mutex,  *)
(* so it is one step, enabled while the main thread does not hold it.  A   *)
(* broadcast goes with the store before it: the threads it wakes need the  *)
(* mutex that the main thread still holds.                                 *)
(***************************************************************************)
EXTENDS Integers

CONSTANTS
  NThreads,   \* n_threads_max: size of the pool, main thread included
  Requests,   \* the values of cplan->n_threads that graphs ask for
  NNodes,     \* cgraph->n_nodes
  MaxGraphs   \* bound on the number of graphs computed

ASSUME NThreadsAssumption  == NThreads \in Nat \ {0}
ASSUME RequestsAssumption  == Requests \subseteq Nat \ {0} /\ Requests # {}
ASSUME NNodesAssumption    == NNodes \in Nat \ {0}
ASSUME MaxGraphsAssumption == MaxGraphs \in Nat

VARIABLES
  n_graph,          \* graphs kicked off so far
  n_threads_cur,    \* threads used in the current graph
  n_barrier,        \* threads that have entered the current barrier
  n_barrier_passed, \* barriers completed so far
  stop, pause,      \* set under the mutex, read with and without it
  abort,            \* node index at which every thread must stop, or -1
  ec,               \* "success" or "aborted", what ggml_graph_compute returns
  mutex,            \* TRUE while the main thread is inside its critical section
  n_threads,        \* the main thread's local n_threads, after clamping
  pc,               \* where each thread is
  ret,              \* where a thread's ggml_barrier call returns to
  last_graph,       \* per thread: the n_graph it has last acted on
  pending,          \* per thread: it has seen a graph and not yet started it
  new_graph,        \* per thread: local copy of n_graph while polling
  nth,              \* per thread: params.nth of the graph it is computing
  node_n,           \* per thread: index of the node it is at
  bar_n,            \* per thread: ggml_barrier's local n_threads
  n_passed          \* per thread: ggml_barrier's local n_passed

poolVars == <<n_graph, n_threads_cur, stop, pause, abort, ec, mutex, n_threads>>
workVars == <<last_graph, pending, new_graph>>
runVars  == <<ret, nth, node_n>>
barVars  == <<n_barrier, n_barrier_passed, bar_n, n_passed>>
vars     == <<poolVars, workVars, runVars, barVars, pc>>

Threads == 0 .. NThreads - 1
Workers == Threads \ {0}

\* Faulty: a request beyond the pool's size is not clamped.
ClampNot(n) == n

\* A graph cannot use more threads than the pool has.
Clamp(n) == IF n > NThreads THEN NThreads ELSE n

Goto(t, l) == pc' = [pc EXCEPT ![t] = l]

\* pthread_cond_broadcast: every sleeper goes on to reacquire the mutex.
Awake(l) == CASE l = "pause_wait" -> "pause_wake"
              [] l = "work_wait"  -> "lock_work"
              [] OTHER            -> l

Broadcast(l0) == pc' = [t \in Threads |-> IF t = 0 THEN l0 ELSE Awake(pc[t])]
-----------------------------------------------------------------------------
(***************************************************************************)
(* ggml_threadpool_new_impl; the pool may be created paused.               *)
(***************************************************************************)
Init ==
  /\ n_graph = 0
  /\ n_threads_cur = NThreads
  /\ n_barrier = 0
  /\ n_barrier_passed = 0
  /\ stop = FALSE
  /\ pause \in BOOLEAN
  /\ abort = -1
  /\ ec = "success"
  /\ mutex = FALSE
  /\ n_threads = NThreads
  /\ pc = [t \in Threads |-> IF t = 0 THEN "idle" ELSE "top"]
  /\ ret = [t \in Threads |-> "done"]
  /\ last_graph = [t \in Threads |-> 0]
  /\ pending = [t \in Threads |-> FALSE]
  /\ new_graph = [t \in Threads |-> 0]
  /\ nth = [t \in Threads |-> NThreads]
  /\ node_n = [t \in Threads |-> 0]
  /\ bar_n = [t \in Threads |-> NThreads]
  /\ n_passed = [t \in Threads |-> 0]
-----------------------------------------------------------------------------
(***************************************************************************)
(* The main thread.                                                        *)
(***************************************************************************)

\* ggml_graph_compute up to the kickoff: reset the graph's parameters.
GraphCompute ==
  /\ pc[0] = "idle" /\ n_graph < MaxGraphs
  /\ abort' = -1
  /\ ec' = "success"
  /\ \E r \in Requests : n_threads' = Clamp(r)
  /\ Goto(0, "kick_lock")
  /\ UNCHANGED <<n_graph, n_threads_cur, stop, pause, mutex, workVars, runVars, barVars>>

\* ggml_graph_compute_kickoff: lock, publish the thread count ...
KickLock ==
  /\ pc[0] = "kick_lock"
  /\ mutex' = TRUE
  /\ n_threads_cur' = n_threads
  /\ Goto(0, "kick_graph")
  /\ UNCHANGED <<n_graph, stop, pause, abort, ec, n_threads, workVars, runVars, barVars>>

\* ... announce the graph ...
KickGraph ==
  /\ pc[0] = "kick_graph"
  /\ n_graph' = n_graph + 1
  /\ Goto(0, "kick_wake")
  /\ UNCHANGED <<n_threads_cur, stop, pause, abort, ec, mutex, n_threads, workVars, runVars, barVars>>

\* Faulty: the sleepers are woken, but the pool stays paused.
KickWakePaused ==
  /\ pc[0] = "kick_wake"
  /\ mutex' = FALSE
  /\ Broadcast("start")
  /\ UNCHANGED <<n_graph, n_threads_cur, stop, pause, abort, ec, n_threads, workVars, runVars, barVars>>

\* ... resume a paused pool, wake the sleepers and unlock.
KickWake ==
  /\ pc[0] = "kick_wake"
  /\ pause' = FALSE
  /\ mutex' = FALSE
  /\ Broadcast("start")
  /\ UNCHANGED <<n_graph, n_threads_cur, stop, abort, ec, n_threads, workVars, runVars, barVars>>

\* ggml_threadpool_pause, called by ggml_backend_cpu_set_threadpool between graphs.
Pause ==
  /\ pc[0] = "idle" /\ ~pause
  /\ pause' = TRUE
  /\ Broadcast("idle")
  /\ UNCHANGED <<n_graph, n_threads_cur, stop, abort, ec, mutex, n_threads, workVars, runVars, barVars>>

\* ggml_threadpool_resume.
Resume ==
  /\ pc[0] = "idle" /\ pause
  /\ pause' = FALSE
  /\ Broadcast("idle")
  /\ UNCHANGED <<n_graph, n_threads_cur, stop, abort, ec, mutex, n_threads, workVars, runVars, barVars>>

\* ggml_threadpool_free: lock, raise stop ...
Free ==
  /\ pc[0] = "idle"
  /\ mutex' = TRUE
  /\ stop' = TRUE
  /\ Goto(0, "free_wake")
  /\ UNCHANGED <<n_graph, n_threads_cur, pause, abort, ec, n_threads, workVars, runVars, barVars>>

\* Faulty: a paused pool is freed without being resumed.
FreeWakePaused ==
  /\ pc[0] = "free_wake"
  /\ mutex' = FALSE
  /\ Broadcast("join")
  /\ UNCHANGED <<n_graph, n_threads_cur, stop, pause, abort, ec, n_threads, workVars, runVars, barVars>>

\* ... clear pause, wake the sleepers and unlock.
FreeWake ==
  /\ pc[0] = "free_wake"
  /\ pause' = FALSE
  /\ mutex' = FALSE
  /\ Broadcast("join")
  /\ UNCHANGED <<n_graph, n_threads_cur, stop, abort, ec, n_threads, workVars, runVars, barVars>>

\* The joins, after which the pool's memory is released.
Join ==
  /\ pc[0] = "join"
  /\ \A w \in Workers : pc[w] = "exit"
  /\ Goto(0, "freed")
  /\ UNCHANGED <<poolVars, workVars, runVars, barVars>>
-----------------------------------------------------------------------------
(***************************************************************************)
(* A secondary thread looking for work:                                    *)
(* ggml_graph_compute_secondary_thread and what it calls.                  *)
(***************************************************************************)

\* while (threadpool->pause), read without the mutex.
PauseLoop(w) ==
  /\ pc[w] = "top"
  /\ Goto(w, IF pause THEN "pause_lock" ELSE "stop_check")
  /\ UNCHANGED <<poolVars, workVars, runVars, barVars>>

\* Faulty: the pause loop spins instead of sleeping.
PauseLockSpins(w) ==
  /\ pc[w] = "pause_lock" /\ ~mutex
  /\ Goto(w, "top")
  /\ UNCHANGED <<poolVars, workVars, runVars, barVars>>

\* Under the mutex: sleep if the pool is still paused.
PauseLock(w) ==
  /\ pc[w] = "pause_lock" /\ ~mutex
  /\ Goto(w, IF pause THEN "pause_wait" ELSE "top")
  /\ UNCHANGED <<poolVars, workVars, runVars, barVars>>

\* pthread_cond_wait returns with the mutex, which is released at once.
PauseWake(w) ==
  /\ pc[w] = "pause_wake" /\ ~mutex
  /\ Goto(w, "top")
  /\ UNCHANGED <<poolVars, workVars, runVars, barVars>>

\* if (threadpool->stop) break.
StopCheck(w) ==
  /\ pc[w] = "stop_check"
  /\ Goto(w, IF stop THEN "exit" ELSE "poll_active")
  /\ UNCHANGED <<poolVars, workVars, runVars, barVars>>

\* Faulty: every thread of the pool takes part in every graph.
ActiveAlways(w) == w < NThreads

\* ggml_graph_compute_thread_active: the current graph uses this thread.
ThreadActive(w) == w < n_threads_cur

\* ggml_graph_compute_poll_for_work: unused threads skip polling.
PollActive(w) ==
  /\ pc[w] = "poll_active"
  /\ Goto(w, IF ThreadActive(w) THEN "poll_stop" ELSE "polled")
  /\ UNCHANGED <<poolVars, workVars, runVars, barVars>>

\* ggml_graph_compute_thread_ready without the mutex: pending and stop ...
PollStop(w) ==
  /\ pc[w] = "poll_stop"
  /\ Goto(w, IF pending[w] \/ stop THEN "polled" ELSE "poll_pause")
  /\ UNCHANGED <<poolVars, workVars, runVars, barVars>>

\* ... then pause ...
PollPause(w) ==
  /\ pc[w] = "poll_pause"
  /\ Goto(w, IF pause THEN "polled" ELSE "poll_graph")
  /\ UNCHANGED <<poolVars, workVars, runVars, barVars>>

\* ... then n_graph; nothing new means another round, or the rounds are used up ...
PollGraph(w) ==
  /\ pc[w] = "poll_graph"
  /\ new_graph' = [new_graph EXCEPT ![w] = n_graph]
  /\ IF n_graph # last_graph[w]
     THEN Goto(w, "poll_cur")
     ELSE \E l \in {"poll_stop", "polled"} : Goto(w, l)
  /\ UNCHANGED <<poolVars, last_graph, pending, runVars, barVars>>

\* ... and last, for a new graph, n_threads_cur.
PollCur(w) ==
  /\ pc[w] = "poll_cur"
  /\ pending' = [pending EXCEPT ![w] = ThreadActive(w)]
  /\ last_graph' = [last_graph EXCEPT ![w] = new_graph[w]]
  /\ IF ThreadActive(w)
     THEN Goto(w, "polled")
     ELSE \E l \in {"poll_stop", "polled"} : Goto(w, l)
  /\ UNCHANGED <<poolVars, new_graph, runVars, barVars>>

\* End of polling: start a pending graph, otherwise go on to take the mutex.
Polled(w) ==
  /\ pc[w] = "polled"
  /\ Goto(w, IF pending[w] THEN "start" ELSE "lock_work")
  /\ pending' = [pending EXCEPT ![w] = FALSE]
  /\ UNCHANGED <<poolVars, last_graph, new_graph, runVars, barVars>>

\* ggml_graph_compute_check_for_work under the mutex: sleep until
\* ggml_graph_compute_thread_ready, then start a pending graph or loop.
LockWork(w) ==
  /\ pc[w] = "lock_work" /\ ~mutex
  /\ IF pending[w] \/ stop \/ pause
     THEN /\ Goto(w, IF pending[w] THEN "start" ELSE "top")
          /\ pending' = [pending EXCEPT ![w] = FALSE]
          /\ UNCHANGED last_graph
     ELSE /\ last_graph' = [last_graph EXCEPT ![w] = n_graph]
          /\ Goto(w, IF n_graph # last_graph[w] /\ ThreadActive(w)
                     THEN "start" ELSE "work_wait")
          /\ UNCHANGED pending
  /\ UNCHANGED <<poolVars, new_graph, runVars, barVars>>

\* POSIX lets a wait return without a broadcast.
SpuriousWake(w) ==
  /\ pc[w] \in {"pause_wait", "work_wait"}
  /\ Goto(w, Awake(pc[w]))
  /\ UNCHANGED <<poolVars, workVars, runVars, barVars>>
-----------------------------------------------------------------------------
(***************************************************************************)
(* ggml_graph_compute_thread, run by every thread of the current graph.    *)
(***************************************************************************)

\* Entry: read params.nth and start at node 0.
Start(t) ==
  /\ pc[t] = "start"
  /\ nth' = [nth EXCEPT ![t] = n_threads_cur]
  /\ node_n' = [node_n EXCEPT ![t] = 0]
  /\ Goto(t, "test")
  /\ UNCHANGED <<poolVars, workVars, ret, barVars>>

\* Faulty: a thread that leaves the loop returns without the final barrier.
TestNoBarrier(t) ==
  /\ pc[t] = "test"
  /\ Goto(t, IF node_n[t] < NNodes /\ abort # node_n[t] THEN "node"
             ELSE IF t = 0 THEN "idle" ELSE "top")
  /\ UNCHANGED <<poolVars, workVars, runVars, barVars>>

\* The loop condition; leaving the loop leads to the final barrier.
Test(t) ==
  /\ pc[t] = "test"
  /\ IF node_n[t] < NNodes /\ abort # node_n[t]
     THEN Goto(t, "node") /\ UNCHANGED ret
     ELSE Goto(t, "bar_cur") /\ ret' = [ret EXCEPT ![t] = "done"]
  /\ UNCHANGED <<poolVars, workVars, nth, node_n, barVars>>

\* Faulty: the abort index is the node that has just been computed.
AbortHere(t) == node_n[t]

\* The node every thread stops at after an abort: the one after the main thread's.
AbortAt(t) == node_n[t] + 1

\* ggml_compute_forward ends; the main thread asks the abort callback; a
\* barrier follows unless this was the last node.
Node(t) ==
  /\ pc[t] = "node"
  /\ \/ UNCHANGED <<abort, ec>>
     \/ /\ t = 0
        /\ abort' = AbortAt(t)
        /\ ec' = "aborted"
  /\ IF node_n[t] + 1 < NNodes
     THEN /\ Goto(t, "bar_cur")
          /\ ret' = [ret EXCEPT ![t] = "next"]
          /\ UNCHANGED node_n
     ELSE /\ Goto(t, "test")
          /\ node_n' = [node_n EXCEPT ![t] = @ + 1]
          /\ UNCHANGED ret
  /\ UNCHANGED <<n_graph, n_threads_cur, stop, pause, mutex, n_threads, workVars, nth, barVars>>

\* What follows a barrier: the next node, or the end of the graph.
Return(t) ==
  IF ret[t] = "next"
  THEN /\ Goto(t, "test")
       /\ node_n' = [node_n EXCEPT ![t] = @ + 1]
  ELSE /\ Goto(t, IF t = 0 THEN "idle" ELSE "top")
       /\ UNCHANGED node_n
-----------------------------------------------------------------------------
(***************************************************************************)
(* ggml_barrier.                                                           *)
(***************************************************************************)

\* A graph of one thread needs no barrier.
BarCur(t) ==
  /\ pc[t] = "bar_cur"
  /\ bar_n' = [bar_n EXCEPT ![t] = n_threads_cur]
  /\ IF n_threads_cur = 1 THEN Return(t) ELSE Goto(t, "bar_load") /\ UNCHANGED node_n
  /\ UNCHANGED <<poolVars, workVars, ret, nth, n_barrier, n_barrier_passed, n_passed>>

\* Remember which barrier this is, before entering it.
BarLoad(t) ==
  /\ pc[t] = "bar_load"
  /\ n_passed' = [n_passed EXCEPT ![t] = n_barrier_passed]
  /\ Goto(t, "bar_add")
  /\ UNCHANGED <<poolVars, workVars, runVars, n_barrier, n_barrier_passed, bar_n>>

\* Faulty: off by one, the last but one thread takes itself for the last.
LastTooSoon(t) == n_barrier = bar_n[t] - 2

\* The thread that finds all the others in the barrier completes it.
Last(t) == n_barrier = bar_n[t] - 1

\* Enter the barrier.
BarAdd(t) ==
  /\ pc[t] = "bar_add"
  /\ n_barrier' = n_barrier + 1
  /\ Goto(t, IF Last(t) THEN "bar_reset" ELSE "bar_spin")
  /\ UNCHANGED <<poolVars, workVars, runVars, n_barrier_passed, bar_n, n_passed>>

\* Faulty: the count is not reset.
BarResetNot(t) ==
  /\ pc[t] = "bar_reset"
  /\ Goto(t, "bar_pass")
  /\ UNCHANGED <<poolVars, workVars, runVars, barVars>>

\* The last thread makes the barrier ready for its next use ...
BarReset(t) ==
  /\ pc[t] = "bar_reset"
  /\ n_barrier' = 0
  /\ Goto(t, "bar_pass")
  /\ UNCHANGED <<poolVars, workVars, runVars, n_barrier_passed, bar_n, n_passed>>

\* ... and only then lets the others go.
BarPass(t) ==
  /\ pc[t] = "bar_pass"
  /\ n_barrier_passed' = n_barrier_passed + 1
  /\ Return(t)
  /\ UNCHANGED <<poolVars, workVars, ret, nth, n_barrier, bar_n, n_passed>>

\* The others spin until the barrier they entered has been completed.
BarSpin(t) ==
  /\ pc[t] = "bar_spin"
  /\ n_barrier_passed # n_passed[t]
  /\ Return(t)
  /\ UNCHANGED <<poolVars, workVars, ret, nth, barVars>>
-----------------------------------------------------------------------------
Barrier(t) == BarCur(t) \/ BarLoad(t) \/ BarAdd(t) \/ BarReset(t) \/ BarPass(t) \/ BarSpin(t)
Compute(t) == Start(t) \/ Test(t) \/ Node(t) \/ Barrier(t)
Kickoff    == KickLock \/ KickGraph \/ KickWake

FindWork(w) == \/ PauseLoop(w) \/ PauseLock(w) \/ PauseWake(w) \/ StopCheck(w)
               \/ PollActive(w) \/ PollStop(w) \/ PollPause(w) \/ PollGraph(w)
               \/ PollCur(w) \/ Polled(w) \/ LockWork(w)

\* The pool has been freed: nothing is left to run.
Freed == pc[0] = "freed" /\ UNCHANGED vars

Next == \/ GraphCompute \/ Kickoff \/ Pause \/ Resume \/ Free \/ FreeWake \/ Join \/ Freed
        \/ \E t \in Threads : Compute(t)
        \/ \E w \in Workers : FindWork(w) \/ SpuriousWake(w)

Spec == Init /\ [][Next]_vars

\* Every thread is scheduled: it takes a step that stays enabled.  Which call
\* the main thread makes next (compute, pause, free) is up to the program.
Fairness == /\ WF_vars(Kickoff) /\ WF_vars(FreeWake \/ Join)
            /\ \A t \in Threads : WF_vars(Compute(t))
            /\ \A w \in Workers : WF_vars(FindWork(w))

FairSpec == Spec /\ Fairness
-----------------------------------------------------------------------------
(***************************************************************************)
(* Properties.                                                             *)
(***************************************************************************)
MainLabels    == {"idle", "kick_lock", "kick_graph", "kick_wake", "free_wake", "join", "freed"}
SearchLabels  == {"top", "pause_lock", "pause_wait", "pause_wake", "stop_check",
                  "poll_active", "poll_stop", "poll_pause", "poll_graph", "poll_cur",
                  "polled", "lock_work", "work_wait", "exit"}
BarrierLabels == {"bar_cur", "bar_load", "bar_add", "bar_reset", "bar_pass", "bar_spin"}
ComputeLabels == {"start", "test", "node"} \union BarrierLabels

SharedType ==
  /\ n_graph \in Nat
  /\ n_threads_cur \in 1 .. NThreads
  /\ n_barrier \in Nat
  /\ n_barrier_passed \in Nat
  /\ abort \in {-1} \union (1 .. NNodes)
  /\ ec \in {"success", "aborted"}
  /\ n_threads \in 1 .. NThreads

FlagType == stop \in BOOLEAN /\ pause \in BOOLEAN /\ mutex \in BOOLEAN

PcType ==
  /\ pc \in [Threads -> MainLabels \union SearchLabels \union ComputeLabels]
  /\ pc[0] \in MainLabels \union ComputeLabels
  /\ \A w \in Workers : pc[w] \in SearchLabels \union ComputeLabels

LocalType ==
  /\ ret \in [Threads -> {"next", "done"}]
  /\ last_graph \in [Threads -> Nat]
  /\ pending \in [Threads -> BOOLEAN]
  /\ new_graph \in [Threads -> Nat]
  /\ nth \in [Threads -> 1 .. NThreads]
  /\ node_n \in [Threads -> 0 .. NNodes]
  /\ bar_n \in [Threads -> 1 .. NThreads]
  /\ n_passed \in [Threads -> Nat]

\* The type invariant.  Only the main thread runs the main thread's labels; node
\* indices stay within the graph and thread counts within the pool.
TypeOK == SharedType /\ FlagType /\ PcType /\ LocalType

\* The threads of the current graph.
Active == 0 .. n_threads_cur - 1

InGraph(t) == pc[t] \in ComputeLabels

\* t is still inside a barrier that has been completed.
Leaving(t) == pc[t] = "bar_spin" /\ n_passed[t] # n_barrier_passed

\* While the main thread is outside ggml_graph_compute, no secondary thread
\* computes: at most it still has to notice that the final barrier is open.
\* So the graph's parameters can be replaced and the pool can be freed.
Quiescent ==
  pc[0] \in {"idle", "free_wake", "join", "freed"} =>
    \A w \in Workers : InGraph(w) => Leaving(w) /\ ret[w] = "done"

\* A node is computed only after every thread of the graph has finished its
\* share of the node before: ggml_barrier separates nodes that depend on each
\* other.
NodeOrder ==
  \A t \in Threads : pc[t] = "node" /\ node_n[t] > 0 =>
    \A u \in Active : /\ InGraph(u) /\ pc[u] # "start"
                      /\ \/ node_n[u] >= node_n[t]
                         \/ node_n[u] = node_n[t] - 1 /\ Leaving(u)

\* The threads that compute a node agree on how many they are, so that the
\* shares they derive from ith and nth cover the node.
SameShares ==
  \A t \in Threads : pc[t] = "node" => t < nth[t] /\ nth[t] = n_threads_cur

\* When ggml_graph_compute has returned, all threads of the graph stopped at
\* the same node, and after GGML_STATUS_SUCCESS that is the end of the graph.
AbortAgreement ==
  pc[0] = "idle" /\ n_graph > 0 =>
    /\ \A t \in Active : node_n[t] = node_n[0]
    /\ ec = "success" => node_n[0] = NNodes

\* A graph that is kicked off is computed: no thread misses the kickoff or is
\* left behind in a barrier.
GraphReturns == pc[0] = "kick_lock" ~> pc[0] = "idle"

\* ggml_threadpool_free returns: every thread sees stop, however it waits.
FreeReturns == pc[0] = "free_wake" ~> pc[0] = "freed"

\* A paused pool goes to sleep: a secondary thread does not keep polling.
PauseSleeps == \A w \in Workers : pause ~> (~pause \/ pc[w] = "pause_wait")
=============================================================================
