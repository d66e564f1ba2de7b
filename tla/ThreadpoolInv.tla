--------------------------- MODULE ThreadpoolInv ----------------------------
(***************************************************************************)
(* The inductive invariant behind the safety of Threadpool when every      *)
(* graph asks for the same number of threads.                              *)
(*                                                                         *)
(* The idea: completing a barrier moves all threads of a graph at once.    *)
(* Count the barriers a thread has crossed in the current graph, and count *)
(* a barrier as crossed as soon as it is completed, whether or not the     *)
(* thread has noticed.  Then all threads are always at the same position,  *)
(* a thread that has not noticed the graph yet being at position 0; and    *)
(* either all of them are inside the graph or all of them are out of it.   *)
(***************************************************************************)
EXTENDS Threadpool, FiniteSets

\* A thread that computes a node, or is in the barrier after a node, has not run
\* past the end of the graph: this makes TypeOK inductive.
InBounds ==
  \A t \in Threads :
    /\ pc[t] = "node" => node_n[t] < NNodes
    /\ pc[t] \in BarrierLabels /\ ret[t] = "next" => node_n[t] + 1 < NNodes

TypeInv == TypeOK /\ InBounds
-----------------------------------------------------------------------------
\* Every graph is computed by the same number of threads.
OneWidth == \A r, s \in Requests : Clamp(r) = Clamp(s)

Width == Clamp(CHOOSE r \in Requests : TRUE)
Crew  == 0 .. Width - 1

Inside == {"bar_spin", "bar_reset", "bar_pass"}

\* t has only to notice that the final barrier of its graph is open.
Gone(t) == Leaving(t) /\ ret[t] = "done"

\* t runs nodes of the current graph.
Begun(t) == InGraph(t) /\ pc[t] # "start" /\ ~Gone(t)

\* The current graph is announced and its final barrier is not yet completed.
Running == pc[0] = "kick_wake" \/ (InGraph(0) /\ ~Gone(0))

Crossed(t) == IF node_n[t] < NNodes THEN node_n[t] ELSE NNodes - 1
Pos(t)     == IF ~Begun(t) THEN 0 ELSE IF Leaving(t) THEN Crossed(t) + 1 ELSE Crossed(t)

\* Threads inside the barrier that is not completed yet.
Arrived == {t \in Crew : pc[t] \in Inside /\ n_passed[t] = n_barrier_passed}
-----------------------------------------------------------------------------
\* The number of threads is fixed from the first kickoff on.
WidthInv ==
  /\ pc[0] = "kick_lock" => n_threads = Width
  /\ (n_graph > 0 \/ pc[0] = "kick_graph") => n_threads_cur = Width
  /\ (InGraph(0) \/ pc[0] = "kick_wake") => n_graph > 0
  /\ stop => pc[0] \in {"free_wake", "join", "freed"}
  /\ \A w \in Workers : pc[w] = "exit" => stop

\* A secondary thread beyond the width never starts.
Idle(w) ==
  /\ pc[w] \in SearchLabels /\ ~pending[w]
  /\ last_graph[w] <= n_graph /\ new_graph[w] <= n_graph
  /\ pc[w] = "poll_cur" => n_graph > 0

IdleInv == \A w \in Workers \ Crew : Idle(w)

\* A secondary thread of the running graph: yet to see it, about to start it, or in it.
Joins(w) ==
  \/ /\ last_graph[w] + 1 = n_graph /\ ~pending[w]
     /\ pc[w] \in SearchLabels \/ Gone(w)
     /\ pc[w] = "poll_cur" => new_graph[w] = n_graph
  \/ last_graph[w] = n_graph /\ pending[w] /\ pc[w] = "polled"
  \/ last_graph[w] = n_graph /\ ~pending[w] /\ InGraph(w) /\ ~Gone(w)

\* A secondary thread that is done with the last graph.
Rests(w) ==
  /\ last_graph[w] = n_graph /\ ~pending[w]
  /\ pc[w] \in SearchLabels \ {"poll_cur"} \/ Gone(w)

Crewed(w) == IF Running THEN Joins(w) ELSE Rests(w)

CrewInv == \A w \in Crew \ {0} : Crewed(w)

Lockstep == Running => \A t \in Crew : Pos(t) = Pos(0)

\* What ggml_barrier's local variables say about its shared ones.
BarrierInv ==
  /\ \A t \in Crew :
       /\ pc[t] \in BarrierLabels \ {"bar_cur"} => bar_n[t] = Width /\ Width > 1
       /\ pc[t] \in {"bar_add", "bar_reset", "bar_pass"} => n_passed[t] = n_barrier_passed
       /\ pc[t] = "bar_spin" => n_passed[t] <= n_barrier_passed
       /\ pc[t] = "bar_reset" => Arrived = Crew /\ n_barrier = Width
       /\ pc[t] = "bar_pass"  => Arrived = Crew /\ n_barrier = 0
       /\ \A u \in Crew : pc[t] \in {"bar_reset", "bar_pass"} /\ u # t => pc[u] = "bar_spin"
  /\ (\A t \in Crew : pc[t] \notin {"bar_reset", "bar_pass"}) =>
       n_barrier = Cardinality(Arrived) /\ Arrived # Crew

\* Where a thread is among the nodes, and that it does not run past an abort.
AtNode(t) ==
  /\ nth[t] = Width
  /\ pc[t] = "node" => node_n[t] # abort
  /\ pc[t] \in BarrierLabels /\ ret[t] = "next" => node_n[t] # abort
  /\ pc[t] \in BarrierLabels /\ ret[t] = "done" => node_n[t] = NNodes \/ node_n[t] = abort
  /\ node_n[t] = NNodes => abort # NNodes - 1

NodeInv == \A t \in Crew : Begun(t) => AtNode(t)

\* The abort index as a function of where the main thread is.
AbortInv ==
  /\ ec = "success" <=> abort = -1
  /\ pc[0] \in {"kick_lock", "kick_graph", "kick_wake", "start", "node"} => abort = -1
  /\ pc[0] = "test" => abort \in {-1, node_n[0]}
  /\ pc[0] \in BarrierLabels /\ ret[0] = "next" => abort \in {-1, node_n[0] + 1}
  /\ (pc[0] \in BarrierLabels /\ ret[0] = "done") \/ (pc[0] = "idle" /\ n_graph > 0) =>
       abort = node_n[0] \/ (abort = -1 /\ node_n[0] = NNodes)

\* After a graph all its threads are at the same node.
EndInv == ~Running /\ n_graph > 0 => \A t \in Crew : node_n[t] = node_n[0]

\* Together: the inductive invariant.  TypeOK's parts about ggml_barrier and the
\* abort index are only preserved because the threads of a graph move in step.
IInv == TypeInv /\ WidthInv /\ IdleInv /\ CrewInv /\ Lockstep /\ BarrierInv
        /\ NodeInv /\ AbortInv /\ EndInv
=============================================================================
