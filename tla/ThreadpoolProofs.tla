-------------------------- MODULE ThreadpoolProofs --------------------------
(***************************************************************************)
(* Proofs about the thread pool.  TypeOK holds for every pool; the safety  *)
(* properties hold when all graphs use the same number of threads, by the  *)
(* inductive invariant IInv of ThreadpoolInv.                              *)
(***************************************************************************)
EXTENDS ThreadpoolInv, FiniteSetTheorems, TLAPS

USE DEF MainLabels, SearchLabels, ComputeLabels, BarrierLabels

\* The main thread is one of the threads.
LEMMA ThreadZero == 0 \in Threads /\ Workers \subseteq Threads /\ 0 \notin Workers
BY NThreadsAssumption DEF Threads, Workers

\* ggml_graph_compute never uses more threads than the pool has.
LEMMA ClampType == \A r \in Requests : Clamp(r) \in 1 .. NThreads
BY NThreadsAssumption, RequestsAssumption DEF Clamp

\* A new pool is well typed.
LEMMA TypeInit == Init => TypeInv
<1> SUFFICES ASSUME Init PROVE TypeInv
  OBVIOUS
<1>1. SharedType
  BY NThreadsAssumption, NNodesAssumption DEF Init, SharedType
<1>2. FlagType
  BY DEF Init, FlagType
<1>3. PcType
  <2>1. \A t \in Threads : pc[t] = IF t = 0 THEN "idle" ELSE "top"
    BY DEF Init
  <2> QED BY <2>1, ThreadZero DEF Init, PcType
<1>4. LocalType
  BY NThreadsAssumption, NNodesAssumption DEF Init, LocalType
<1>5. InBounds
  BY DEF Init, InBounds
<1> QED BY <1>1, <1>2, <1>3, <1>4, <1>5 DEF TypeInv, TypeOK

\* One thread moving to a label of its own kind.
LEMMA GotoType ==
  ASSUME PcType, NEW t \in Threads, NEW l, Goto(t, l),
         t = 0 => l \in MainLabels \union ComputeLabels,
         t # 0 => l \in SearchLabels \union ComputeLabels
  PROVE  PcType' /\ pc'[t] = l /\ \A u \in Threads \ {t} : pc'[u] = pc[u]
BY ThreadZero DEF Goto, PcType, Workers

\* u stays where it is, or is woken from one of the two waits.
Woken(u) == \/ pc'[u] = pc[u]
            \/ pc[u] \in {"pause_wait", "work_wait"} /\ pc'[u] \in {"pause_wake", "lock_work"}

\* A broadcast moves only the main thread and the sleepers.
LEMMA BroadcastType ==
  ASSUME PcType, NEW l \in MainLabels \union ComputeLabels, Broadcast(l)
  PROVE  /\ PcType' /\ pc'[0] = l
         /\ \A u \in Threads \ {0} : Woken(u)
<1>1. \A t \in Threads : pc'[t] = IF t = 0 THEN l ELSE Awake(pc[t])
  BY DEF Broadcast
<1>2. ASSUME NEW w \in Workers
      PROVE  /\ Awake(pc[w]) \in SearchLabels \union ComputeLabels
             /\ \/ Awake(pc[w]) = pc[w]
                \/ /\ pc[w] \in {"pause_wait", "work_wait"}
                   /\ Awake(pc[w]) \in {"pause_wake", "lock_work"}
  <2>1. pc[w] \in SearchLabels \union ComputeLabels
    BY DEF PcType
  <2>2. CASE pc[w] = "pause_wait"
    BY <2>2 DEF Awake
  <2>3. CASE pc[w] = "work_wait"
    BY <2>3 DEF Awake
  <2>4. CASE pc[w] \notin {"pause_wait", "work_wait"}
    <3>1. Awake(pc[w]) = pc[w]
      BY <2>4 DEF Awake
    <3> QED BY <2>1, <3>1
  <2> QED BY <2>2, <2>3, <2>4
<1>3. pc' \in [Threads -> MainLabels \union SearchLabels \union ComputeLabels]
  BY <1>1, <1>2 DEF Broadcast, Workers
<1>4. pc'[0] = l /\ \A w \in Workers : pc'[w] = Awake(pc[w])
  BY <1>1, ThreadZero DEF Workers
<1> QED BY <1>2, <1>3, <1>4 DEF PcType, Workers, Woken

\* Every step keeps the types.
LEMMA TypeStep == TypeInv /\ [Next]_vars => TypeInv'
<1> SUFFICES ASSUME TypeInv, [Next]_vars PROVE TypeInv'
  OBVIOUS
<1> USE ThreadZero, NThreadsAssumption, NNodesAssumption
<1> USE DEF TypeInv, TypeOK, SharedType, FlagType, LocalType, InBounds,
            poolVars, workVars, runVars, barVars
<1>1. CASE GraphCompute
  BY <1>1, GotoType, ClampType DEF GraphCompute, PcType, Goto
<1>2. CASE KickLock
  BY <1>2, GotoType, ClampType DEF KickLock, PcType, Goto
<1>3. CASE KickGraph
  BY <1>3, GotoType DEF KickGraph, PcType, Goto
<1>4. CASE KickWake
  <2>1. PcType' /\ InBounds'
    BY <1>4, BroadcastType DEF KickWake, Woken
  <2>2. SharedType' /\ FlagType' /\ LocalType'
    BY <1>4 DEF KickWake
  <2> QED BY <2>1, <2>2
<1>5. CASE Pause
  BY <1>5, BroadcastType DEF Pause, PcType, Woken
<1>6. CASE Resume
  BY <1>6, BroadcastType DEF Resume, PcType, Woken
<1>7. CASE Free
  BY <1>7, GotoType DEF Free, PcType, Goto
<1>8. CASE FreeWake
  <2>1. PcType' /\ InBounds'
    BY <1>8, BroadcastType DEF FreeWake, Woken
  <2>2. SharedType' /\ FlagType' /\ LocalType'
    BY <1>8 DEF FreeWake
  <2> QED BY <2>1, <2>2
<1>9. CASE Join
  BY <1>9, GotoType DEF Join, PcType, Goto
<1>10. ASSUME NEW w \in Workers, PauseLoop(w) PROVE TypeInv'
  BY <1>10, GotoType DEF PauseLoop, PcType, Goto, Workers
<1>11. ASSUME NEW w \in Workers, PauseLock(w) PROVE TypeInv'
  BY <1>11, GotoType DEF PauseLock, PcType, Goto, Workers
<1>12. ASSUME NEW w \in Workers, PauseWake(w) PROVE TypeInv'
  BY <1>12, GotoType DEF PauseWake, PcType, Goto, Workers
<1>13. ASSUME NEW w \in Workers, StopCheck(w) PROVE TypeInv'
  BY <1>13, GotoType DEF StopCheck, PcType, Goto, Workers
<1>14. ASSUME NEW w \in Workers, PollActive(w) PROVE TypeInv'
  BY <1>14, GotoType DEF PollActive, ThreadActive, PcType, Goto, Workers
<1>15. ASSUME NEW w \in Workers, PollStop(w) PROVE TypeInv'
  BY <1>15, GotoType DEF PollStop, PcType, Goto, Workers
<1>16. ASSUME NEW w \in Workers, PollPause(w) PROVE TypeInv'
  BY <1>16, GotoType DEF PollPause, PcType, Goto, Workers
<1>17. ASSUME NEW w \in Workers, PollGraph(w) PROVE TypeInv'
  BY <1>17, GotoType DEF PollGraph, PcType, Goto, Workers
<1>18. ASSUME NEW w \in Workers, PollCur(w) PROVE TypeInv'
  BY <1>18, GotoType DEF PollCur, ThreadActive, PcType, Goto, Workers
<1>19. ASSUME NEW w \in Workers, Polled(w) PROVE TypeInv'
  BY <1>19, GotoType DEF Polled, PcType, Goto, Workers
<1>20. ASSUME NEW w \in Workers, LockWork(w) PROVE TypeInv'
  <2>1. PcType' /\ InBounds'
    BY <1>20, GotoType DEF LockWork, ThreadActive, PcType, Workers
  <2>2. SharedType' /\ FlagType' /\ LocalType'
    BY <1>20 DEF LockWork, ThreadActive, Workers
  <2> QED BY <2>1, <2>2
<1>21. ASSUME NEW w \in Workers, SpuriousWake(w) PROVE TypeInv'
  BY <1>21, GotoType DEF SpuriousWake, PcType, Goto, Workers, Awake
<1>22. ASSUME NEW t \in Threads, Start(t) PROVE TypeInv'
  BY <1>22, GotoType DEF Start, PcType, Goto
<1>23. ASSUME NEW t \in Threads, Test(t) PROVE TypeInv'
  BY <1>23, GotoType DEF Test, PcType, Goto
<1>24. ASSUME NEW t \in Threads, Node(t) PROVE TypeInv'
  BY <1>24, GotoType DEF Node, AbortAt, PcType, Goto
<1>25. ASSUME NEW t \in Threads, BarCur(t) PROVE TypeInv'
  BY <1>25, GotoType DEF BarCur, PcType, Goto, Return
<1>26. ASSUME NEW t \in Threads, BarLoad(t) PROVE TypeInv'
  BY <1>26, GotoType DEF BarLoad, PcType, Goto
<1>27. ASSUME NEW t \in Threads, BarAdd(t) PROVE TypeInv'
  BY <1>27, GotoType DEF BarAdd, Last, PcType, Goto
<1>28. ASSUME NEW t \in Threads, BarReset(t) PROVE TypeInv'
  BY <1>28, GotoType DEF BarReset, PcType, Goto
<1>29. ASSUME NEW t \in Threads, BarPass(t) PROVE TypeInv'
  BY <1>29, GotoType DEF BarPass, PcType, Goto, Return
<1>30. ASSUME NEW t \in Threads, BarSpin(t) PROVE TypeInv'
  BY <1>30, GotoType DEF BarSpin, PcType, Goto, Return
<1>31. CASE UNCHANGED vars
  BY <1>31 DEF vars, PcType
<1> QED
  BY <1>1, <1>2, <1>3, <1>4, <1>5, <1>6, <1>7, <1>8, <1>9, <1>10, <1>11, <1>12, <1>13,
     <1>14, <1>15, <1>16, <1>17, <1>18, <1>19, <1>20, <1>21, <1>22, <1>23, <1>24, <1>25,
     <1>26, <1>27, <1>28, <1>29, <1>30, <1>31
  DEF Next, Kickoff, Freed, Compute, Barrier, FindWork

\* The thread pool's variables have the types the code gives them: node indices stay
\* within the graph, thread counts within the pool, whatever mix of thread counts
\* the graphs ask for.
THEOREM TypeCorrect == Spec => []TypeOK
<1>1. TypeInv => TypeOK
  BY DEF TypeInv
<1> QED
  BY <1>1, TypeInit, TypeStep, PTL DEF Spec
-----------------------------------------------------------------------------
\* The crew of a graph: at least the main thread, at most the pool.
LEMMA CrewFacts ==
  /\ Width \in 1 .. NThreads
  /\ 0 \in Crew /\ Crew \subseteq Threads
  /\ IsFiniteSet(Crew) /\ Cardinality(Crew) = Width
  /\ \A t \in Threads : t \in Crew <=> t < Width
<1>1. Width \in 1 .. NThreads
  BY ClampType, RequestsAssumption DEF Width
<1>2. IsFiniteSet(0 .. Width - 1) /\ Cardinality(0 .. Width - 1) = Width
  BY <1>1, FS_Interval
<1> QED BY <1>1, <1>2, NThreadsAssumption DEF Crew, Threads

\* When all graphs ask for the same number of threads, this is Width.
LEMMA OneWidthFact == OneWidth => \A r \in Requests : Clamp(r) = Width
<1>1. (CHOOSE r \in Requests : TRUE) \in Requests
  BY RequestsAssumption
<1> QED BY <1>1 DEF OneWidth, Width

\* The barrier's count can only reach Width when the whole crew has arrived.
LEMMA Counting ==
  ASSUME NEW S \in SUBSET Crew, NEW t \in Crew, t \notin S
  PROVE  /\ IsFiniteSet(S) /\ Cardinality(S) \in Nat
         /\ Cardinality(S \union {t}) = Cardinality(S) + 1
         /\ Cardinality(S) = Width - 1 <=> S \union {t} = Crew
<1>1. IsFiniteSet(S) /\ Cardinality(S) \in Nat
  BY CrewFacts, FS_Subset, FS_CardinalityType
<1>2. Cardinality(S \union {t}) = Cardinality(S) + 1
  BY <1>1, FS_AddElement
<1>3. Cardinality(S \union {t}) = Cardinality(Crew) => S \union {t} = Crew
  BY CrewFacts, FS_Subset
<1>4. Cardinality(S) = Width - 1 <=> Cardinality(S \union {t}) = Width
  BY <1>1, <1>2, CrewFacts
<1> QED BY <1>1, <1>2, <1>3, <1>4, CrewFacts
-----------------------------------------------------------------------------
\* What the invariant says of u is the same before and after a step.
Same(u) ==
  /\ InGraph(u)' <=> InGraph(u)
  /\ Leaving(u)' <=> Leaving(u)
  /\ Gone(u)' <=> Gone(u)
  /\ Begun(u)' <=> Begun(u)
  /\ Pos(u)' = Pos(u)
  /\ u \in Arrived' <=> u \in Arrived

\* A step that neither moves u inside a graph nor completes a barrier leaves u the same.
LEMMA SameLocal ==
  ASSUME NEW u,
         pc'[u] = pc[u] \/ (pc[u] \notin ComputeLabels /\ pc'[u] \notin ComputeLabels),
         ret'[u] = ret[u], node_n'[u] = node_n[u], n_passed'[u] = n_passed[u],
         n_barrier_passed' = n_barrier_passed
  PROVE  Same(u)
<1>1. InGraph(u)' <=> InGraph(u)
  BY DEF InGraph
<1>2. Leaving(u)' <=> Leaving(u)
  BY DEF Leaving
<1>3. Gone(u)' <=> Gone(u)
  BY <1>2 DEF Gone
<1>4. Begun(u)' <=> Begun(u)
  BY <1>1, <1>3 DEF Begun, InGraph
<1>5. Pos(u)' = Pos(u)
  BY <1>2, <1>4 DEF Pos, Crossed
<1>6. u \in Arrived' <=> u \in Arrived
  BY DEF Arrived, Inside
<1> QED BY <1>1, <1>2, <1>3, <1>4, <1>5, <1>6 DEF Same

\* Between graphs no thread is at a node.
LEMMA NoneBegun ==
  ASSUME IInv, ~Running, NEW t \in Threads
  PROVE  ~Begun(t)
<1>1. CASE t = 0
  BY <1>1 DEF Running, Begun
<1>2. CASE t \in Crew \ {0}
  <2>1. Rests(t)
    BY <1>2 DEF IInv, CrewInv, Crewed
  <2> QED BY <2>1 DEF Rests, Begun, InGraph
<1>3. CASE t \in Workers \ Crew
  BY <1>3 DEF IInv, IdleInv, Idle, Begun, InGraph
<1> QED BY <1>1, <1>2, <1>3 DEF Workers

\* A thread that computes belongs to the crew of a running graph that it has seen.
LEMMA InRunning ==
  ASSUME IInv, NEW t \in Threads, InGraph(t), ~Gone(t)
  PROVE  /\ t \in Crew /\ Running /\ n_graph > 0 /\ n_threads_cur = Width
         /\ t # 0 => last_graph[t] = n_graph /\ ~pending[t]
<1>1. t \in Crew
  BY CrewFacts DEF IInv, IdleInv, Idle, InGraph, Workers
<1>2. t = 0 => Running
  BY DEF Running
<1>3. t # 0 => /\ ~Rests(t)
               /\ Joins(t) => last_graph[t] = n_graph /\ ~pending[t]
  BY DEF Rests, Joins, InGraph
<1>4. t # 0 => Running /\ Joins(t)
  BY <1>1, <1>3 DEF IInv, CrewInv, Crewed
<1>5. Running => n_graph > 0
  BY DEF IInv, WidthInv, Running
<1> QED BY <1>1, <1>2, <1>3, <1>4, <1>5 DEF IInv, WidthInv

\* Steps that move no thread of a graph keep what is known of barriers and nodes.
LEMMA Frame ==
  ASSUME IInv, UNCHANGED <<runVars, barVars>>,
         \A u \in Threads : \/ pc'[u] = pc[u]
                            \/ pc[u] \notin ComputeLabels /\ pc'[u] \notin ComputeLabels
  PROVE  /\ \A u \in Threads : Same(u)
         /\ BarrierInv'
         /\ abort' = abort \/ ~Running => NodeInv'
         /\ (Running' => Running) => Lockstep'
<1>1. \A u \in Threads : Same(u)
  BY SameLocal DEF runVars, barVars
<1>2. Arrived' = Arrived
  BY <1>1, CrewFacts DEF Same, Arrived
<1>3. BarrierInv'
  BY <1>2, CrewFacts DEF IInv, BarrierInv, barVars
<1>4. ASSUME abort' = abort \/ ~Running PROVE NodeInv'
  BY <1>1, <1>4, NoneBegun, CrewFacts DEF Same, IInv, NodeInv, AtNode, Begun, InGraph, runVars
<1>5. ASSUME Running' => Running PROVE Lockstep'
  BY <1>1, <1>5, CrewFacts DEF Same, IInv, Lockstep
<1> QED BY <1>1, <1>3, <1>4, <1>5

\* Steps of the main thread outside ggml_graph_compute_thread, which only wake sleepers.
LEMMA CrewFrame ==
  ASSUME IInv, UNCHANGED <<n_graph, workVars>>, Running' <=> Running,
         \A u \in Threads : Same(u), \A u \in Threads \ {0} : Woken(u)
  PROVE  CrewInv' /\ IdleInv'
<1>1. ASSUME NEW w \in Crew \ {0}, Joins(w) PROVE Joins(w)'
  BY <1>1, CrewFacts DEF Same, Woken, Joins, workVars
<1>2. ASSUME NEW w \in Crew \ {0}, Rests(w) PROVE Rests(w)'
  BY <1>2, CrewFacts DEF Same, Woken, Rests, workVars
<1>3. CrewInv'
  BY <1>1, <1>2 DEF IInv, CrewInv, Crewed
<1>4. IdleInv'
  BY DEF IInv, IdleInv, Idle, Woken, workVars, Workers
<1> QED BY <1>3, <1>4

\* Everything the main thread does outside ggml_graph_compute's kickoff and nodes.
LEMMA MainIdle ==
  ASSUME OneWidth, IInv, TypeInv',
         GraphCompute \/ KickLock \/ Pause \/ Resume \/ Free \/ FreeWake \/ Join
  PROVE  IInv'
<1> USE ThreadZero DEF IInv, TypeInv, TypeOK
<1>1. /\ UNCHANGED <<runVars, barVars, workVars, n_graph>>
      /\ pc[0] \in {"idle", "kick_lock", "free_wake", "join"}
      /\ pc'[0] \in {"idle", "kick_lock", "kick_graph", "free_wake", "join", "freed"}
      /\ \A u \in Threads \ {0} : Woken(u)
  <2>1. CASE GraphCompute BY <2>1, GotoType DEF GraphCompute, Woken
  <2>2. CASE KickLock BY <2>2, GotoType DEF KickLock, Woken
  <2>3. CASE Pause BY <2>3, BroadcastType DEF Pause
  <2>4. CASE Resume BY <2>4, BroadcastType DEF Resume
  <2>5. CASE Free BY <2>5, GotoType DEF Free, Woken
  <2>6. CASE FreeWake BY <2>6, BroadcastType DEF FreeWake
  <2>7. CASE Join BY <2>7, GotoType DEF Join, Woken, workVars, runVars, barVars, poolVars
  <2> QED BY <2>1, <2>2, <2>3, <2>4, <2>5, <2>6, <2>7
<1>2. ~Running /\ ~Running'
  BY <1>1 DEF Running, InGraph
<1>3. BarrierInv' /\ NodeInv' /\ Lockstep' /\ \A u \in Threads : Same(u)
  BY <1>1, <1>2, Frame DEF Woken
<1>4. CrewInv' /\ IdleInv'
  BY <1>1, <1>2, <1>3, CrewFrame
<1>5. WidthInv' /\ AbortInv'
  <2> USE <1>1 DEF WidthInv, AbortInv, InGraph, Woken, Workers, runVars
  <2>1. CASE GraphCompute BY <2>1, GotoType, OneWidthFact DEF GraphCompute
  <2>2. CASE KickLock BY <2>2, GotoType DEF KickLock
  <2>3. CASE Pause BY <2>3, BroadcastType DEF Pause
  <2>4. CASE Resume BY <2>4, BroadcastType DEF Resume
  <2>5. CASE Free BY <2>5, GotoType DEF Free
  <2>6. CASE FreeWake BY <2>6, BroadcastType DEF FreeWake
  <2>7. CASE Join BY <2>7, GotoType DEF Join, poolVars
  <2> QED BY <2>1, <2>2, <2>3, <2>4, <2>5, <2>6, <2>7
<1>6. EndInv'
  BY <1>1, <1>2 DEF EndInv, runVars
<1> QED BY <1>3, <1>4, <1>5, <1>6

\* The kickoff turns a resting crew into one that has a graph to join.
LEMMA KickGraphStep == ASSUME OneWidth, IInv, TypeInv', KickGraph PROVE IInv'
<1>1. /\ UNCHANGED <<runVars, barVars, workVars>> /\ n_graph' = n_graph + 1 /\ n_graph \in Nat
      /\ pc[0] = "kick_graph" /\ pc'[0] = "kick_wake"
      /\ \A u \in Threads \ {0} : pc'[u] = pc[u]
  BY GotoType, ThreadZero DEF KickGraph, IInv, TypeInv, TypeOK, SharedType
<1>2. ~Running /\ Running' /\ ~InGraph(0)'
  BY <1>1 DEF Running, InGraph
<1>3. BarrierInv' /\ NodeInv' /\ \A u \in Threads : Same(u)
  BY <1>1, <1>2, Frame, ThreadZero
<1>4. Lockstep'
  BY <1>2, <1>3, NoneBegun, CrewFacts DEF Same, Lockstep, Pos
<1>5. CrewInv'
  <2> SUFFICES ASSUME NEW w \in Crew \ {0} PROVE Joins(w)'
    BY <1>2 DEF CrewInv, Crewed
  <2>1. Rests(w)
    BY <1>2 DEF IInv, CrewInv, Crewed
  <2> QED BY <1>1, <1>3, <2>1, CrewFacts DEF Rests, Joins, Same, Gone, Leaving, workVars
<1>6. IdleInv'
  BY <1>1 DEF IInv, IdleInv, Idle, workVars, Workers, TypeInv, TypeOK, LocalType
<1>7. WidthInv'
  BY <1>1, <1>2 DEF KickGraph, IInv, WidthInv, Workers
<1>8. AbortInv' /\ EndInv'
  BY <1>1, <1>2 DEF KickGraph, IInv, AbortInv, EndInv, runVars
<1> QED BY <1>3, <1>4, <1>5, <1>6, <1>7, <1>8 DEF IInv

\* Waking the sleepers starts the main thread at position 0, where the crew still is.
LEMMA KickWakeStep == ASSUME OneWidth, IInv, TypeInv', KickWake PROVE IInv'
<1>1. /\ UNCHANGED <<runVars, barVars, workVars, n_graph>>
      /\ pc[0] = "kick_wake" /\ pc'[0] = "start"
      /\ \A u \in Threads \ {0} : Woken(u)
  BY BroadcastType, ThreadZero DEF KickWake, IInv, TypeInv, TypeOK
<1>2. Running /\ Running' /\ ~Begun(0)' /\ ~Begun(0)
  BY <1>1 DEF Running, InGraph, Gone, Leaving, Begun
<1>3. \A u \in Threads \ {0} : Same(u)
  BY <1>1, SameLocal DEF Woken, runVars, barVars
<1>4. Lockstep'
  BY <1>2, <1>3, CrewFacts DEF IInv, Lockstep, Same, Pos
<1>5. BarrierInv'
  <2>1. Arrived' = Arrived
    BY <1>1, <1>3, CrewFacts DEF Same, Arrived, Inside
  <2> QED BY <1>1, <2>1, CrewFacts DEF IInv, BarrierInv, barVars, Woken
<1>6. NodeInv'
  BY <1>1, <1>2, <1>3, CrewFacts DEF KickWake, IInv, NodeInv, AtNode, runVars, Woken, Same, Begun, InGraph
<1>7. CrewInv'
  <2> SUFFICES ASSUME NEW w \in Crew \ {0} PROVE Joins(w)'
    BY <1>2 DEF CrewInv, Crewed
  <2>1. Joins(w)
    BY <1>2 DEF IInv, CrewInv, Crewed
  <2> QED BY <1>1, <1>3, <2>1, CrewFacts DEF Joins, Same, Woken, workVars
<1>8. IdleInv'
  BY <1>1 DEF IInv, IdleInv, Idle, Woken, workVars, Workers
<1>9. WidthInv' /\ AbortInv' /\ EndInv'
  BY <1>1, <1>2 DEF KickWake, IInv, WidthInv, AbortInv, EndInv, Woken, Workers, runVars
<1> QED BY <1>4, <1>5, <1>6, <1>7, <1>8, <1>9 DEF IInv

-----------------------------------------------------------------------------
\* A secondary thread w looks for work, and starts a graph at most.
Search(w) ==
  /\ pc[w] \in SearchLabels /\ pc'[w] \in SearchLabels \union {"start"}
  /\ pc'[w] = "exit" => stop
  /\ \A u \in Threads \ {w} : /\ pc'[u] = pc[u] /\ last_graph'[u] = last_graph[u]
                              /\ pending'[u] = pending[u] /\ new_graph'[u] = new_graph[u]
  /\ UNCHANGED <<poolVars, runVars, barVars>>

\* Such a step keeps the invariant when it keeps what is said of w itself.
LEMMA SearchFrame ==
  ASSUME IInv, TypeInv', NEW w \in Workers, Search(w),
         w \in Crew => IF Running THEN Joins(w)' ELSE Rests(w)',
         w \notin Crew => Idle(w)'
  PROVE  IInv'
<1>1. \A u \in Threads \ {w} : Same(u)
  BY SameLocal DEF Search, runVars, barVars
<1>2. Begun(w)' = FALSE /\ Begun(w) = FALSE /\ w \notin Arrived /\ w \notin Arrived'
  BY DEF Search, Begun, InGraph, Arrived, Inside
<1>3. \A u \in Threads : Begun(u)' <=> Begun(u)
  BY <1>1, <1>2 DEF Same
<1>4. \A u \in Threads : Pos(u)' = Pos(u)
  BY <1>1, <1>2 DEF Same, Pos
<1>5. /\ pc'[0] = pc[0]
      /\ Running' <=> Running
  BY <1>1, ThreadZero DEF Same, Search, Running
<1>6. Arrived' = Arrived
  BY <1>1, <1>2, CrewFacts DEF Same, Arrived
<1>7. WidthInv'
  BY <1>1, <1>5, ThreadZero DEF Same, IInv, WidthInv, Search, poolVars
<1>8. IdleInv'
  BY ThreadZero DEF IInv, IdleInv, Idle, Search, poolVars
<1>9. CrewInv'
  <2>1. ASSUME NEW u \in Crew \ {0}, u # w PROVE Crewed(u)'
    <3>1. Crewed(u)
      BY DEF IInv, CrewInv
    <3>2. Joins(u)' <=> Joins(u)
      BY <1>1, <2>1, CrewFacts DEF Joins, Search, Same, poolVars
    <3>3. Rests(u)' <=> Rests(u)
      BY <1>1, <2>1, CrewFacts DEF Rests, Search, Same, poolVars
    <3> QED BY <1>5, <3>1, <3>2, <3>3 DEF Crewed
  <2> QED BY <1>5, <2>1 DEF CrewInv, Crewed
<1>10. Lockstep'
  BY <1>4, <1>5, CrewFacts DEF IInv, Lockstep
<1>11. BarrierInv'
  BY <1>6, CrewFacts DEF IInv, BarrierInv, barVars, Search
<1>12. NodeInv'
  BY <1>3, CrewFacts DEF IInv, NodeInv, AtNode, runVars, poolVars, Search, Begun
<1>13. AbortInv' /\ EndInv'
  BY <1>5 DEF IInv, AbortInv, EndInv, runVars, poolVars, Search
<1> QED BY <1>7, <1>8, <1>9, <1>10, <1>11, <1>12, <1>13 DEF IInv

\* Looking at pause, stop and n_threads_cur, sleeping and waking change no thread state.
LEMMA LookStep ==
  ASSUME IInv, TypeInv', NEW w \in Workers,
         \/ PauseLoop(w) \/ PauseLock(w) \/ PauseWake(w) \/ StopCheck(w) \/ PollActive(w)
         \/ PollStop(w) \/ PollPause(w) \/ SpuriousWake(w)
  PROVE  IInv'
<1> USE ThreadZero DEF IInv, TypeInv, TypeOK
<1>1. /\ Search(w) /\ UNCHANGED workVars
      /\ pc[w] \notin {"polled", "poll_cur"} /\ pc'[w] \in SearchLabels \ {"poll_cur"}
  <2> USE GotoType DEF Search, poolVars, workVars, runVars, barVars
  <2>1. CASE PauseLoop(w) BY <2>1 DEF PauseLoop
  <2>2. CASE PauseLock(w) BY <2>2 DEF PauseLock
  <2>3. CASE PauseWake(w) BY <2>3 DEF PauseWake
  <2>4. CASE StopCheck(w) BY <2>4 DEF StopCheck
  <2>5. CASE PollActive(w) BY <2>5 DEF PollActive, ThreadActive
  <2>6. CASE PollStop(w) BY <2>6 DEF PollStop
  <2>7. CASE PollPause(w) BY <2>7 DEF PollPause
  <2>8. CASE SpuriousWake(w) BY <2>8 DEF SpuriousWake, Awake
  <2> QED BY <2>1, <2>2, <2>3, <2>4, <2>5, <2>6, <2>7, <2>8
<1>2. ~Gone(w) /\ ~Gone(w)' /\ ~InGraph(w)
  BY <1>1 DEF Search, Gone, Leaving, InGraph
<1>3. w \notin Crew => Idle(w)'
  BY <1>1 DEF IdleInv, Idle, Search, poolVars, workVars
<1>4. w \in Crew => IF Running THEN Joins(w)' ELSE Rests(w)'
  BY <1>1, <1>2 DEF CrewInv, Crewed, Joins, Rests, Search, poolVars, workVars
<1> QED BY <1>1, <1>3, <1>4, SearchFrame

\* The polling thread reads n_graph ...
LEMMA PollGraphStep == ASSUME IInv, TypeInv', NEW w \in Workers, PollGraph(w) PROVE IInv'
<1> USE ThreadZero DEF IInv, TypeInv, TypeOK
<1>1. /\ Search(w) /\ UNCHANGED <<last_graph, pending>> /\ new_graph'[w] = n_graph
      /\ pc[w] = "poll_graph" /\ pc'[w] \in {"poll_stop", "polled", "poll_cur"}
      /\ pc'[w] = "poll_cur" => n_graph # last_graph[w]
  BY GotoType DEF PollGraph, Search, LocalType, runVars, barVars
<1>2. ~Gone(w) /\ ~Gone(w)' /\ ~InGraph(w)
  BY <1>1 DEF Gone, Leaving, InGraph
<1>3. w \notin Crew => Idle(w)'
  BY <1>1 DEF IdleInv, Idle, Search, poolVars, SharedType, LocalType
<1>4. w \in Crew => IF Running THEN Joins(w)' ELSE Rests(w)'
  BY <1>1, <1>2 DEF CrewInv, Crewed, Joins, Rests, Search, poolVars
<1> QED BY <1>1, <1>3, <1>4, SearchFrame

\* ... and, of a graph that is new to it, n_threads_cur, which by then is Width.
LEMMA PollCurStep == ASSUME IInv, TypeInv', NEW w \in Workers, PollCur(w) PROVE IInv'
<1> USE ThreadZero DEF IInv, TypeInv, TypeOK
<1>1. /\ Search(w) /\ last_graph'[w] = new_graph[w] /\ UNCHANGED new_graph
      /\ pending'[w] <=> w < n_threads_cur
      /\ pc[w] = "poll_cur" /\ pc'[w] \in {"poll_stop", "polled"}
      /\ w < n_threads_cur => pc'[w] = "polled"
  <2>1. pending' = [pending EXCEPT ![w] = w < n_threads_cur]
    BY DEF PollCur, ThreadActive
  <2>2. /\ pending'[w] = (w < n_threads_cur)
        /\ \A u \in Threads \ {w} : pending'[u] = pending[u]
    BY <2>1, Zenon DEF LocalType, Workers
  <2>3. /\ pc[w] = "poll_cur" /\ pc'[w] \in {"poll_stop", "polled"}
        /\ w < n_threads_cur => pc'[w] = "polled"
        /\ \A u \in Threads \ {w} : pc'[u] = pc[u]
    <3>1. w < n_threads_cur => Goto(w, "polled")
      BY DEF PollCur, ThreadActive
    <3>2. ~(w < n_threads_cur) => Goto(w, "poll_stop") \/ Goto(w, "polled")
      BY DEF PollCur, ThreadActive
    <3>3. pc[w] = "poll_cur"
      BY DEF PollCur, ThreadActive
    <3> QED BY <3>1, <3>2, <3>3, GotoType
  <2>4. /\ last_graph'[w] = new_graph[w]
        /\ \A u \in Threads \ {w} : last_graph'[u] = last_graph[u]
        /\ UNCHANGED <<poolVars, new_graph, runVars, barVars>>
    BY DEF PollCur, ThreadActive, LocalType, Workers
  <2> QED BY <2>2, <2>3, <2>4 DEF Search
<1>2. ~Gone(w) /\ ~Gone(w)' /\ ~InGraph(w)
  BY <1>1 DEF Gone, Leaving, InGraph
<1>3. w \notin Crew => Idle(w)'
  BY <1>1, CrewFacts DEF IdleInv, Idle, Search, WidthInv, poolVars
<1>4. ASSUME w \in Crew PROVE IF Running THEN Joins(w)' ELSE Rests(w)'
  <2>1. Running /\ last_graph[w] + 1 = n_graph /\ new_graph[w] = n_graph
    BY <1>1, <1>2, <1>4 DEF CrewInv, Crewed, Joins, Rests
  <2>2. n_threads_cur = Width
    BY <2>1 DEF WidthInv, Running
  <2> QED BY <1>1, <1>4, <2>1, <2>2, CrewFacts DEF Joins, Search, poolVars
<1> QED BY <1>1, <1>3, <1>4, SearchFrame

\* A thread that has seen a graph starts it, once.
LEMMA PolledStep == ASSUME IInv, TypeInv', NEW w \in Workers, Polled(w) PROVE IInv'
<1> USE ThreadZero DEF IInv, TypeInv, TypeOK
<1>1. /\ Search(w) /\ UNCHANGED <<last_graph, new_graph>> /\ ~pending'[w]
      /\ pc[w] = "polled" /\ pc'[w] = IF pending[w] THEN "start" ELSE "lock_work"
  BY GotoType DEF Polled, Search, LocalType, runVars, barVars
<1>2. ~Gone(w) /\ ~Gone(w)' /\ ~InGraph(w)
  BY <1>1 DEF Gone, Leaving, InGraph
<1>3. w \notin Crew => Idle(w)'
  BY <1>1 DEF IdleInv, Idle, Search, poolVars
<1>4. w \in Crew => IF Running THEN Joins(w)' ELSE Rests(w)'
  BY <1>1, <1>2 DEF CrewInv, Crewed, Joins, Rests, Search, InGraph, poolVars
<1> QED BY <1>1, <1>3, <1>4, SearchFrame

\* Under the mutex a thread sees a consistent n_graph and n_threads_cur.
LEMMA LockWorkStep == ASSUME IInv, TypeInv', NEW w \in Workers, LockWork(w) PROVE IInv'
<1> USE ThreadZero DEF IInv, TypeInv, TypeOK
<1>1. ~pending[w]
  BY DEF LockWork, ThreadActive, CrewInv, Crewed, Joins, Rests, InGraph, IdleInv, Idle
<1>2. /\ Search(w) /\ UNCHANGED new_graph /\ ~pending'[w]
      /\ pc[w] = "lock_work" /\ pc'[w] \in {"start", "top", "work_wait"}
      /\ \/ pc'[w] = "top" /\ last_graph'[w] = last_graph[w]
         \/ /\ last_graph'[w] = n_graph
            /\ pc'[w] = "start" <=> n_graph # last_graph[w] /\ w < n_threads_cur
            /\ pc'[w] # "top"
  BY <1>1, GotoType DEF LockWork, ThreadActive, Search, LocalType, runVars, barVars
<1>3. ~Gone(w) /\ ~Gone(w)' /\ ~InGraph(w)
  BY <1>2 DEF Gone, Leaving, InGraph
<1>4. w \notin Crew => Idle(w)'
  BY <1>2, CrewFacts DEF IdleInv, Idle, Search, WidthInv, poolVars, SharedType, LocalType
<1>5. ASSUME w \in Crew PROVE IF Running THEN Joins(w)' ELSE Rests(w)'
  <2>1. Running => n_graph > 0 /\ n_threads_cur = Width /\ w < Width
    BY <1>5, CrewFacts DEF WidthInv, Running
  <2> QED BY <1>2, <1>3, <1>5, <2>1, CrewFacts
          DEF CrewInv, Crewed, Joins, Rests, Search, InGraph, poolVars, SharedType, LocalType
<1> QED BY <1>2, <1>4, <1>5, SearchFrame

-----------------------------------------------------------------------------
\* Thread t takes a step inside ggml_graph_compute_thread.
Computes(t) ==
  /\ InGraph(t)
  /\ \A u \in Threads \ {t} :
       /\ pc'[u] = pc[u] /\ ret'[u] = ret[u] /\ nth'[u] = nth[u]
       /\ node_n'[u] = node_n[u] /\ bar_n'[u] = bar_n[u] /\ n_passed'[u] = n_passed[u]
  /\ UNCHANGED <<n_graph, n_threads_cur, stop, n_threads, workVars>>

\* What such a step leaves alone while t stays inside its graph.
LEMMA StayFrame ==
  ASSUME IInv, TypeInv', NEW t \in Threads, Computes(t), ~Gone(t), InGraph(t)', ~Gone(t)',
         n_barrier_passed' = n_barrier_passed
  PROVE  /\ t \in Crew /\ Running /\ n_graph > 0 /\ n_threads_cur = Width
         /\ \A u \in Threads \ {t} : Same(u)
         /\ WidthInv' /\ IdleInv' /\ CrewInv' /\ EndInv'
         /\ Pos(t)' = Pos(t) => Lockstep'
         /\ abort' = abort /\ AtNode(t)' => NodeInv'
         /\ abort' = abort /\ ec' = ec /\ t # 0 => AbortInv'
<1>1. /\ t \in Crew /\ Running /\ n_graph > 0 /\ n_threads_cur = Width
      /\ t # 0 => last_graph[t] = n_graph /\ ~pending[t]
  BY InRunning DEF Computes
<1>2. \A u \in Threads \ {t} : Same(u)
  BY SameLocal DEF Computes
<1>3. Running'
  <2>1. CASE t = 0
    BY <2>1 DEF Running
  <2>2. CASE t # 0
    BY <1>1, <1>2, <2>2, ThreadZero DEF Running, Same, Computes
  <2> QED BY <2>1, <2>2
<1>4. WidthInv'
  BY <1>1, ThreadZero DEF IInv, WidthInv, Computes, InGraph, Workers
<1>5. IdleInv'
  BY <1>1 DEF IInv, IdleInv, Idle, Computes, workVars, Workers
<1>6. CrewInv'
  <2> SUFFICES ASSUME NEW w \in Crew \ {0} PROVE Joins(w)'
    BY <1>3 DEF CrewInv, Crewed
  <2>1. CASE w = t
    BY <1>1, <2>1 DEF Joins, Computes, workVars
  <2>2. CASE w # t
    <3>1. Joins(w)
      BY <1>1 DEF IInv, CrewInv, Crewed
    <3> QED BY <1>2, <2>2, <3>1, CrewFacts DEF Joins, Same, Computes, workVars
  <2> QED BY <2>1, <2>2
<1>7. EndInv'
  BY <1>3 DEF EndInv
<1>8. ASSUME Pos(t)' = Pos(t) PROVE Lockstep'
  BY <1>1, <1>2, <1>8, CrewFacts DEF IInv, Lockstep, Same
<1>9. ASSUME abort' = abort, AtNode(t)' PROVE NodeInv'
  <2> SUFFICES ASSUME NEW u \in Crew \ {t}, Begun(u)' PROVE AtNode(u)'
    BY <1>9 DEF NodeInv
  <2>1. AtNode(u)
    BY <1>2, CrewFacts DEF IInv, NodeInv, Same
  <2> QED BY <1>9, <2>1, CrewFacts DEF AtNode, Computes
<1>10. ASSUME abort' = abort, ec' = ec, t # 0 PROVE AbortInv'
  BY <1>10, ThreadZero DEF IInv, AbortInv, Computes
<1> QED BY <1>1, <1>2, <1>4, <1>5, <1>6, <1>7, <1>8, <1>9, <1>10

\* Steps outside the barrier do not disturb it.
LEMMA BarrierFrame ==
  ASSUME IInv, NEW t \in Threads, Computes(t),
         pc[t] \in {"start", "test", "node", "bar_cur"},
         pc'[t] \in {"start", "test", "node", "bar_cur"},
         UNCHANGED <<n_barrier, n_barrier_passed>>
  PROVE  BarrierInv'
<1>1. Arrived' = Arrived
  BY CrewFacts DEF Arrived, Inside, Computes
<1>2. \A u \in Crew : pc[u] \in BarrierLabels \ {"bar_cur"} \/ pc'[u] \in BarrierLabels \ {"bar_cur"}
         => pc'[u] = pc[u] /\ bar_n'[u] = bar_n[u] /\ n_passed'[u] = n_passed[u]
  BY CrewFacts DEF Computes
<1> QED BY <1>1, <1>2 DEF IInv, BarrierInv

\* A thread that enters the graph reads the crew's size and starts at node 0.
LEMMA StartStep == ASSUME IInv, TypeInv', NEW t \in Threads, Start(t) PROVE IInv'
<1> USE ThreadZero DEF IInv, TypeInv, TypeOK
<1>1. /\ Computes(t) /\ pc[t] = "start" /\ pc'[t] = "test"
      /\ nth'[t] = n_threads_cur /\ node_n'[t] = 0
      /\ UNCHANGED <<abort, ec, ret, barVars>>
  BY GotoType DEF Start, Computes, InGraph, LocalType, poolVars, workVars, barVars
<1>2. ~Gone(t) /\ InGraph(t)' /\ ~Gone(t)' /\ ~Begun(t) /\ Begun(t)' /\ ~Leaving(t)'
  BY <1>1 DEF Gone, Leaving, InGraph, Begun
<1>3. Pos(t)' = Pos(t)
  BY <1>1, <1>2, NNodesAssumption DEF Pos, Crossed
<1>4. n_threads_cur = Width /\ BarrierInv'
  BY <1>1, <1>2, StayFrame, BarrierFrame DEF barVars
<1>5. AtNode(t)'
  BY <1>1, <1>4, NNodesAssumption DEF AtNode
<1>6. AbortInv'
  BY <1>1 DEF AbortInv, Computes
<1> QED BY <1>1, <1>2, <1>3, <1>4, <1>5, <1>6, StayFrame DEF barVars

\* The loop condition keeps a thread from running past the end or an abort.
LEMMA TestStep == ASSUME IInv, TypeInv', NEW t \in Threads, Test(t) PROVE IInv'
<1> USE ThreadZero DEF IInv, TypeInv, TypeOK
<1>1. /\ Computes(t) /\ pc[t] = "test" /\ UNCHANGED <<abort, ec, nth, node_n, barVars>>
      /\ \/ /\ pc'[t] = "node" /\ ret'[t] = ret[t]
            /\ node_n[t] < NNodes /\ abort # node_n[t]
         \/ /\ pc'[t] = "bar_cur" /\ ret'[t] = "done"
            /\ node_n[t] >= NNodes \/ abort = node_n[t]
  BY GotoType, NNodesAssumption DEF Test, Computes, InGraph, LocalType, poolVars, workVars, barVars
<1>2. ~Gone(t) /\ InGraph(t)' /\ ~Gone(t)' /\ Begun(t) /\ Begun(t)' /\ ~Leaving(t) /\ ~Leaving(t)'
  BY <1>1 DEF Gone, Leaving, InGraph, Begun
<1>3. Pos(t)' = Pos(t)
  BY <1>1, <1>2 DEF Pos, Crossed
<1>4. t \in Crew /\ BarrierInv'
  BY <1>1, <1>2, StayFrame, BarrierFrame DEF barVars
<1>5. AtNode(t)'
  <2>1. AtNode(t)
    BY <1>2, <1>4 DEF NodeInv
  <2>2. node_n[t] \in 0 .. NNodes
    BY DEF LocalType
  <2> QED BY <1>1, <2>1, <2>2, NNodesAssumption DEF AtNode
<1>6. AbortInv'
  <2>1. node_n[0] \in 0 .. NNodes
    BY DEF LocalType
  <2> QED BY <1>1, <2>1, NNodesAssumption DEF AbortInv, Computes
<1> QED BY <1>1, <1>2, <1>3, <1>4, <1>5, <1>6, StayFrame DEF barVars

\* While the main thread is at a node, every other thread is at that node, or in
\* the barrier before it, which is open.
LEMMA AroundNode ==
  ASSUME IInv, pc[0] = "node", NEW u \in Crew, Begun(u)
  PROVE  /\ node_n[u] <= node_n[0] \/ (node_n[u] = NNodes /\ node_n[0] = NNodes - 1)
         /\ node_n[u] = NNodes => node_n[0] = NNodes - 1
<1>1. Begun(0) /\ ~Leaving(0) /\ Running /\ node_n[0] < NNodes
  BY ThreadZero DEF IInv, TypeInv, InBounds, Begun, Gone, Leaving, InGraph, Running
<1>2. Pos(u) = Pos(0) /\ Pos(0) = node_n[0]
  BY <1>1 DEF IInv, Lockstep, Pos, Crossed
<1>3. node_n[u] \in 0 .. NNodes /\ node_n[0] \in 0 .. NNodes
  BY CrewFacts DEF IInv, TypeInv, TypeOK, LocalType
<1> QED BY <1>1, <1>2, <1>3, NNodesAssumption DEF Pos, Crossed

\* The main thread may ask all threads to stop before the next node: it stores the
\* index after its own, so that no thread is past it.
LEMMA NodeStep == ASSUME IInv, TypeInv', NEW t \in Threads, Node(t) PROVE IInv'
<1> USE ThreadZero, NNodesAssumption DEF IInv, TypeInv, TypeOK
<1>1. /\ Computes(t) /\ pc[t] = "node" /\ UNCHANGED <<nth, barVars>>
      /\ node_n[t] < NNodes /\ node_n[t] \in 0 .. NNodes
      /\ \/ UNCHANGED <<abort, ec>>
         \/ t = 0 /\ abort' = node_n[t] + 1 /\ ec' = "aborted"
      /\ \/ /\ pc'[t] = "bar_cur" /\ ret'[t] = "next" /\ node_n'[t] = node_n[t]
            /\ node_n[t] + 1 < NNodes
         \/ /\ pc'[t] = "test" /\ ret'[t] = ret[t] /\ node_n'[t] = NNodes
            /\ node_n[t] = NNodes - 1
  BY GotoType DEF Node, AbortAt, Computes, InGraph, InBounds, LocalType, poolVars, workVars, barVars
<1>2. ~Gone(t) /\ InGraph(t)' /\ ~Gone(t)' /\ Begun(t) /\ Begun(t)' /\ ~Leaving(t) /\ ~Leaving(t)'
  BY <1>1 DEF Gone, Leaving, InGraph, Begun
<1>3. Pos(t)' = Pos(t)
  BY <1>1, <1>2 DEF Pos, Crossed
<1>4. t \in Crew /\ BarrierInv' /\ \A u \in Threads \ {t} : Same(u)
  BY <1>1, <1>2, StayFrame, BarrierFrame DEF barVars
<1>5. AtNode(t)
  BY <1>2, <1>4 DEF NodeInv
<1>6. t = 0 => abort = -1
  BY <1>1 DEF AbortInv
<1>7. AtNode(t)'
  BY <1>1, <1>5, <1>6 DEF AtNode
<1>8. NodeInv'
  <2>1. CASE abort' = abort
    BY <1>1, <1>2, <1>7, <2>1, StayFrame DEF barVars
  <2>2. CASE abort' # abort
    <3> SUFFICES ASSUME NEW u \in Crew \ {t}, Begun(u)' PROVE AtNode(u)'
      BY <1>7 DEF NodeInv
    <3>1. AtNode(u) /\ Begun(u) /\ node_n[u] \in 0 .. NNodes
      BY <1>4, CrewFacts DEF NodeInv, Same, LocalType
    <3>2. t = 0 /\ abort' = node_n[0] + 1 /\ abort = -1
      BY <1>1, <1>6, <2>2
    <3>3. /\ node_n[u] <= node_n[0] \/ (node_n[u] = NNodes /\ node_n[0] = NNodes - 1)
          /\ node_n[u] = NNodes => node_n[0] = NNodes - 1
      BY <1>1, <3>1, <3>2, AroundNode
    <3>4. /\ pc'[u] = pc[u] /\ ret'[u] = ret[u] /\ node_n'[u] = node_n[u] /\ nth'[u] = nth[u]
          /\ pc[u] = "node" => node_n[u] < NNodes
          /\ pc[u] \in BarrierLabels /\ ret[u] = "next" => node_n[u] + 1 < NNodes
      BY <1>1, CrewFacts DEF Computes, InBounds
    <3> QED BY <1>1, <3>1, <3>2, <3>3, <3>4 DEF AtNode
  <2> QED BY <2>1, <2>2
<1>9. AbortInv'
  <2>1. CASE t = 0
    BY <1>1, <1>6, <2>1 DEF AbortInv
  <2>2. CASE t # 0
    BY <1>1, <1>2, <2>2, StayFrame DEF barVars
  <2> QED BY <2>1, <2>2
<1> QED BY <1>1, <1>2, <1>3, <1>4, <1>8, <1>9, StayFrame DEF barVars

-----------------------------------------------------------------------------
\* Entering ggml_barrier, when the crew is more than the main thread.
LEMMA BarCurStep ==
  ASSUME IInv, TypeInv', NEW t \in Threads, BarCur(t), Width > 1
  PROVE  IInv'
<1> USE ThreadZero DEF IInv, TypeInv, TypeOK
<1>1. InGraph(t) /\ ~Gone(t) /\ pc[t] = "bar_cur"
  BY DEF BarCur, InGraph, Gone, Leaving
<1>2. t \in Crew /\ n_threads_cur = Width
  BY <1>1, InRunning
<1>3. /\ Computes(t) /\ pc'[t] = "bar_load" /\ bar_n'[t] = Width
      /\ UNCHANGED <<abort, ec, ret, nth, node_n, n_barrier, n_barrier_passed, n_passed>>
  BY <1>1, <1>2, CrewFacts, GotoType DEF BarCur, Computes, InGraph, LocalType, poolVars, workVars
<1>4. InGraph(t)' /\ ~Gone(t)' /\ Begun(t) /\ Begun(t)' /\ ~Leaving(t) /\ ~Leaving(t)'
  BY <1>1, <1>3 DEF Gone, Leaving, InGraph, Begun
<1>5. Pos(t)' = Pos(t)
  BY <1>3, <1>4 DEF Pos, Crossed
<1>6. AtNode(t)'
  BY <1>1, <1>2, <1>3, <1>4 DEF NodeInv, AtNode
<1>7. BarrierInv'
  <2>1. Arrived' = Arrived
    BY <1>1, <1>3, CrewFacts DEF Arrived, Inside, Computes
  <2> QED BY <1>1, <1>3, <2>1, CrewFacts DEF BarrierInv, Computes
<1>8. AbortInv'
  BY <1>1, <1>3 DEF AbortInv, Computes
<1> QED BY <1>1, <1>3, <1>4, <1>5, <1>6, <1>7, <1>8, StayFrame

\* A thread remembers the number of the barrier that is not completed yet.
LEMMA BarLoadStep == ASSUME IInv, TypeInv', NEW t \in Threads, BarLoad(t) PROVE IInv'
<1> USE ThreadZero DEF IInv, TypeInv, TypeOK
<1>1. /\ Computes(t) /\ pc[t] = "bar_load" /\ pc'[t] = "bar_add"
      /\ n_passed'[t] = n_barrier_passed
      /\ UNCHANGED <<abort, ec, ret, nth, node_n, n_barrier, n_barrier_passed, bar_n>>
  BY GotoType DEF BarLoad, Computes, InGraph, LocalType, poolVars, workVars, runVars
<1>2. /\ ~Gone(t) /\ InGraph(t)' /\ ~Gone(t)' /\ Begun(t) /\ Begun(t)'
      /\ ~Leaving(t) /\ ~Leaving(t)'
  BY <1>1 DEF Gone, Leaving, InGraph, Begun
<1>3. t \in Crew
  BY <1>1, <1>2, InRunning DEF Computes
<1>4. Pos(t)' = Pos(t)
  BY <1>1, <1>2 DEF Pos, Crossed
<1>5. AtNode(t)'
  BY <1>1, <1>2, <1>3 DEF NodeInv, AtNode
<1>6. BarrierInv'
  <2>1. Arrived' = Arrived
    BY <1>1, CrewFacts DEF Arrived, Inside, Computes
  <2> QED BY <1>1, <1>3, <2>1, CrewFacts DEF BarrierInv, Computes
<1>7. AbortInv'
  BY <1>1 DEF AbortInv, Computes
<1> QED BY <1>1, <1>2, <1>4, <1>5, <1>6, <1>7, StayFrame

\* A thread that arrives is the last one exactly when the whole crew has arrived.
LEMMA BarAddStep == ASSUME IInv, TypeInv', NEW t \in Threads, BarAdd(t) PROVE IInv'
<1> USE ThreadZero DEF IInv, TypeInv, TypeOK
<1>1. /\ Computes(t) /\ pc[t] = "bar_add" /\ n_barrier' = n_barrier + 1
      /\ pc'[t] = IF n_barrier = bar_n[t] - 1 THEN "bar_reset" ELSE "bar_spin"
      /\ UNCHANGED <<abort, ec, ret, nth, node_n, n_barrier_passed, bar_n, n_passed>>
  BY GotoType DEF BarAdd, Last, Computes, InGraph, LocalType, poolVars, workVars, runVars
<1>2. ~Gone(t) /\ InGraph(t)' /\ Begun(t) /\ ~Leaving(t)
  BY <1>1 DEF Gone, Leaving, InGraph, Begun
<1>3. t \in Crew
  BY <1>1, <1>2, InRunning DEF Computes
<1>4. bar_n[t] = Width /\ n_passed[t] = n_barrier_passed
  BY <1>1, <1>3 DEF BarrierInv
<1>5. ~Leaving(t)' /\ ~Gone(t)' /\ Begun(t)'
  BY <1>1, <1>4 DEF Gone, Leaving, InGraph, Begun
<1>6. Pos(t)' = Pos(t)
  BY <1>1, <1>2, <1>5 DEF Pos, Crossed
<1>7. AtNode(t)'
  BY <1>1, <1>2, <1>3 DEF NodeInv, AtNode
<1>8. t \notin Arrived /\ Arrived \subseteq Crew /\ Arrived' = Arrived \union {t}
  BY <1>1, <1>3, <1>4, CrewFacts DEF Arrived, Inside, Computes
<1>9. /\ \A u \in Crew : pc[u] \notin {"bar_reset", "bar_pass"}
      /\ n_barrier = Cardinality(Arrived)
  BY <1>3, <1>8 DEF BarrierInv
<1>10. BarrierInv'
  <2>1. /\ n_barrier' = Cardinality(Arrived') /\ Cardinality(Arrived) \in Nat
        /\ n_barrier = Width - 1 <=> Arrived' = Crew
    BY <1>1, <1>3, <1>8, <1>9, Counting
  <2>2. \A u \in Crew : u # t => pc'[u] = pc[u] /\ bar_n'[u] = bar_n[u] /\ n_passed'[u] = n_passed[u]
    BY <1>1, CrewFacts DEF Computes
  <2>3. CASE Arrived' = Crew
    <3>1. pc'[t] = "bar_reset" /\ n_barrier' = Width
      BY <1>1, <1>4, <2>1, <2>3, CrewFacts
    <3>2. \A u \in Crew : u # t => pc[u] = "bar_spin"
      BY <1>8, <1>9, <2>3 DEF Arrived, Inside
    <3> QED BY <1>1, <1>3, <1>4, <2>2, <2>3, <3>1, <3>2 DEF BarrierInv
  <2>4. CASE Arrived' # Crew
    <3>1. pc'[t] = "bar_spin"
      BY <1>1, <1>4, <2>1, <2>4
    <3> QED BY <1>1, <1>3, <1>4, <1>9, <2>1, <2>2, <2>4, <3>1, CrewFacts DEF BarrierInv, SharedType
  <2> QED BY <2>3, <2>4
<1>11. AbortInv'
  BY <1>1 DEF AbortInv, Computes
<1> QED BY <1>1, <1>2, <1>5, <1>6, <1>7, <1>10, <1>11, StayFrame

\* The last thread clears the count while all the others wait.
LEMMA BarResetStep == ASSUME IInv, TypeInv', NEW t \in Threads, BarReset(t) PROVE IInv'
<1> USE ThreadZero DEF IInv, TypeInv, TypeOK
<1>1. /\ Computes(t) /\ pc[t] = "bar_reset" /\ pc'[t] = "bar_pass" /\ n_barrier' = 0
      /\ UNCHANGED <<abort, ec, ret, nth, node_n, n_barrier_passed, bar_n, n_passed>>
  BY GotoType DEF BarReset, Computes, InGraph, LocalType, poolVars, workVars, runVars
<1>2. /\ ~Gone(t) /\ InGraph(t)' /\ ~Gone(t)' /\ Begun(t) /\ Begun(t)'
      /\ ~Leaving(t) /\ ~Leaving(t)'
  BY <1>1 DEF Gone, Leaving, InGraph, Begun
<1>3. t \in Crew
  BY <1>1, <1>2, InRunning DEF Computes
<1>4. Pos(t)' = Pos(t)
  BY <1>1, <1>2 DEF Pos, Crossed
<1>5. AtNode(t)'
  BY <1>1, <1>2, <1>3 DEF NodeInv, AtNode
<1>6. BarrierInv'
  <2>1. Arrived' = Arrived
    BY <1>1, CrewFacts DEF Arrived, Inside, Computes
  <2> QED BY <1>1, <1>3, <2>1, CrewFacts DEF BarrierInv, Computes
<1>7. AbortInv'
  BY <1>1 DEF AbortInv, Computes
<1> QED BY <1>1, <1>2, <1>4, <1>5, <1>6, <1>7, StayFrame

\* Threads in the same barrier are at the same node and return to the same place.
LEMMA Agree ==
  ASSUME IInv, Running, NEW u \in Crew, NEW v \in Crew,
         pc[u] \in BarrierLabels, pc[v] \in BarrierLabels, ~Leaving(u), ~Leaving(v)
  PROVE  Begun(u) /\ ret[u] = ret[v] /\ node_n[u] = node_n[v]
<1>1. Begun(u) /\ Begun(v)
  BY DEF Begun, Gone, InGraph
<1>2. AtNode(u) /\ AtNode(v)
  BY <1>1 DEF IInv, NodeInv
<1>3. Crossed(u) = Crossed(v)
  BY <1>1 DEF IInv, Lockstep, Pos
<1>4. /\ node_n[u] \in 0 .. NNodes /\ ret[u] \in {"next", "done"}
      /\ node_n[v] \in 0 .. NNodes /\ ret[v] \in {"next", "done"}
      /\ ret[u] = "next" => node_n[u] + 1 < NNodes
      /\ ret[v] = "next" => node_n[v] + 1 < NNodes
  BY CrewFacts DEF IInv, TypeInv, TypeOK, LocalType, InBounds
<1> QED BY <1>1, <1>2, <1>3, <1>4, NNodesAssumption DEF AtNode, Crossed

\* Noticing that a barrier is open: on to the next node, or out of the graph.
LEMMA BarSpinStep == ASSUME IInv, TypeInv', NEW t \in Threads, BarSpin(t) PROVE IInv'
<1> USE ThreadZero, NNodesAssumption DEF IInv, TypeInv, TypeOK
<1>1. /\ Computes(t) /\ pc[t] = "bar_spin" /\ n_passed[t] # n_barrier_passed
      /\ UNCHANGED <<abort, ec, ret, nth, barVars>>
      /\ \/ /\ ret[t] = "next" /\ pc'[t] = "test" /\ node_n'[t] = node_n[t] + 1
            /\ node_n[t] + 1 < NNodes
         \/ /\ ret[t] = "done" /\ pc'[t] = IF t = 0 THEN "idle" ELSE "top"
            /\ node_n'[t] = node_n[t]
  BY GotoType DEF BarSpin, Return, Computes, InGraph, LocalType, InBounds, poolVars, workVars, barVars
<1>2. Leaving(t) /\ ~Leaving(t)' /\ node_n[t] \in 0 .. NNodes
  BY <1>1 DEF Leaving, LocalType
<1>3. t \in Crew
  BY <1>1, CrewFacts DEF IdleInv, Idle, Workers
<1>4. Arrived' = Arrived
  BY <1>1, CrewFacts DEF Arrived, Inside, Computes, barVars
<1>5. BarrierInv'
  <2>1. t \notin Arrived
    BY <1>1 DEF Arrived
  <2>2. \A u \in Crew : pc[u] \notin {"bar_reset", "bar_pass"}
    BY <1>3, <2>1 DEF BarrierInv
  <2>3. \A u \in Crew : u # t => pc'[u] = pc[u]
    BY <1>1, CrewFacts DEF Computes
  <2> QED BY <1>1, <1>4, <2>2, <2>3 DEF BarrierInv, barVars
<1>6. ASSUME ret[t] = "next" PROVE IInv'
  <2>1. /\ ~Gone(t) /\ InGraph(t)' /\ ~Gone(t)' /\ Begun(t) /\ Begun(t)'
    BY <1>1, <1>2, <1>6 DEF Gone, InGraph, Begun
  <2>2. Pos(t)' = Pos(t)
    BY <1>1, <1>2, <1>6, <2>1 DEF Pos, Crossed
  <2>3. AtNode(t)'
    BY <1>1, <1>3, <1>6, <2>1 DEF NodeInv, AtNode
  <2>4. AbortInv'
    BY <1>1, <1>6 DEF AbortInv, Computes
  <2> QED BY <1>1, <1>5, <2>1, <2>2, <2>3, <2>4, StayFrame DEF barVars
<1>7. ASSUME ret[t] = "done" PROVE IInv'
  <2>1. /\ pc'[t] = IF t = 0 THEN "idle" ELSE "top"
        /\ Gone(t) /\ ~Gone(t)' /\ ~Begun(t) /\ ~Begun(t)' /\ ~InGraph(t)' /\ node_n' = node_n
    BY <1>1, <1>2, <1>7 DEF BarSpin, Return, Gone, InGraph, Begun
  <2>2. \A u \in Threads \ {t} : Same(u)
    BY <1>1, SameLocal DEF Computes, barVars
  <2>3. /\ \A u \in Threads : (Begun(u)' <=> Begun(u)) /\ Pos(u)' = Pos(u)
        /\ Running' <=> Running
    BY <1>1, <2>1, <2>2 DEF Same, Pos, Running, Computes
  <2>4. WidthInv' /\ IdleInv' /\ EndInv' /\ Lockstep'
    BY <1>1, <1>3, <2>1, <2>3, CrewFacts
       DEF WidthInv, IdleInv, Idle, EndInv, Lockstep, Computes, InGraph, Workers, workVars
  <2>5. CrewInv'
    <3> SUFFICES ASSUME NEW w \in Crew \ {0} PROVE Crewed(w)'
      BY DEF CrewInv
    <3>1. Crewed(w) /\ w \in Threads
      BY CrewFacts DEF CrewInv
    <3>2. CASE w = t
      BY <1>1, <2>1, <2>3, <3>1, <3>2 DEF Crewed, Joins, Rests, Computes, workVars
    <3>3. CASE w # t
      BY <2>2, <2>3, <1>1, <3>1, <3>3 DEF Crewed, Joins, Rests, Same, Computes, workVars
    <3> QED BY <3>2, <3>3
  <2>6. NodeInv'
    <3> SUFFICES ASSUME NEW u \in Crew, Begun(u)' PROVE AtNode(u)'
      BY DEF NodeInv
    <3>1. u # t /\ AtNode(u)
      BY <2>1, <2>3, CrewFacts DEF NodeInv
    <3> QED BY <1>1, <3>1, CrewFacts DEF AtNode, Computes
  <2>7. AbortInv'
    BY <1>1, <1>7, <2>1 DEF AbortInv, Computes
  <2> QED BY <1>5, <2>4, <2>5, <2>6, <2>7
<1> QED BY <1>1, <1>6, <1>7

\* A crew of one needs no barrier.
LEMMA BarCurAlone ==
  ASSUME IInv, TypeInv', NEW t \in Threads, BarCur(t), Width = 1
  PROVE  IInv'
<1> USE ThreadZero, NNodesAssumption DEF IInv, TypeInv, TypeOK
<1>1. InGraph(t) /\ ~Gone(t) /\ pc[t] = "bar_cur"
  BY DEF BarCur, InGraph, Gone, Leaving
<1>2. t = 0 /\ Crew = {0} /\ n_threads_cur = 1
  BY <1>1, InRunning DEF Crew
<1>3. /\ Computes(0) /\ UNCHANGED <<abort, ec, ret, nth, n_barrier, n_barrier_passed, n_passed>>
      /\ \/ /\ ret[0] = "next" /\ pc'[0] = "test" /\ node_n'[0] = node_n[0] + 1
            /\ node_n[0] + 1 < NNodes
         \/ ret[0] = "done" /\ pc'[0] = "idle" /\ node_n'[0] = node_n[0]
  BY <1>1, <1>2, GotoType
     DEF BarCur, Return, Computes, InGraph, LocalType, InBounds, poolVars, workVars
<1>4. BarrierInv'
  <2>1. Arrived = {} /\ Arrived' = {}
    BY <1>1, <1>2, <1>3 DEF Arrived, Inside
  <2> QED BY <1>1, <1>2, <1>3, <2>1 DEF BarrierInv
<1>5. AbortInv'
  BY <1>1, <1>2, <1>3 DEF AbortInv
<1>6. NodeInv' /\ Lockstep' /\ CrewInv' /\ EndInv'
  BY <1>1, <1>2, <1>3 DEF NodeInv, AtNode, Lockstep, CrewInv, EndInv, Begun, Gone, Leaving, InGraph
<1>7. WidthInv' /\ IdleInv'
  BY <1>1, <1>2, <1>3 DEF WidthInv, IdleInv, Idle, Computes, InGraph, Workers, workVars
<1> QED BY <1>4, <1>5, <1>6, <1>7

\* Completing a barrier moves the whole crew: to the next node, or out of the graph.
LEMMA BarPassStep == ASSUME IInv, TypeInv', NEW t \in Threads, BarPass(t) PROVE IInv'
<1> USE ThreadZero, NNodesAssumption DEF IInv, TypeInv, TypeOK
<1>1. /\ Computes(t) /\ pc[t] = "bar_pass" /\ n_barrier_passed' = n_barrier_passed + 1
      /\ UNCHANGED <<abort, ec, ret, nth, n_barrier, n_passed, bar_n>>
      /\ \/ /\ ret[t] = "next" /\ pc'[t] = "test" /\ node_n'[t] = node_n[t] + 1
            /\ node_n[t] + 1 < NNodes
         \/ /\ ret[t] = "done" /\ pc'[t] = IF t = 0 THEN "idle" ELSE "top"
            /\ node_n'[t] = node_n[t]
  BY GotoType DEF BarPass, Return, Computes, InGraph, LocalType, InBounds, poolVars, workVars
<1>2. /\ ~Gone(t) /\ ~Leaving(t) /\ ~Leaving(t)' /\ node_n[t] \in 0 .. NNodes
  BY <1>1 DEF Gone, Leaving, LocalType
<1>3. /\ t \in Crew /\ Running /\ n_graph > 0 /\ n_threads_cur = Width
      /\ t # 0 => last_graph[t] = n_graph /\ ~pending[t]
  BY <1>1, <1>2, InRunning DEF Computes
<1>4. ASSUME NEW u \in Crew, u # t
      PROVE  /\ pc[u] = "bar_spin" /\ pc'[u] = "bar_spin" /\ ~Leaving(u) /\ Leaving(u)'
             /\ Begun(u) /\ ret[u] = ret[t] /\ ret'[u] = ret[t]
             /\ node_n[u] = node_n[t] /\ node_n'[u] = node_n[t]
  <2>1. pc[u] = "bar_spin" /\ u \in Arrived /\ n_passed[u] = n_barrier_passed
    BY <1>1, <1>3, <1>4 DEF BarrierInv, Arrived
  <2>2. ~Leaving(u) /\ Leaving(u)' /\ pc'[u] = "bar_spin"
    BY <1>1, <1>4, <2>1, CrewFacts DEF Leaving, Computes, SharedType
  <2> QED BY <1>1, <1>2, <1>3, <1>4, <2>1, <2>2, Agree, CrewFacts DEF Computes
<1>5. Begun(t)
  BY <1>1, <1>2 DEF Begun, InGraph
<1>6. BarrierInv'
  <2>1. Arrived' = {}
    BY <1>1, <1>4, CrewFacts DEF Arrived, Inside, Leaving
  <2>2. n_barrier' = 0
    BY <1>1, <1>3 DEF BarrierInv
  <2>3. 0 = Cardinality({}) /\ Crew # {}
    BY CrewFacts, FS_EmptySet
  <2>4. ASSUME NEW u \in Crew
        PROVE  /\ pc'[u] \in {"bar_spin", "test", "idle", "top"}
               /\ pc'[u] = "bar_spin" => /\ bar_n'[u] = Width /\ Width > 1
                                        /\ n_passed'[u] <= n_barrier_passed'
    <3>1. CASE u = t
      BY <1>1, <3>1
    <3>2. CASE u # t
      <4>1. pc[u] = "bar_spin" /\ pc'[u] = "bar_spin" /\ ~Leaving(u)
        BY <1>4, <3>2
      <4>2. bar_n[u] = Width /\ Width > 1 /\ n_passed[u] = n_barrier_passed
        BY <4>1 DEF BarrierInv, Leaving
      <4> QED BY <1>1, <4>1, <4>2 DEF SharedType
    <3> QED BY <3>1, <3>2
  <2> QED BY <2>1, <2>2, <2>3, <2>4 DEF BarrierInv
<1>7. WidthInv' /\ IdleInv'
  BY <1>1, <1>3, CrewFacts DEF WidthInv, IdleInv, Idle, Computes, InGraph, Workers, workVars
<1>8. AbortInv'
  BY <1>1 DEF AbortInv, Computes
<1>9. ASSUME ret[t] = "next" PROVE NodeInv' /\ Lockstep' /\ CrewInv' /\ EndInv'
  <2>1. \A u \in Crew : InGraph(u)' /\ ~Gone(u)' /\ Begun(u)'
    BY <1>1, <1>2, <1>4, <1>9 DEF InGraph, Gone, Begun
  <2>2. Running'
    BY <2>1, CrewFacts DEF Running
  <2>3. NodeInv'
    BY <1>1, <1>3, <1>4, <1>5, <1>9, CrewFacts DEF NodeInv, AtNode, Computes
  <2>4. Lockstep'
    BY <1>1, <1>2, <1>4, <1>9, <2>1, CrewFacts DEF Lockstep, Pos, Crossed
  <2>5. CrewInv'
    <3> SUFFICES ASSUME NEW w \in Crew \ {0} PROVE Joins(w)'
      BY <2>2 DEF CrewInv, Crewed
    <3>1. last_graph[w] = n_graph /\ ~pending[w]
      BY <1>3, <1>4, CrewFacts, InRunning DEF Begun
    <3> QED BY <1>1, <2>1, <3>1 DEF Joins, Computes, workVars
  <2> QED BY <2>2, <2>3, <2>4, <2>5 DEF EndInv
<1>10. ASSUME ret[t] = "done" PROVE NodeInv' /\ Lockstep' /\ CrewInv' /\ EndInv'
  <2>1. \A u \in Crew : u # t => Gone(u)'
    BY <1>4, <1>10 DEF Gone
  <2>2. /\ pc'[t] = IF t = 0 THEN "idle" ELSE "top"
        /\ ~InGraph(t)' /\ \A u \in Crew : node_n'[u] = node_n[t]
    BY <1>1, <1>4, <1>10 DEF InGraph
  <2>3. ~Running' /\ \A u \in Crew : ~Begun(u)'
    BY <1>1, <1>4, <2>1, <2>2, CrewFacts DEF Running, Begun, InGraph
  <2>4. CrewInv'
    <3> SUFFICES ASSUME NEW w \in Crew \ {0} PROVE Rests(w)'
      BY <2>3 DEF CrewInv, Crewed
    <3>1. last_graph[w] = n_graph /\ ~pending[w]
      BY <1>3, <1>4, CrewFacts, InRunning DEF Begun
    <3> QED BY <1>1, <2>1, <2>2, <3>1 DEF Rests, Computes, workVars
  <2> QED BY <2>2, <2>3, <2>4, CrewFacts DEF NodeInv, Lockstep, EndInv
<1> QED BY <1>1, <1>6, <1>7, <1>8, <1>9, <1>10

-----------------------------------------------------------------------------
\* A new pool is at rest.
LEMMA InvInit == Init => IInv
<1> SUFFICES ASSUME Init PROVE IInv
  OBVIOUS
<1> USE ThreadZero, CrewFacts
<1>1. TypeInv
  BY TypeInit
<1>2. \A t \in Threads : /\ pc[t] = IF t = 0 THEN "idle" ELSE "top"
                         /\ last_graph[t] = 0 /\ ~pending[t] /\ new_graph[t] = 0
                         /\ node_n[t] = 0
  BY DEF Init
<1>3. ~Running /\ n_graph = 0 /\ pc[0] = "idle" /\ ~stop /\ abort = -1 /\ ec = "success"
      /\ n_barrier = 0
  BY <1>2 DEF Init, Running, InGraph
<1>4. WidthInv
  BY <1>2, <1>3 DEF WidthInv, InGraph, Workers
<1>5. IdleInv
  BY <1>2, <1>3 DEF IdleInv, Idle, Workers
<1>6. CrewInv
  BY <1>2, <1>3 DEF CrewInv, Crewed, Rests
<1>7. BarrierInv
  <2>1. Arrived = {} /\ Cardinality({}) = 0 /\ Crew # {}
    BY <1>2, FS_EmptySet DEF Arrived, Inside
  <2> QED BY <1>2, <1>3, <2>1 DEF BarrierInv
<1>8. Lockstep /\ NodeInv /\ AbortInv /\ EndInv
  BY <1>2, <1>3 DEF Lockstep, NodeInv, AbortInv, EndInv, Begun, InGraph
<1> QED BY <1>1, <1>4, <1>5, <1>6, <1>7, <1>8 DEF IInv

\* Every step keeps the invariant.
LEMMA InvStep == OneWidth /\ IInv /\ [Next]_vars => IInv'
<1> SUFFICES ASSUME OneWidth, IInv, [Next]_vars PROVE IInv'
  OBVIOUS
<1>1. TypeInv'
  BY TypeStep DEF IInv
<1>2. CASE GraphCompute \/ KickLock \/ Pause \/ Resume \/ Free \/ FreeWake \/ Join
  BY <1>1, <1>2, MainIdle
<1>3. CASE KickGraph
  BY <1>1, <1>3, KickGraphStep
<1>4. CASE KickWake
  BY <1>1, <1>4, KickWakeStep
<1>5. ASSUME NEW w \in Workers, FindWork(w) \/ SpuriousWake(w) PROVE IInv'
  BY <1>1, <1>5, LookStep, PollGraphStep, PollCurStep, PolledStep, LockWorkStep DEF FindWork
<1>6. ASSUME NEW t \in Threads, Compute(t) PROVE IInv'
  <2>1. BarCur(t) => IInv'
    BY <1>1, BarCurStep, BarCurAlone, CrewFacts
  <2> QED BY <1>1, <1>6, <2>1, StartStep, TestStep, NodeStep, BarLoadStep, BarAddStep,
             BarResetStep, BarPassStep, BarSpinStep DEF Compute, Barrier
<1>7. CASE UNCHANGED vars
  <2>1. /\ UNCHANGED <<runVars, barVars, poolVars, workVars, pc>>
    BY <1>7 DEF vars
  <2>2. BarrierInv' /\ NodeInv' /\ Lockstep' /\ CrewInv' /\ IdleInv'
    <3>1. Running' <=> Running
      BY <2>1 DEF Running, InGraph, Gone, Leaving, runVars, barVars
    <3>2. \A u \in Threads : Woken(u)
      BY <2>1 DEF Woken
    <3> QED BY <2>1, <3>1, <3>2, Frame, CrewFrame DEF poolVars
  <2>3. WidthInv' /\ AbortInv' /\ EndInv'
    BY <2>1, <2>2 DEF IInv, WidthInv, AbortInv, EndInv, InGraph, Running, Gone, Leaving,
                      poolVars, runVars, barVars
  <2> QED BY <1>1, <2>2, <2>3 DEF IInv
<1> QED BY <1>2, <1>3, <1>4, <1>5, <1>6, <1>7 DEF Next, Kickoff, Freed

\* So the invariant holds throughout, when all graphs use as many threads.
LEMMA InvHolds == OneWidth => (Spec => []IInv)
<1> SUFFICES ASSUME OneWidth PROVE Spec => []IInv
  OBVIOUS
<1>1. IInv /\ [Next]_vars => IInv'
  BY InvStep
<1> QED BY <1>1, InvInit, PTL DEF Spec
-----------------------------------------------------------------------------
\* Outside ggml_graph_compute the crew rests, up to noticing the final barrier.
LEMMA InvQuiescent == IInv => Quiescent
<1> SUFFICES ASSUME IInv, pc[0] \in {"idle", "free_wake", "join", "freed"},
                    NEW w \in Workers, InGraph(w)
             PROVE  Leaving(w) /\ ret[w] = "done"
  BY DEF Quiescent
<1>1. ~Running
  BY DEF Running, InGraph
<1> QED BY <1>1, InRunning, ThreadZero DEF Gone

\* Equal positions put a thread of an earlier node in the open barrier behind it.
LEMMA InvNodeOrder == IInv => NodeOrder
<1> SUFFICES ASSUME IInv, NEW t \in Threads, pc[t] = "node", node_n[t] > 0, NEW u \in Active
             PROVE  /\ InGraph(u) /\ pc[u] # "start"
                    /\ node_n[u] >= node_n[t] \/ (node_n[u] = node_n[t] - 1 /\ Leaving(u))
  BY DEF NodeOrder
<1> USE NNodesAssumption
<1>1. /\ InGraph(t) /\ ~Gone(t) /\ ~Leaving(t) /\ Begun(t)
  BY DEF InGraph, Gone, Leaving, Begun
<1>2. t \in Crew /\ Running /\ u \in Crew /\ u \in Threads
  BY <1>1, InRunning, CrewFacts DEF Active, Crew
<1>3. node_n[t] \in 0 .. NNodes /\ node_n[u] \in 0 .. NNodes /\ node_n[t] < NNodes
  BY <1>2 DEF IInv, TypeInv, TypeOK, LocalType, InBounds
<1>4. Pos(u) = Pos(t)
  BY <1>2, CrewFacts DEF IInv, Lockstep
<1>5. Pos(t) = node_n[t]
  BY <1>1, <1>3 DEF Pos, Crossed
<1>6. Begun(u)
  BY <1>3, <1>4, <1>5 DEF Pos
<1> QED BY <1>3, <1>4, <1>5, <1>6 DEF Pos, Crossed, Begun

\* A thread at a node belongs to the crew and read the crew's size on entry.
LEMMA InvSameShares == IInv => SameShares
<1> SUFFICES ASSUME IInv, NEW t \in Threads, pc[t] = "node"
             PROVE  t < nth[t] /\ nth[t] = n_threads_cur
  BY DEF SameShares
<1>1. InGraph(t) /\ ~Gone(t) /\ Begun(t)
  BY DEF InGraph, Gone, Leaving, Begun
<1>2. t \in Crew /\ n_threads_cur = Width
  BY <1>1, InRunning
<1> QED BY <1>1, <1>2, CrewFacts DEF IInv, NodeInv, AtNode

\* The crew stops at one node, and without an abort that is the last one.
LEMMA InvAbortAgreement == IInv => AbortAgreement
<1> SUFFICES ASSUME IInv, pc[0] = "idle", n_graph > 0
             PROVE  /\ \A t \in Active : node_n[t] = node_n[0]
                    /\ ec = "success" => node_n[0] = NNodes
  BY DEF AbortAgreement
<1>1. ~Running /\ n_threads_cur = Width
  BY DEF IInv, WidthInv, Running, InGraph
<1>2. \A t \in Active : node_n[t] = node_n[0]
  BY <1>1 DEF IInv, EndInv, Active, Crew
<1>3. node_n[0] \in 0 .. NNodes
  BY ThreadZero DEF IInv, TypeInv, TypeOK, LocalType
<1> QED BY <1>2, <1>3 DEF IInv, AbortInv

\* ggml_graph_compute and ggml_threadpool_free leave no secondary thread inside a
\* graph, so that replacing cgraph, cplan and abort, or freeing the pool, is safe.
THEOREM PoolQuiescent == OneWidth => (Spec => []Quiescent)
BY InvHolds, InvQuiescent, PTL

\* ggml_barrier separates the nodes of a graph.
THEOREM NodesInOrder == OneWidth => (Spec => []NodeOrder)
BY InvHolds, InvNodeOrder, PTL

\* The threads of a node share it with the same nth, each with an ith below it.
THEOREM SharesAgree == OneWidth => (Spec => []SameShares)
BY InvHolds, InvSameShares, PTL

\* An abort stops all threads of a graph at the same node, and success means that
\* they all reached the end.
THEOREM AbortsAgree == OneWidth => (Spec => []AbortAgreement)
BY InvHolds, InvAbortAgreement, PTL
=============================================================================
