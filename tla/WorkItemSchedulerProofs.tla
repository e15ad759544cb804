----------------------- MODULE WorkItemSchedulerProofs -----------------------
(* Proofs about WorkItemScheduler: the invariants that its TLC runs check on *)
(* small instances, for every set of work items, every dependency relation,  *)
(* every number of callers and goroutines and every limit; and three that    *)
(* the code keeps only in part, which each theorem names: the limit of items *)
(* in parallel, the recovery of what nobody runs, and a run for every item   *)
(* in execution.                                                             *)
EXTENDS WorkItemScheduler, FiniteSetTheorems, TLAPS

USE DEF Goto, RunnerOnly, ProcOnly, Step, Return, Home, SetStatus, StartCall,
  loopVars, runnerVars, procVars, recVars, auxVars

-----------------------------------------------------------------------------
(* Taking the i-th entry out of a queue leaves a queue.                      *)
LEMMA WithoutType ==
  ASSUME NEW S, NEW q \in Seq(S), NEW i \in 1..Len(q)
  PROVE  Without(q, i) \in Seq(S)
BY DEF Without

LEMMA StatusTypes ==
  /\ MidRun \subseteq WorkItemStatus /\ FailStatuses \subseteq WorkItemStatus
  /\ {"in_execution", "completed", "cancelled", "queued", "accepted",
      "pending_execution"} \subseteq WorkItemStatus
BY SchedulerAssumption DEF WorkItemStatus

LEMMA NoneIsNoItem == None \notin WorkItems
BY SchedulerAssumption

LEMMA TypeInit == Init => TypeOK
<1> SUFFICES ASSUME Init PROVE TypeOK
  OBVIOUS
<1>1. status \in [WorkItems -> WorkItemStatus]
  BY DEF Init, WorkItemStatus
<1>2. queue \in Seq(WorkItems)
  BY DEF Init
<1>3. pc \in [Procs -> ProcPC]
  BY DEF Init, ProcPC
<1>4. rk \in Nat \ {0} /\ ops \in Nat /\ restarts \in Nat
  BY DEF Init
<1> QED
  BY <1>1, <1>2, <1>3, <1>4 DEF Init, TypeOK, AtRest, LoopPC, RunnerPC

LEMMA TypeStep == TypeOK /\ [Next]_vars => TypeOK'
<1> SUFFICES ASSUME TypeOK, [Next]_vars PROVE TypeOK'
  OBVIOUS
<1> USE DEF TypeOK, AtRest
<1>1. CASE DispatchOne
  BY <1>1 DEF DispatchOne, LoopPC, RunnerPC
<1>2. CASE DispatchEnd
  BY <1>2 DEF DispatchEnd, LoopPC
<1>3. CASE Wake
  BY <1>3 DEF Wake, LoopPC
<1>4. CASE BeginDrain
  BY <1>4 DEF BeginDrain, LoopPC, Running, Registered
<1>5. CASE DrainDone
  BY <1>5 DEF DrainDone, LoopPC
<1>6. ASSUME NEW g \in Runners, RunStart(g) PROVE TypeOK'
  BY <1>6 DEF RunStart, RunnerPC
<1>7. ASSUME NEW g \in Runners, RunLaunch(g) PROVE TypeOK'
  <2>1. status' \in [WorkItems -> WorkItemStatus]
    BY <1>7, StatusTypes DEF RunLaunch
  <2>2. rpc' \in [Runners -> RunnerPC]
    BY <1>7 DEF RunLaunch, RunnerPC
  <2> QED
    BY <1>7, <2>1, <2>2 DEF RunLaunch
<1>8. ASSUME NEW g \in Runners, RunSync(g) PROVE TypeOK'
  BY <1>8, StatusTypes DEF RunSync
<1>9. ASSUME NEW g \in Runners, RunDone(g) PROVE TypeOK'
  BY <1>9 DEF RunDone, RunnerPC
<1>10. ASSUME NEW g \in Runners, RunFail(g) PROVE TypeOK'
  BY <1>10 DEF RunFail, RunnerPC
<1>11. ASSUME NEW g \in Runners, RunComplete(g) PROVE TypeOK'
  BY <1>11, StatusTypes DEF RunComplete, RunnerPC
<1>12. ASSUME NEW g \in Runners, RunTerminal(g) PROVE TypeOK'
  BY <1>12, StatusTypes DEF RunTerminal, RunnerPC
<1>13. ASSUME NEW g \in Runners, RunFailed(g) PROVE TypeOK'
  BY <1>13, StatusTypes DEF RunFailed, RunnerPC
<1>14. ASSUME NEW g \in Runners, NextDependent(g) PROVE TypeOK'
  <2>1. rpc' \in [Runners -> RunnerPC]
    BY <1>14 DEF NextDependent, RunnerPC
  <2>2. dep' \in [Runners -> WorkItems \cup {None}] /\ todo' \in [Runners -> SUBSET WorkItems]
    BY <1>14 DEF NextDependent
  <2>3. \A h \in Runners : rpc'[h] \in {"depPrepare", "depAppend"} => dep'[h] # None
    BY <1>14, <2>1, <2>2, NoneIsNoItem DEF NextDependent
  <2> QED
    BY <1>14, <2>1, <2>2, <2>3 DEF NextDependent
<1>15. ASSUME NEW g \in Runners, DependentPrepare(g) PROVE TypeOK'
  BY <1>15, StatusTypes DEF DependentPrepare, RunnerPC
<1>16. ASSUME NEW g \in Runners, DependentAppend(g) PROVE TypeOK'
  BY <1>16 DEF DependentAppend, RunnerPC
<1>17. ASSUME NEW g \in Runners, DependentSignal(g) PROVE TypeOK'
  BY <1>17 DEF DependentSignal, RunnerPC
<1>18. ASSUME NEW g \in Runners, RunExit(g) PROVE TypeOK'
  BY <1>18 DEF RunExit, RunnerPC
<1>19. ASSUME NEW g \in Runners, RunSignal(g) PROVE TypeOK'
  BY <1>19 DEF RunSignal, RunnerPC
<1>20. ASSUME NEW p \in Procs, SubmitCheckDependencies(p) PROVE TypeOK'
  BY <1>20 DEF SubmitCheckDependencies, ProcPC
<1>21. ASSUME NEW p \in Procs, SubmitHold(p) PROVE TypeOK'
  <2>1. status' \in [WorkItems -> WorkItemStatus]
    BY <1>21, StatusTypes DEF SubmitHold
  <2>2. pc' \in [Procs -> ProcPC] /\ wi' \in [Procs -> WorkItems \cup {None}]
    BY <1>21 DEF SubmitHold, ProcPC
  <2>3. \A q \in Procs : pc'[q] \notin AtRest => wi'[q] # None
    BY <1>21 DEF SubmitHold
  <2> QED
    BY <1>21, <2>1, <2>2, <2>3 DEF SubmitHold
<1>22. ASSUME NEW p \in Procs, SubmitPrepare(p) PROVE TypeOK'
  <2>1. status' \in [WorkItems -> WorkItemStatus]
    BY <1>22, StatusTypes DEF SubmitPrepare
  <2>2. pc' \in [Procs -> ProcPC] /\ wi' \in [Procs -> WorkItems \cup {None}]
    BY <1>22 DEF SubmitPrepare, ProcPC
  <2>3. \A q \in Procs : pc'[q] \notin AtRest => wi'[q] # None
    BY <1>22 DEF SubmitPrepare
  <2> QED
    BY <1>22, <2>1, <2>2, <2>3 DEF SubmitPrepare
<1>23. ASSUME NEW p \in Procs, SubmitAppend(p) PROVE TypeOK'
  BY <1>23 DEF SubmitAppend, ProcPC
<1>24. ASSUME NEW p \in Procs, SubmitSignal(p) PROVE TypeOK'
  BY <1>24 DEF SubmitSignal, ProcPC
<1>25. ASSUME NEW p \in Procs, CancelQueued(p) PROVE TypeOK'
  <2>1. status' \in [WorkItems -> WorkItemStatus]
    BY <1>25, StatusTypes DEF CancelQueued
  <2>2. pc' \in [Procs -> ProcPC] /\ wi' \in [Procs -> WorkItems \cup {None}]
    BY <1>25 DEF CancelQueued, ProcPC
  <2>3. \A q \in Procs : pc'[q] \notin AtRest => wi'[q] # None
    BY <1>25 DEF CancelQueued
  <2> QED
    BY <1>25, <2>1, <2>2, <2>3 DEF CancelQueued
<1>26. ASSUME NEW p \in Procs, CancelRead(p) PROVE TypeOK'
  BY <1>26 DEF CancelRead, ProcPC
<1>27. ASSUME NEW p \in Procs, CancelWrite(p) PROVE TypeOK'
  <2>1. status' \in [WorkItems -> WorkItemStatus]
    BY <1>27, StatusTypes DEF CancelWrite
  <2>2. pc' \in [Procs -> ProcPC] /\ wi' \in [Procs -> WorkItems \cup {None}]
    BY <1>27 DEF CancelWrite, ProcPC
  <2>3. \A q \in Procs : pc'[q] \notin AtRest => wi'[q] # None
    BY <1>27 DEF CancelWrite
  <2> QED
    BY <1>27, <2>1, <2>2, <2>3 DEF CancelWrite
<1>28. ASSUME NEW c \in Procs, NEW w \in WorkItems, SubmitBegin(c, w) PROVE TypeOK'
  <2>1. pc' \in [Procs -> ProcPC] /\ wi' \in [Procs -> WorkItems \cup {None}]
    BY <1>28 DEF SubmitBegin, ProcPC
  <2>2. \A p \in Procs : pc'[p] \notin AtRest => wi'[p] # None
    BY <1>28, NoneIsNoItem DEF SubmitBegin
  <2> QED
    BY <1>28, <2>1, <2>2 DEF SubmitBegin
<1>29. ASSUME NEW c \in Procs, NEW w \in WorkItems, CancelBegin(c, w) PROVE TypeOK'
  <2>1. queue' \in Seq(WorkItems)
    BY <1>29, WithoutType DEF CancelBegin
  <2>2. cancelled' \in SUBSET Runners
    BY <1>29 DEF CancelBegin, Registered
  <2>3. pc' \in [Procs -> ProcPC] /\ wi' \in [Procs -> WorkItems \cup {None}]
    BY <1>29 DEF CancelBegin, ProcPC
  <2>4. \A p \in Procs : pc'[p] \notin AtRest => wi'[p] # None
    BY <1>29, NoneIsNoItem DEF CancelBegin
  <2> QED
    BY <1>29, <2>1, <2>2, <2>3, <2>4 DEF CancelBegin
<1>30. CASE RecoveryList
  BY <1>30 DEF RecoveryList, Procs, ProcPC
<1>31. CASE RecoveryItem
  <2>1. Recoverer \in Procs
    BY DEF Procs
  <2>2. pc' \in [Procs -> ProcPC] /\ wi' \in [Procs -> WorkItems \cup {None}]
    BY <1>31 DEF RecoveryItem, ProcPC
  <2>3. ASSUME UNCHANGED wi, pc' = [pc EXCEPT ![Recoverer] = "list"]
        PROVE  \A p \in Procs : pc'[p] \notin AtRest => wi'[p] # None
    BY <2>1, <2>3
  <2>4. ASSUME NEW w \in WorkItems,
               wi' = [wi EXCEPT ![Recoverer] = w],
               pc' = [pc EXCEPT ![Recoverer] = "reset"]
        PROVE  \A p \in Procs : pc'[p] \notin AtRest => wi'[p] # None
    BY <2>1, <2>4, NoneIsNoItem
  <2> QED
    BY <1>31, <2>2, <2>3, <2>4 DEF RecoveryItem
<1>32. CASE RecoveryReset
  BY <1>32, StatusTypes DEF RecoveryReset, Procs, ProcPC
<1>33. CASE RecoverySubmit
  BY <1>33 DEF RecoverySubmit, Procs, ProcPC
<1>34. CASE SchedulerStop
  BY <1>34 DEF SchedulerStop
<1>35. CASE Shutdown
  BY <1>35 DEF Shutdown
<1>36. CASE Restart
  <2>1. queue' \in Seq(WorkItems)
    BY <1>36 DEF Restart
  <2>2. /\ status' \in [WorkItems -> WorkItemStatus]
        /\ running' \in [WorkItems -> Runners \cup {None}]
        /\ closed' \in BOOLEAN /\ stopped' \in BOOLEAN /\ notify' \in BOOLEAN
        /\ loop' \in LoopPC
    BY <1>36 DEF Restart, LoopPC
  <2>3. /\ rpc' \in [Runners -> RunnerPC]
        /\ rwi' \in [Runners -> WorkItems \cup {None}]
        /\ cancelled' \in SUBSET Runners
        /\ todo' \in [Runners -> SUBSET WorkItems]
        /\ dep' \in [Runners -> WorkItems \cup {None}]
        /\ \A g \in Runners : rpc'[g] = "idle"
    BY <1>36 DEF Restart, RunnerPC
  <2>4. pc' = [p \in Procs |-> IF p = Recoverer THEN "list" ELSE "idle"]
    BY <1>36 DEF Restart
  <2>5. pc' \in [Procs -> ProcPC] /\ \A p \in Procs : pc'[p] \in AtRest
    <3> HIDE DEF TypeOK
    <3>1. \A p \in Procs : pc'[p] \in {"list", "idle"}
      BY <2>4
    <3> QED
      BY <2>4, <3>1 DEF ProcPC
  <2>6. /\ wi' \in [Procs -> WorkItems \cup {None}]
        /\ seen' \in [Procs -> WorkItemStatus \cup {None}]
        /\ rk' \in Nat \ {0} /\ rtodo' \in SUBSET WorkItems /\ rseen' \in SUBSET WorkItems
        /\ ops' \in Nat /\ restarts' \in Nat
    BY <1>36 DEF Restart
  <2> HIDE DEF AtRest
  <2> QED
    BY <2>1, <2>2, <2>3, <2>5, <2>6
<1>37. CASE UNCHANGED vars
  BY <1>37 DEF vars
<1>99. QED
  BY <1>1, <1>2, <1>3, <1>4, <1>5, <1>6, <1>7, <1>8, <1>9, <1>10, <1>11, <1>12, <1>13, <1>14, <1>15, <1>16, <1>17, <1>18, <1>19, <1>20, <1>21, <1>22, <1>23, <1>24, <1>25, <1>26, <1>27, <1>28, <1>29, <1>30, <1>31, <1>32, <1>33, <1>34, <1>35, <1>36, <1>37
  DEF Next, LoopStep, RunnerStep, ProcStep, CancelStep, RecoveryStep, Procs

(* TypeOK holds in every reachable state, whatever the constants.            *)
THEOREM TypeCorrect == Spec => []TypeOK
BY TypeInit, TypeStep, PTL DEF Spec
-----------------------------------------------------------------------------
(* The registered runs change in a dispatch, in a cleanup and in a restart.  *)
LEMMA RunnerFrame ==
  ASSUME NEW g \in Runners, RunnerStep(g) \/ RunSync(g)
  PROVE  RunExit(g) \/ UNCHANGED running
BY DEF RunnerStep, RunStart, RunLaunch, RunSync, RunDone, RunFail, RunComplete,
  RunTerminal, RunFailed, NextDependent, DependentPrepare, DependentAppend,
  DependentSignal, RunSignal

LEMMA CallerFrame ==
  ASSUME NEW p, ProcStep(p) \/ CancelStep(p)
  PROVE  UNCHANGED running
BY DEF ProcStep, SubmitCheckDependencies, SubmitHold, SubmitPrepare, SubmitAppend,
  SubmitSignal, CancelStep, CancelQueued, CancelRead, CancelWrite

LEMMA RunningFrame ==
  ASSUME [Next]_vars
  PROVE  \/ DispatchOne \/ (\E g \in Runners : RunExit(g)) \/ Restart
         \/ UNCHANGED running
<1>1. CASE LoopStep
  BY <1>1 DEF LoopStep, DispatchEnd, Wake, BeginDrain, DrainDone
<1>2. CASE \E g \in Runners : RunnerStep(g) \/ RunSync(g)
  BY <1>2, RunnerFrame
<1>3. CASE \E p \in Procs : ProcStep(p) \/ CancelStep(p)
  BY <1>3, CallerFrame
<1>4. CASE \E c \in Clients, w \in WorkItems : SubmitBegin(c, w) \/ CancelBegin(c, w)
  BY <1>4 DEF SubmitBegin, CancelBegin
<1>5. CASE RecoveryStep
  BY <1>5 DEF RecoveryStep, RecoveryList, RecoveryItem, RecoveryReset, RecoverySubmit
<1>6. CASE SchedulerStop \/ Shutdown \/ Restart
  BY <1>6 DEF SchedulerStop, Shutdown
<1>7. CASE UNCHANGED vars
  BY <1>7 DEF vars
<1> QED
  BY <1>1, <1>2, <1>3, <1>4, <1>5, <1>6, <1>7 DEF Next, Procs

LEMMA RunningFinite ==
  ASSUME TypeOK
  PROVE  IsFiniteSet(Running) /\ Cardinality(Running) \in Nat
BY SchedulerAssumption, FS_Subset, FS_CardinalityType DEF Running

LEMMA CapacityInit == Init => CapacityRespected
<1> SUFFICES ASSUME Init PROVE CapacityRespected
  OBVIOUS
<1>1. Running = {}
  BY DEF Init, Running, Registered
<1> QED
  BY <1>1, SchedulerAssumption, FS_EmptySet DEF CapacityRespected

LEMMA CapacityStep == TypeOK /\ CapacityRespected /\ [Next]_vars => CapacityRespected'
<1> SUFFICES ASSUME TypeOK, CapacityRespected, [Next]_vars PROVE CapacityRespected'
  OBVIOUS
<1> USE RunningFinite, SchedulerAssumption DEF CapacityRespected
<1>1. CASE DispatchOne
  <2>1. Running' \subseteq Running \cup {Head(queue)}
    BY <1>1 DEF DispatchOne, Running, Registered, TypeOK
  <2>2. /\ IsFiniteSet(Running \cup {Head(queue)})
        /\ Cardinality(Running \cup {Head(queue)}) <= Cardinality(Running) + 1
    <3>1. IsFiniteSet(Running) /\ Cardinality(Running) \in Nat
      BY RunningFinite
    <3>2. /\ IsFiniteSet(Running \cup {Head(queue)})
          /\ Cardinality(Running \cup {Head(queue)})
               = IF Head(queue) \in Running THEN Cardinality(Running)
                                            ELSE Cardinality(Running) + 1
      BY <3>1, FS_AddElement, ZenonT(20)
    <3> QED
      BY <3>1, <3>2
  <2>3. Cardinality(Running') <= Cardinality(Running \cup {Head(queue)})
    BY <2>1, <2>2, FS_Subset
  <2>4. Cardinality(Running) < MaxConcurrent
    BY <1>1 DEF DispatchOne, HasCapacity
  <2>5. Cardinality(Running') \in Nat /\ Cardinality(Running \cup {Head(queue)}) \in Nat
    BY <2>1, <2>2, FS_Subset, FS_CardinalityType
  <2> QED
    BY <2>2, <2>3, <2>4, <2>5
<1>2. ASSUME Running' \subseteq Running PROVE CapacityRespected'
  <2>1. Cardinality(Running') <= Cardinality(Running) /\ Cardinality(Running') \in Nat
    BY <1>2, FS_Subset, FS_CardinalityType
  <2> QED
    BY <2>1
<1>3. CASE \E g \in Runners : RunExit(g)
  <2>1. Running' \subseteq Running
    BY <1>3 DEF RunExit, Running, Registered, TypeOK
  <2> QED
    BY <2>1, <1>2
<1>4. CASE Restart
  <2>1. Running' \subseteq Running
    BY <1>4 DEF Restart, Running, Registered
  <2> QED
    BY <2>1, <1>2
<1>5. CASE UNCHANGED running
  BY <1>5 DEF Running, Registered
<1> QED
  BY <1>1, <1>3, <1>4, <1>5, RunningFrame

(* s.running never holds more entries than maxConcurrent.                    *)
THEOREM CapacityCorrect == Spec => []CapacityRespected
<1>1. TypeOK /\ CapacityRespected /\ [Next]_vars => CapacityRespected'
  BY CapacityStep
<1> QED
  BY <1>1, CapacityInit, TypeCorrect, PTL DEF Spec
-----------------------------------------------------------------------------
(* A step that leaves the queue and the loop alone keeps the invariant if it *)
(* frees no slot, takes no token and ends no promise to signal.              *)
LEMMA WakeupKept ==
  ASSUME NoLostWakeup, UNCHANGED <<loop, queue, running>>,
         notify => notify', SignalComing => SignalComing'
  PROVE  NoLostWakeup'
BY DEF NoLostWakeup, Running, Registered

LEMMA WakeupStep == TypeOK /\ NoLostWakeup /\ [Next]_vars => NoLostWakeup'
<1> SUFFICES ASSUME TypeOK, NoLostWakeup, [Next]_vars PROVE NoLostWakeup'
  OBVIOUS
<1>1. CASE LoopStep
  <2>1. CASE DispatchEnd
    BY <2>1 DEF DispatchEnd, NoLostWakeup, HasCapacity, Running, Registered
  <2>2. CASE DispatchOne \/ Wake \/ BeginDrain \/ DrainDone
    BY <2>2 DEF DispatchOne, Wake, BeginDrain, DrainDone, NoLostWakeup
  <2> QED
    BY <1>1, <2>1, <2>2 DEF LoopStep
<1>2. ASSUME NEW g \in Runners, RunnerStep(g) \/ RunSync(g) PROVE NoLostWakeup'
  <2>1. CASE DependentAppend(g) \/ RunExit(g)
    <3>1. rpc'[g] \in {"depSignal", "signal"}
      BY <2>1 DEF DependentAppend, RunExit, TypeOK
    <3> QED
      BY <3>1 DEF NoLostWakeup, SignalComing
  <2>2. CASE DependentSignal(g) \/ RunSignal(g)
    BY <2>2 DEF DependentSignal, RunSignal, NoLostWakeup
  <2>3. CASE \/ RunStart(g) \/ RunLaunch(g) \/ RunSync(g) \/ RunDone(g) \/ RunFail(g)
             \/ RunComplete(g) \/ RunTerminal(g) \/ RunFailed(g)
             \/ NextDependent(g) \/ DependentPrepare(g)
    <3>1. /\ UNCHANGED <<loop, queue, running, notify, pc>>
          /\ rpc[g] \notin {"depSignal", "signal"}
          /\ \A h \in Runners \ {g} : rpc'[h] = rpc[h]
      BY <2>3 DEF RunStart, RunLaunch, RunSync, RunDone, RunFail, RunComplete,
        RunTerminal, RunFailed, NextDependent, DependentPrepare, TypeOK
    <3>2. SignalComing => SignalComing'
      BY <3>1 DEF SignalComing
    <3> QED
      BY <3>1, <3>2, WakeupKept
  <2> QED
    BY <1>2, <2>1, <2>2, <2>3 DEF RunnerStep
<1>3. ASSUME NEW p \in Procs, ProcStep(p) \/ CancelStep(p) PROVE NoLostWakeup'
  <2>1. CASE SubmitAppend(p)
    <3>1. pc'[p] = "signal"
      BY <2>1 DEF SubmitAppend, TypeOK
    <3> QED
      BY <3>1 DEF NoLostWakeup, SignalComing
  <2>2. CASE SubmitSignal(p)
    BY <2>2 DEF SubmitSignal, NoLostWakeup
  <2>3. CASE \/ SubmitCheckDependencies(p) \/ SubmitHold(p) \/ SubmitPrepare(p)
             \/ CancelQueued(p) \/ CancelRead(p) \/ CancelWrite(p)
    <3>1. /\ UNCHANGED <<loop, queue, running, notify, rpc>>
          /\ pc[p] # "signal"
          /\ \A q \in Procs \ {p} : pc'[q] = pc[q]
      BY <2>3 DEF SubmitCheckDependencies, SubmitHold, SubmitPrepare, CancelQueued,
        CancelRead, CancelWrite, TypeOK
    <3>2. SignalComing => SignalComing'
      BY <3>1 DEF SignalComing
    <3> QED
      BY <3>1, <3>2, WakeupKept
  <2> QED
    BY <1>3, <2>1, <2>2, <2>3 DEF ProcStep, CancelStep
<1>4. ASSUME NEW c \in Procs, NEW w \in WorkItems, SubmitBegin(c, w) \/ CancelBegin(c, w)
      PROVE  NoLostWakeup'
  <2>1. /\ UNCHANGED <<loop, running, notify, rpc>>
        /\ queue' # <<>> => queue # <<>>
        /\ pc[c] # "signal"
        /\ \A q \in Procs \ {c} : pc'[q] = pc[q]
    BY <1>4 DEF SubmitBegin, CancelBegin, TypeOK
  <2>2. SignalComing => SignalComing'
    BY <2>1 DEF SignalComing
  <2> QED
    BY <2>1, <2>2 DEF NoLostWakeup, Running, Registered
<1>5. CASE RecoveryStep
  <2>1. /\ UNCHANGED <<loop, queue, running, notify, rpc>>
        /\ pc[Recoverer] # "signal"
        /\ \A q \in Procs \ {Recoverer} : pc'[q] = pc[q]
    BY <1>5 DEF RecoveryStep, RecoveryList, RecoveryItem, RecoveryReset,
      RecoverySubmit, TypeOK
  <2>2. SignalComing => SignalComing'
    BY <2>1 DEF SignalComing
  <2> QED
    BY <2>1, <2>2, WakeupKept
<1>6. CASE SchedulerStop \/ Shutdown \/ UNCHANGED vars
  BY <1>6, WakeupKept DEF SchedulerStop, Shutdown, vars, SignalComing
<1>7. CASE Restart
  BY <1>7 DEF Restart, NoLostWakeup
<1> QED
  BY <1>1, <1>2, <1>3, <1>4, <1>5, <1>6, <1>7 DEF Next, Procs

(* The loop never sleeps on work it could dispatch.                          *)
THEOREM WakeupCorrect == Spec => []NoLostWakeup
<1>1. Init => NoLostWakeup
  BY DEF Init, NoLostWakeup
<1>2. TypeOK /\ NoLostWakeup /\ [Next]_vars => NoLostWakeup'
  BY WakeupStep
<1> QED
  BY <1>1, <1>2, TypeCorrect, PTL DEF Spec
-----------------------------------------------------------------------------
(* What the recovery's own position says about its lists.                    *)
RecoveryInv ==
  /\ rk = 1 => rseen = {} /\ pc[Recoverer] \in {"list", "finished"}
  /\ pc[Recoverer] = "list" => rtodo = {}

LEMMA RecoveryInvStep == TypeOK /\ RecoveryInv /\ [Next]_vars => RecoveryInv'
<1> SUFFICES ASSUME TypeOK, RecoveryInv, [Next]_vars PROVE RecoveryInv'
  OBVIOUS
<1> USE DEF RecoveryInv
<1>1. ASSUME UNCHANGED <<pc, recVars>> PROVE RecoveryInv'
  BY <1>1
<1>2. CASE LoopStep
  BY <1>2, <1>1 DEF LoopStep, DispatchOne, DispatchEnd, Wake, BeginDrain, DrainDone
<1>3. ASSUME NEW g \in Runners, RunnerStep(g) \/ RunSync(g) PROVE RecoveryInv'
  BY <1>3, <1>1 DEF RunnerStep, RunStart, RunLaunch, RunSync, RunDone, RunFail,
    RunComplete, RunTerminal, RunFailed, NextDependent, DependentPrepare,
    DependentAppend, DependentSignal, RunExit, RunSignal
<1>4. ASSUME NEW p \in Procs, ProcStep(p) PROVE RecoveryInv'
  <2>1. /\ UNCHANGED recVars
        /\ pc[p] \in {"deps", "hold", "prepare", "append", "signal"}
        /\ pc'[p] # "list"
        /\ \A q \in Procs \ {p} : pc'[q] = pc[q]
    BY <1>4 DEF ProcStep, SubmitCheckDependencies, SubmitHold, SubmitPrepare,
      SubmitAppend, SubmitSignal, TypeOK
  <2> QED
    BY <2>1 DEF Procs
<1>5. ASSUME NEW c \in Clients,
             CancelStep(c) \/ \E w \in WorkItems : SubmitBegin(c, w) \/ CancelBegin(c, w)
      PROVE  RecoveryInv'
  <2>1. UNCHANGED recVars /\ \A q \in Procs \ {c} : pc'[q] = pc[q]
    BY <1>5 DEF CancelStep, CancelQueued, CancelRead, CancelWrite, SubmitBegin,
      CancelBegin, TypeOK
  <2> QED
    BY <2>1, SchedulerAssumption DEF Procs
<1>6. CASE RecoveryStep
  <2>1. Recoverer \in Procs
    BY DEF Procs
  <2>2. CASE RecoveryList
    BY <2>1, <2>2 DEF RecoveryList, TypeOK
  <2>3. CASE RecoveryItem
    <3>1. rk # 1 /\ UNCHANGED rk
      BY <2>3 DEF RecoveryItem
    <3>2. pc'[Recoverer] # "list" \/ rtodo' = {}
      BY <2>1, <2>3 DEF RecoveryItem, TypeOK
    <3> QED
      BY <3>1, <3>2
  <2>4. CASE RecoveryReset \/ RecoverySubmit
    <3>1. rk # 1 /\ UNCHANGED rk /\ pc'[Recoverer] # "list"
      BY <2>1, <2>4 DEF RecoveryReset, RecoverySubmit, TypeOK
    <3> QED
      BY <3>1
  <2> QED
    BY <1>6, <2>2, <2>3, <2>4 DEF RecoveryStep
<1>7. CASE SchedulerStop \/ Shutdown \/ UNCHANGED vars
  BY <1>7, <1>1 DEF SchedulerStop, Shutdown, vars
<1>8. CASE Restart
  BY <1>8 DEF Restart, Procs
<1> QED
  BY <1>2, <1>3, <1>4, <1>5, <1>6, <1>7, <1>8 DEF Next

(* An entry that is not taken out stays in the queue.                        *)
LEMMA InQueueTail ==
  ASSUME TypeOK, NEW w, InQueue(w), queue' = Tail(queue), queue # <<>>, w # Head(queue)
  PROVE  InQueue(w)'
<1>1. PICK i \in 1..Len(queue) : queue[i] = w
  BY DEF InQueue
<1>2. i # 1 /\ i - 1 \in 1..Len(queue')
  BY <1>1 DEF TypeOK
<1>3. queue'[i - 1] = w
  BY <1>1, <1>2 DEF TypeOK
<1> QED
  BY <1>2, <1>3 DEF InQueue

LEMMA InQueueAppend ==
  ASSUME TypeOK, NEW v \in WorkItems, queue' = Append(queue, v)
  PROVE  InQueue(v)' /\ \A w \in WorkItems : InQueue(w) => InQueue(w)'
<1>1. /\ Len(queue') = Len(queue) + 1 /\ Len(queue) \in Nat
      /\ queue'[Len(queue) + 1] = v
      /\ \A i \in 1..Len(queue) : queue'[i] = queue[i]
  BY DEF TypeOK
<1> QED
  BY <1>1 DEF InQueue

LEMMA InQueueWithout ==
  ASSUME TypeOK, NEW i \in 1..Len(queue), queue' = Without(queue, i),
         NEW w \in WorkItems, w # queue[i], InQueue(w)
  PROVE  InQueue(w)'
<1>1. PICK j \in 1..Len(queue) : queue[j] = w
  BY DEF InQueue
<1>2. j # i
  BY <1>1
<1> DEFINE a == SubSeq(queue, 1, i - 1)
           z == SubSeq(queue, i + 1, Len(queue))
<1>3. /\ queue \in Seq(WorkItems) /\ Len(queue) \in Nat
      /\ a \in Seq(WorkItems) /\ Len(a) = i - 1
      /\ z \in Seq(WorkItems) /\ Len(z) = Len(queue) - i
  BY DEF TypeOK
<1>4. queue' = a \o z
  BY DEF Without
<1>5. CASE j < i
  <2>1. a[j] = w
    BY <1>1, <1>3, <1>5
  <2>2. j \in 1..Len(queue') /\ queue'[j] = a[j]
    <3> HIDE DEF a, z
    <3> QED
      BY <1>3, <1>4, <1>5
  <2> QED
    BY <2>1, <2>2 DEF InQueue
<1>6. CASE j > i
  <2>1. j - i \in 1..Len(z) /\ z[j - i] = w
    BY <1>1, <1>3, <1>6
  <2>2. j - 1 \in 1..Len(queue') /\ queue'[j - 1] = z[j - i]
    <3> HIDE DEF a, z
    <3> QED
      BY <1>3, <1>4, <1>6, <2>1
  <2> QED
    BY <2>1, <2>2 DEF InQueue
<1> QED
  BY <1>2, <1>5, <1>6

(* The trackers that a step does not touch keep tracking.                    *)
LEMMA TrackedKept ==
  ASSUME NEW w, Tracked(w),
         InQueue(w) => InQueue(w)',
         \A p \in Procs : CallerTracks(p, w) => CallerTracks(p, w)',
         \A g \in Runners : RunnerTracks(g, w) => RunnerTracks(g, w)',
         RecoveryTracks(w) => RecoveryTracks(w)'
  PROVE  Tracked(w)'
BY DEF Tracked

(* One step of a run: only what this goroutine tracks can change hands.      *)
LEMMA TrackedRunner ==
  ASSUME TypeOK, QueuedIsTracked, NEW g \in Runners, RunnerStep(g) \/ RunSync(g),
         NEW w \in Launchable, status'[w] = "queued"
  PROVE  Tracked(w)'
<1> w \in WorkItems
  BY SchedulerAssumption
<1>1. /\ UNCHANGED <<stopped, pc, wi, recVars>>
      /\ \A h \in Runners \ {g} : rpc'[h] = rpc[h] /\ rwi'[h] = rwi[h] /\ dep'[h] = dep[h]
      /\ cancelled' \in {cancelled, cancelled \ {g}}
  BY DEF RunnerStep, RunStart, RunLaunch, RunSync, RunDone, RunFail, RunComplete,
    RunTerminal, RunFailed, NextDependent, DependentPrepare, DependentAppend,
    DependentSignal, RunExit, RunSignal, TypeOK
<1>2. /\ \A p \in Procs : CallerTracks(p, w) => CallerTracks(p, w)'
      /\ \A h \in Runners \ {g} : RunnerTracks(h, w) => RunnerTracks(h, w)'
      /\ RecoveryTracks(w) => RecoveryTracks(w)'
  BY <1>1 DEF CallerTracks, RunnerTracks, RecoveryTracks, Cancelled
<1>3. ASSUME UNCHANGED queue, status[w] = "queued",
             RunnerTracks(g, w) => RunnerTracks(g, w)'
      PROVE  Tracked(w)'
  <2>1. InQueue(w) => InQueue(w)'
    BY <1>3 DEF InQueue
  <2>2. Tracked(w)
    BY <1>3 DEF QueuedIsTracked
  <2> QED
    BY <1>2, <1>3, <2>1, <2>2, TrackedKept
<1>4. CASE RunStart(g)
  <2>1. rwi[g] = w /\ status[w] = "queued" /\ ~Cancelled(g) => rpc'[g] = "launch"
    BY <1>4 DEF RunStart, Runnable, TypeOK
  <2>2. rpc[g] = "start" /\ rpc'[g] \in {"launch", "failed"}
        /\ UNCHANGED <<rwi, cancelled, dep, status, queue, stopped>>
    BY <1>4 DEF RunStart, TypeOK
  <2> QED
    BY <1>3, <2>1, <2>2 DEF RunnerTracks, Cancelled
<1>5. CASE RunLaunch(g)
  <2>1. rpc[g] = "launch" /\ UNCHANGED <<rwi, cancelled, dep, queue, stopped>>
    BY <1>5 DEF RunLaunch
  <2>2. CASE Cancelled(g) /\ rpc'[g] = "failed" /\ UNCHANGED status
    BY <1>3, <2>1, <2>2 DEF RunnerTracks, Cancelled
  <2>3. CASE status' = [status EXCEPT ![rwi[g]] = "in_execution"]
    <3>1. rwi[g] # w /\ status[w] = "queued"
      BY <2>3 DEF TypeOK
    <3> QED
      BY <1>3, <2>1, <3>1 DEF RunnerTracks
  <2> QED
    BY <1>5, <2>2, <2>3 DEF RunLaunch, TypeOK
<1>6. CASE RunSync(g) \/ RunComplete(g) \/ RunTerminal(g)
  <2>1. /\ rpc[g] \in {"loop", "complete", "terminal"}
        /\ UNCHANGED queue
    BY <1>6 DEF RunSync, RunComplete, RunTerminal
  <2>2. \/ UNCHANGED status
        \/ \E s \in WorkItemStatus \ {"queued"} : status' = [status EXCEPT ![rwi[g]] = s]
    BY <1>6, SchedulerAssumption DEF RunSync, RunComplete, RunTerminal, WorkItemStatus
  <2>3. status[w] = "queued"
    BY <2>2 DEF TypeOK
  <2> QED
    BY <1>3, <2>1, <2>3 DEF RunnerTracks
<1>7. CASE RunFailed(g)
  <2>1. rpc[g] = "failed" /\ UNCHANGED queue
    BY <1>7 DEF RunFailed
  <2>2. CASE Cancelled(g)
    <3>1. rwi[g] # w /\ status[w] = "queued"
      BY <1>7, <2>2 DEF RunFailed, TypeOK
    <3> QED
      BY <1>3, <2>1, <3>1 DEF RunnerTracks
  <2>3. CASE ~Cancelled(g)
    BY <1>3, <1>7, <2>1, <2>3 DEF RunFailed, RunnerTracks
  <2> QED
    BY <2>2, <2>3
<1>8. CASE RunDone(g) \/ RunFail(g) \/ NextDependent(g) \/ DependentSignal(g)
           \/ RunExit(g) \/ RunSignal(g)
  <2>1. /\ rpc[g] \in {"loop", "dependents", "depSignal", "exit", "signal"}
        /\ UNCHANGED <<queue, status>>
    BY <1>8 DEF RunDone, RunFail, NextDependent, DependentSignal, RunExit, RunSignal
  <2> QED
    BY <1>3, <2>1 DEF RunnerTracks
<1>9. CASE DependentPrepare(g)
  <2>1. rpc[g] = "depPrepare" /\ UNCHANGED queue
    BY <1>9 DEF DependentPrepare
  <2>2. CASE status' = [status EXCEPT ![dep[g]] = "queued"] /\ rpc'[g] = "depAppend"
             /\ UNCHANGED dep
    <3>1. CASE dep[g] = w
      BY <2>2, <3>1 DEF RunnerTracks, Tracked
    <3>2. CASE dep[g] # w
      <4>1. status[w] = "queued"
        BY <2>2, <3>2 DEF TypeOK
      <4> QED
        BY <1>3, <2>1, <4>1 DEF RunnerTracks
    <3> QED
      BY <3>1, <3>2
  <2>3. CASE UNCHANGED status
    BY <1>3, <2>1, <2>3 DEF RunnerTracks
  <2> QED
    BY <1>9, <2>2, <2>3 DEF DependentPrepare, TypeOK
<1>10. CASE DependentAppend(g)
  <2>1. rpc[g] = "depAppend" /\ queue' = Append(queue, dep[g]) /\ UNCHANGED status
    BY <1>10 DEF DependentAppend
  <2>2. PICK v \in WorkItems : v = dep[g]
    BY <2>1, <1>10 DEF TypeOK
  <2>3. InQueue(v)' /\ (InQueue(w) => InQueue(w)')
    BY <2>1, <2>2, InQueueAppend
  <2>4. CASE v = w
    BY <2>3, <2>4 DEF Tracked
  <2>5. CASE v # w
    <3>1. RunnerTracks(g, w) => RunnerTracks(g, w)'
      BY <2>1, <2>2, <2>5 DEF RunnerTracks
    <3>2. Tracked(w)
      BY <2>1 DEF QueuedIsTracked
    <3> QED
      BY <1>2, <2>3, <3>1, <3>2, TrackedKept
  <2> QED
    BY <2>4, <2>5
<1> QED
  BY <1>4, <1>5, <1>6, <1>7, <1>8, <1>9, <1>10 DEF RunnerStep

(* One step of a call of Submit or Cancel.                                   *)
LEMMA TrackedCaller ==
  ASSUME TypeOK, QueuedIsTracked, NEW p \in Procs, ProcStep(p) \/ CancelStep(p),
         NEW w \in Launchable, status'[w] = "queued"
  PROVE  Tracked(w)'
<1> w \in WorkItems
  BY SchedulerAssumption
<1>1. /\ UNCHANGED <<stopped, runnerVars, recVars>>
      /\ pc[p] \in {"deps", "hold", "prepare", "append", "signal", "cancelQueued",
                    "cancelRead", "cancelWrite"}
      /\ pc'[p] # "list"
      /\ \A q \in Procs \ {p} : pc'[q] = pc[q] /\ wi'[q] = wi[q]
  BY DEF ProcStep, CancelStep, SubmitCheckDependencies, SubmitHold, SubmitPrepare,
    SubmitAppend, SubmitSignal, CancelQueued, CancelRead, CancelWrite, TypeOK
<1>2. /\ \A q \in Procs \ {p} : CallerTracks(q, w) => CallerTracks(q, w)'
      /\ \A g \in Runners : RunnerTracks(g, w) => RunnerTracks(g, w)'
      /\ RecoveryTracks(w) => RecoveryTracks(w)'
  BY <1>1 DEF CallerTracks, RunnerTracks, RecoveryTracks, Cancelled, Procs
<1>3. ASSUME UNCHANGED queue, status[w] = "queued",
             CallerTracks(p, w) => CallerTracks(p, w)'
      PROVE  Tracked(w)'
  <2>1. InQueue(w) => InQueue(w)'
    BY <1>3 DEF InQueue
  <2>2. Tracked(w)
    BY <1>3 DEF QueuedIsTracked
  <2> QED
    BY <1>2, <1>3, <2>1, <2>2, TrackedKept
<1>4. CASE SubmitCheckDependencies(p) \/ SubmitSignal(p) \/ CancelRead(p)
  <2>1. pc[p] \in {"deps", "signal", "cancelRead"} /\ UNCHANGED <<queue, status>>
    BY <1>4 DEF SubmitCheckDependencies, SubmitSignal, CancelRead
  <2> QED
    BY <1>3, <2>1 DEF CallerTracks
<1>5. CASE SubmitHold(p) \/ CancelQueued(p) \/ CancelWrite(p)
  <2>1. /\ pc[p] \in {"hold", "cancelQueued", "cancelWrite"}
        /\ UNCHANGED queue
        /\ \E s \in {"accepted", "pending_execution", "cancelled"} :
             status' = [status EXCEPT ![wi[p]] = s]
    BY <1>5 DEF SubmitHold, CancelQueued, CancelWrite
  <2>2. wi[p] # w /\ status[w] = "queued"
    BY <2>1 DEF TypeOK
  <2> QED
    BY <1>3, <2>1, <2>2 DEF CallerTracks
<1>6. CASE SubmitPrepare(p)
  <2>1. pc[p] = "prepare" /\ UNCHANGED queue
    BY <1>6 DEF SubmitPrepare
  <2>2. CASE status' = [status EXCEPT ![wi[p]] = "queued"] /\ pc'[p] = "append"
             /\ UNCHANGED wi
    <3>1. CASE wi[p] = w
      BY <2>2, <3>1 DEF CallerTracks, Tracked
    <3>2. CASE wi[p] # w
      <4>1. status[w] = "queued"
        BY <2>2, <3>2 DEF TypeOK
      <4> QED
        BY <1>3, <2>1, <4>1 DEF CallerTracks
    <3> QED
      BY <3>1, <3>2
  <2>3. CASE UNCHANGED status
    BY <1>3, <2>1, <2>3 DEF CallerTracks
  <2> QED
    BY <1>6, <2>2, <2>3 DEF SubmitPrepare, TypeOK
<1>7. CASE SubmitAppend(p)
  <2>1. pc[p] = "append" /\ queue' = Append(queue, wi[p]) /\ UNCHANGED status
    BY <1>7 DEF SubmitAppend
  <2>2. PICK v \in WorkItems : v = wi[p]
    BY <2>1 DEF TypeOK, AtRest
  <2>3. InQueue(v)' /\ (InQueue(w) => InQueue(w)')
    BY <2>1, <2>2, InQueueAppend
  <2>4. CASE v = w
    BY <2>3, <2>4 DEF Tracked
  <2>5. CASE v # w
    <3>1. CallerTracks(p, w) => CallerTracks(p, w)'
      BY <2>1, <2>2, <2>5 DEF CallerTracks
    <3>2. Tracked(w)
      BY <2>1 DEF QueuedIsTracked
    <3> QED
      BY <1>2, <2>3, <3>1, <3>2, TrackedKept
  <2> QED
    BY <2>4, <2>5
<1> QED
  BY <1>4, <1>5, <1>6, <1>7 DEF ProcStep, CancelStep

(* A call begins: Cancel may take the item out of the queue itself.          *)
LEMMA TrackedCall ==
  ASSUME TypeOK, QueuedIsTracked, NEW c \in Clients, NEW v \in WorkItems,
         SubmitBegin(c, v) \/ CancelBegin(c, v),
         NEW w \in Launchable, status'[w] = "queued"
  PROVE  Tracked(w)'
<1> w \in WorkItems /\ c \in Procs /\ Recoverer \in Procs /\ c # Recoverer
  BY SchedulerAssumption DEF Procs
<1>1. /\ UNCHANGED <<status, stopped, rpc, rwi, dep, recVars>>
      /\ cancelled \subseteq cancelled'
      /\ pc[c] = "idle"
      /\ \A q \in Procs \ {c} : pc'[q] = pc[q] /\ wi'[q] = wi[q]
  BY DEF SubmitBegin, CancelBegin, TypeOK
<1>2. /\ \A q \in Procs : CallerTracks(q, w) => CallerTracks(q, w)'
      /\ \A g \in Runners : RunnerTracks(g, w) => RunnerTracks(g, w)'
      /\ RecoveryTracks(w) => RecoveryTracks(w)'
  BY <1>1 DEF CallerTracks, RunnerTracks, RecoveryTracks, Cancelled
<1>3. Tracked(w)
  BY <1>1 DEF QueuedIsTracked
<1>4. CASE UNCHANGED queue
  BY <1>2, <1>3, <1>4, TrackedKept DEF InQueue
<1>5. CASE \E i \in 1..Len(queue) :
             /\ queue[i] = v
             /\ queue' = Without(queue, i)
             /\ pc'[c] = "cancelQueued" /\ wi'[c] = v
  <2>1. CASE v = w
    BY <1>5, <2>1 DEF CallerTracks, Tracked
  <2>2. CASE v # w
    <3>1. InQueue(w) => InQueue(w)'
      BY <1>5, <2>2, InQueueWithout
    <3> QED
      BY <1>2, <1>3, <3>1, TrackedKept
  <2> QED
    BY <2>1, <2>2
<1> QED
  BY <1>4, <1>5 DEF SubmitBegin, CancelBegin, TypeOK

LEMMA TrackedLoop ==
  ASSUME TypeOK, QueuedIsTracked, LoopStep, NEW w \in Launchable, status'[w] = "queued"
  PROVE  Tracked(w)'
<1> w \in WorkItems
  BY SchedulerAssumption
<1>1. /\ UNCHANGED <<status, stopped, dep, procVars, recVars>>
      /\ cancelled \subseteq cancelled'
  BY DEF LoopStep, DispatchOne, DispatchEnd, Wake, BeginDrain, DrainDone
<1>2. /\ \A p \in Procs : CallerTracks(p, w) => CallerTracks(p, w)'
      /\ RecoveryTracks(w) => RecoveryTracks(w)'
  BY <1>1 DEF CallerTracks, RecoveryTracks
<1>3. Tracked(w)
  BY <1>1 DEF QueuedIsTracked
<1>4. CASE UNCHANGED <<queue, rpc, rwi>>
  <2>1. \A g \in Runners : RunnerTracks(g, w) => RunnerTracks(g, w)'
    BY <1>1, <1>4 DEF RunnerTracks, Cancelled
  <2> QED
    BY <1>2, <1>3, <1>4, <2>1, TrackedKept DEF InQueue
<1>5. CASE DispatchOne
  <2>1. PICK g \in Runners :
          /\ rpc[g] = "idle"
          /\ rpc' = [rpc EXCEPT ![g] = "start"]
          /\ rwi' = [rwi EXCEPT ![g] = Head(queue)]
    BY <1>5 DEF DispatchOne
  <2>2. queue # <<>> /\ queue' = Tail(queue) /\ UNCHANGED cancelled
    BY <1>5 DEF DispatchOne
  <2>3. CASE w = Head(queue)
    BY <2>1, <2>3 DEF TypeOK, RunnerTracks, Tracked
  <2>4. CASE w # Head(queue)
    <3>1. InQueue(w) => InQueue(w)'
      BY <2>2, <2>4, InQueueTail
    <3>2. \A h \in Runners : RunnerTracks(h, w) => RunnerTracks(h, w)'
      BY <1>1, <2>1, <2>2 DEF RunnerTracks, Cancelled, TypeOK
    <3> QED
      BY <1>2, <1>3, <3>1, <3>2, TrackedKept
  <2> QED
    BY <2>3, <2>4
<1> QED
  BY <1>4, <1>5 DEF LoopStep, DispatchEnd, Wake, BeginDrain, DrainDone

LEMMA TrackedRecovery ==
  ASSUME TypeOK, RecoveryInv, QueuedIsTracked, RecoveryStep,
         NEW w \in Launchable, status'[w] = "queued"
  PROVE  Tracked(w)'
<1> w \in WorkItems /\ Recoverer \in Procs
  BY SchedulerAssumption DEF Procs
<1>1. /\ UNCHANGED <<queue, stopped, runnerVars>>
      /\ \A q \in Procs \ {Recoverer} : pc'[q] = pc[q] /\ wi'[q] = wi[q]
      /\ pc[Recoverer] \in {"list", "item", "reset", "read"}
  BY DEF RecoveryStep, RecoveryList, RecoveryItem, RecoveryReset, RecoverySubmit, TypeOK
<1>2. /\ InQueue(w) => InQueue(w)'
      /\ \A q \in Procs \ {Recoverer} : CallerTracks(q, w) => CallerTracks(q, w)'
      /\ \A g \in Runners : RunnerTracks(g, w) => RunnerTracks(g, w)'
  BY <1>1 DEF InQueue, CallerTracks, RunnerTracks, Cancelled
<1>3. ASSUME status[w] = "queued",
             CallerTracks(Recoverer, w) => CallerTracks(Recoverer, w)',
             RecoveryTracks(w) => RecoveryTracks(w)'
      PROVE  Tracked(w)'
  BY <1>2, <1>3, TrackedKept DEF QueuedIsTracked
<1>4. CASE RecoveryList
  <2>1. status[w] = "queued" /\ pc[Recoverer] = "list"
    BY <1>4 DEF RecoveryList
  <2>2. CASE rk = 1
    <3>1. rk <= Len(RecoverStatuses)
      BY <2>2, SchedulerAssumption
    <3>2. w \in rtodo' /\ w \notin rseen'
      BY <1>4, <2>1, <2>2, <3>1, SchedulerAssumption DEF RecoveryList, RecoveryInv
    <3>3. RecoveryTracks(w)'
      BY <3>2 DEF RecoveryTracks
    <3> QED
      BY <3>3 DEF Tracked
  <2>3. CASE rk # 1
    BY <1>3, <2>1, <2>3 DEF CallerTracks, RecoveryTracks, RecoveryInv
  <2> QED
    BY <2>2, <2>3
<1>5. CASE RecoveryItem
  <2>1. status[w] = "queued" /\ pc[Recoverer] = "item" /\ UNCHANGED rk
    BY <1>5 DEF RecoveryItem
  <2>2. CASE rtodo \subseteq rseen
    BY <1>3, <2>1, <2>2 DEF CallerTracks, RecoveryTracks
  <2>3. CASE \E v \in rtodo \ rseen :
               /\ pc'[Recoverer] = "reset" /\ wi'[Recoverer] = v
               /\ rseen' = rseen \cup {v} /\ rtodo' = rtodo \ {v}
    <3>1. PICK v \in rtodo \ rseen :
            /\ pc'[Recoverer] = "reset" /\ wi'[Recoverer] = v
            /\ rseen' = rseen \cup {v} /\ rtodo' = rtodo \ {v}
      BY <2>3
    <3>2. CASE v = w
      BY <3>1, <3>2 DEF CallerTracks, Tracked
    <3>3. CASE v # w
      BY <1>3, <2>1, <3>1, <3>3 DEF CallerTracks, RecoveryTracks
    <3> QED
      BY <3>2, <3>3
  <2> QED
    BY <1>5, <2>2, <2>3 DEF RecoveryItem, TypeOK
<1>6. CASE RecoveryReset
  <2>1. /\ pc[Recoverer] = "reset" /\ UNCHANGED recVars
        /\ status' = [status EXCEPT ![wi[Recoverer]] = "pending_execution"]
    BY <1>6 DEF RecoveryReset
  <2>2. wi[Recoverer] # w /\ status[w] = "queued"
    BY <2>1 DEF TypeOK
  <2> QED
    BY <1>3, <2>1, <2>2 DEF CallerTracks, RecoveryTracks
<1>7. CASE RecoverySubmit
  BY <1>3, <1>7 DEF RecoverySubmit, CallerTracks, RecoveryTracks
<1> QED
  BY <1>4, <1>5, <1>6, <1>7 DEF RecoveryStep

LEMMA TrackedStep ==
  TypeOK /\ RecoveryInv /\ QueuedIsTracked /\ [Next]_vars => QueuedIsTracked'
<1> SUFFICES ASSUME TypeOK, RecoveryInv, QueuedIsTracked, [Next]_vars,
                    NEW w \in Launchable, status'[w] = "queued"
             PROVE  Tracked(w)'
  BY DEF QueuedIsTracked
<1>1. CASE SchedulerStop \/ Shutdown \/ UNCHANGED vars
  <2>1. /\ UNCHANGED <<status, queue, rpc, rwi, dep, cancelled, pc, wi, recVars>>
        /\ stopped => stopped'
    BY <1>1 DEF SchedulerStop, Shutdown, vars
  <2>2. Tracked(w)
    BY <2>1 DEF QueuedIsTracked
  <2> QED
    BY <2>1, <2>2, TrackedKept
    DEF InQueue, CallerTracks, RunnerTracks, RecoveryTracks, Cancelled
<1>2. CASE Restart
  <2>1. pc'[Recoverer] = "list" /\ rk' = 1
    BY <1>2 DEF Restart, Procs
  <2> QED
    BY <2>1 DEF Tracked, RecoveryTracks
<1> QED
  BY <1>1, <1>2, TrackedLoop, TrackedRunner, TrackedCaller, TrackedCall,
     TrackedRecovery
  DEF Next, Procs

(* No launchable item is stranded in status queued: not by a cancel that     *)
(* races the dispatch, not by a run that completes its last dependency, not  *)
(* by a crash.                                                               *)
THEOREM TrackedCorrect == Spec => []QueuedIsTracked
<1>1. Init => RecoveryInv /\ QueuedIsTracked
  BY SchedulerAssumption DEF Init, RecoveryInv, QueuedIsTracked, Procs
<1>2. TypeOK /\ RecoveryInv /\ [Next]_vars => RecoveryInv'
  BY RecoveryInvStep
<1>3. TypeOK /\ RecoveryInv /\ QueuedIsTracked /\ [Next]_vars => QueuedIsTracked'
  BY TrackedStep
<1> QED
  BY <1>1, <1>2, <1>3, TypeCorrect, PTL DEF Spec
-----------------------------------------------------------------------------
(* What waits to be run, is about to be queued or runs has had its           *)
(* dependencies completed.                                                   *)
ReadyInv ==
  /\ \A w \in WorkItems : status[w] = "completed" => w \in everCompleted
  /\ \A w \in WorkItems : InQueue(w) => Ready(w)
  /\ \A g \in Runners : InEngine(g) => Ready(rwi[g])
  /\ \A g \in Runners : rpc[g] \in {"depPrepare", "depAppend"} => Ready(dep[g])
  /\ \A p \in Procs : pc[p] \in {"prepare", "append"} => Ready(wi[p])

(* Dependencies that are completed have been completed.                      *)
LEMMA SatisfiedReady ==
  ASSUME TypeOK, ReadyInv, NEW w \in WorkItems, DependenciesSatisfied(w)
  PROVE  Ready(w)
BY SchedulerAssumption DEF DependenciesSatisfied, Ready, ReadyInv

(* Nothing is forgotten of what has been completed.                          *)
LEMMA ReadyStays ==
  ASSUME NEW w, Ready(w), everCompleted \subseteq everCompleted'
  PROVE  Ready(w)'
BY DEF Ready

(* What a queue holds after a change was there or was put there.             *)
LEMMA FromTail ==
  ASSUME TypeOK, NEW w, queue # <<>>, queue' = Tail(queue), InQueue(w)'
  PROVE  InQueue(w)
<1>1. PICK i \in 1..Len(queue') : queue'[i] = w
  BY DEF InQueue
<1>2. i + 1 \in 1..Len(queue) /\ queue[i + 1] = queue'[i]
  BY <1>1 DEF TypeOK
<1> QED
  BY <1>1, <1>2 DEF InQueue

LEMMA FromAppend ==
  ASSUME TypeOK, NEW v \in WorkItems, NEW w, queue' = Append(queue, v), InQueue(w)'
  PROVE  w = v \/ InQueue(w)
<1>1. PICK i \in 1..Len(queue') : queue'[i] = w
  BY DEF InQueue
<1>2. Len(queue') = Len(queue) + 1 /\ Len(queue) \in Nat
      /\ queue'[Len(queue) + 1] = v /\ \A j \in 1..Len(queue) : queue'[j] = queue[j]
  BY DEF TypeOK
<1> QED
  BY <1>1, <1>2 DEF InQueue

LEMMA FromWithout ==
  ASSUME TypeOK, NEW i \in 1..Len(queue), queue' = Without(queue, i), NEW w, InQueue(w)'
  PROVE  InQueue(w)
<1>1. PICK j \in 1..Len(queue') : queue'[j] = w
  BY DEF InQueue
<1> DEFINE a == SubSeq(queue, 1, i - 1)
           z == SubSeq(queue, i + 1, Len(queue))
<1>2. /\ queue \in Seq(WorkItems) /\ Len(queue) \in Nat
      /\ a \in Seq(WorkItems) /\ Len(a) = i - 1
      /\ z \in Seq(WorkItems) /\ Len(z) = Len(queue) - i
  BY DEF TypeOK
<1>3. queue' = a \o z
  BY DEF Without
<1>4. CASE j < i
  <2>1. queue'[j] = a[j]
    <3> HIDE DEF a, z
    <3> QED
      BY <1>1, <1>2, <1>3, <1>4
  <2>2. a[j] = queue[j] /\ j \in 1..Len(queue)
    BY <1>1, <1>2, <1>4
  <2> QED
    BY <1>1, <2>1, <2>2 DEF InQueue
<1>5. CASE j >= i
  <2>1. j \in 1..(Len(queue) - 1) /\ queue'[j] = z[j - (i - 1)]
    <3> HIDE DEF a, z
    <3> QED
      BY <1>1, <1>2, <1>3, <1>5
  <2>2. z[j - (i - 1)] = queue[j + 1] /\ j + 1 \in 1..Len(queue)
    BY <1>1, <1>2, <1>5, <2>1
  <2> QED
    BY <1>1, <2>1, <2>2 DEF InQueue
<1> QED
  BY <1>1, <1>4, <1>5

LEMMA ReadyRunner ==
  ASSUME TypeOK, ReadyInv, NEW g \in Runners, RunnerStep(g) \/ RunSync(g)
  PROVE  ReadyInv'
<1>1. CASE RunComplete(g)
  <2>1. /\ UNCHANGED <<queue, rwi, dep, pc, wi>> /\ rpc' = [rpc EXCEPT ![g] = "dependents"]
        /\ \/ UNCHANGED <<status, everCompleted>>
           \/ /\ status' = [status EXCEPT ![rwi[g]] = "completed"]
              /\ everCompleted' = everCompleted \cup {rwi[g]}
    BY <1>1 DEF RunComplete
  <2>2. everCompleted \subseteq everCompleted'
    BY <2>1
  <2>3. \A w \in WorkItems : status'[w] = "completed" => w \in everCompleted'
    BY <2>1 DEF ReadyInv, TypeOK
  <2>4. \A w \in WorkItems : InQueue(w)' => Ready(w)'
    BY <2>1, <2>2, ReadyStays DEF ReadyInv, InQueue
  <2>5. /\ \A h \in Runners : InEngine(h)' => Ready(rwi[h])'
        /\ \A h \in Runners : rpc'[h] \in {"depPrepare", "depAppend"} => Ready(dep[h])'
        /\ \A p \in Procs : pc'[p] \in {"prepare", "append"} => Ready(wi[p])'
    BY <2>1, <2>2 DEF ReadyInv, Ready, InEngine, TypeOK
  <2> QED
    BY <2>3, <2>4, <2>5 DEF ReadyInv
<1>2. CASE \/ RunStart(g) \/ RunLaunch(g) \/ RunSync(g) \/ RunDone(g) \/ RunFail(g)
           \/ RunTerminal(g) \/ RunFailed(g) \/ DependentPrepare(g)
           \/ DependentSignal(g) \/ RunExit(g) \/ RunSignal(g)
  <2>1. UNCHANGED <<queue, pc, wi, everCompleted>>
    BY <1>2 DEF RunStart, RunLaunch, RunSync, RunDone, RunFail, RunTerminal, RunFailed,
      DependentPrepare, DependentSignal, RunExit, RunSignal
  <2>2. \A w \in WorkItems : status'[w] = "completed" => status[w] = "completed"
    BY <1>2, SchedulerAssumption DEF RunStart, RunLaunch, RunSync, RunDone, RunFail, RunTerminal,
      RunFailed, DependentPrepare, DependentSignal, RunExit, RunSignal, TypeOK
  <2>3. \A h \in Runners :
          /\ InEngine(h)' => InEngine(h) /\ rwi'[h] = rwi[h]
          /\ rpc'[h] \in {"depPrepare", "depAppend"} =>
               rpc[h] \in {"depPrepare", "depAppend"} /\ dep'[h] = dep[h]
    BY <1>2 DEF RunStart, RunLaunch, RunSync, RunDone, RunFail, RunTerminal, RunFailed,
      DependentPrepare, DependentSignal, RunExit, RunSignal, TypeOK, InEngine
  <2> QED
    BY <2>1, <2>2, <2>3 DEF ReadyInv, Ready, InQueue
<1>3. CASE NextDependent(g)
  <2>1. UNCHANGED <<status, queue, pc, wi, rwi, everCompleted>>
    BY <1>3 DEF NextDependent
  <2>2. \A h \in Runners : rpc'[h] \in {"depPrepare", "depAppend"} => Ready(dep'[h])
    <3>1. CASE rpc' = [rpc EXCEPT ![g] = "exit"] /\ UNCHANGED dep
      BY <3>1 DEF ReadyInv, TypeOK
    <3>2. ASSUME NEW d \in WorkItems, DependenciesSatisfied(d), dep' = [dep EXCEPT ![g] = d],
                 rpc' = [rpc EXCEPT ![g] = "depPrepare"]
          PROVE  \A h \in Runners : rpc'[h] \in {"depPrepare", "depAppend"} => Ready(dep'[h])
      <4>1. Ready(d)
        BY <3>2, SatisfiedReady
      <4> QED
        BY <3>2, <4>1 DEF ReadyInv, TypeOK
    <3>3. CASE UNCHANGED <<dep, rpc>>
      BY <3>3 DEF ReadyInv
    <3> QED
      BY <1>3, <3>1, <3>2, <3>3 DEF NextDependent, TypeOK
  <2>3. \A h \in Runners : InEngine(h)' => InEngine(h)
    BY <1>3 DEF NextDependent, InEngine, TypeOK
  <2> QED
    BY <2>1, <2>2, <2>3 DEF ReadyInv, Ready, InQueue
<1>4. CASE DependentAppend(g)
  <2>1. PICK v \in WorkItems : v = dep[g] /\ Ready(v) /\ queue' = Append(queue, v)
    BY <1>4 DEF DependentAppend, TypeOK, ReadyInv
  <2>2. \A w \in WorkItems : InQueue(w)' => Ready(w)
    BY <2>1, FromAppend DEF ReadyInv
  <2>3. /\ UNCHANGED <<status, pc, wi, rwi, everCompleted>> /\ rpc' = [rpc EXCEPT ![g] = "depSignal"]
        /\ \A h \in Runners \ {g} : dep'[h] = dep[h]
    BY <1>4 DEF DependentAppend, TypeOK
  <2> QED
    BY <2>2, <2>3 DEF ReadyInv, Ready, InEngine, TypeOK
<1> QED
  BY <1>1, <1>2, <1>3, <1>4 DEF RunnerStep

LEMMA ReadyCaller ==
  ASSUME TypeOK, ReadyInv, NEW p \in Procs, ProcStep(p) \/ CancelStep(p)
  PROVE  ReadyInv'
<1>1. UNCHANGED <<rpc, rwi, dep, everCompleted>> /\ \A q \in Procs \ {p} : pc'[q] = pc[q] /\ wi'[q] = wi[q]
  BY DEF ProcStep, CancelStep, SubmitCheckDependencies, SubmitHold, SubmitPrepare,
    SubmitAppend, SubmitSignal, CancelQueued, CancelRead, CancelWrite, TypeOK
<1>2. \A w \in WorkItems : status'[w] = "completed" => status[w] = "completed"
  BY DEF ProcStep, CancelStep, SubmitCheckDependencies, SubmitHold, SubmitPrepare,
    SubmitAppend, SubmitSignal, CancelQueued, CancelRead, CancelWrite, TypeOK
<1>3. ASSUME \A w \in WorkItems : InQueue(w)' => Ready(w),
             pc'[p] \in {"prepare", "append"} => Ready(wi'[p])
      PROVE  ReadyInv'
  BY <1>1, <1>2, <1>3 DEF ReadyInv, Ready, InEngine
<1>4. CASE SubmitCheckDependencies(p)
  <2>1. wi[p] \in WorkItems /\ UNCHANGED <<queue, wi>>
    BY <1>4 DEF SubmitCheckDependencies, TypeOK, AtRest
  <2>2. pc'[p] \in {"prepare", "append"} => DependenciesSatisfied(wi[p])
    BY <1>4 DEF SubmitCheckDependencies, TypeOK
  <2> QED
    BY <1>3, <2>1, <2>2, SatisfiedReady DEF ReadyInv, InQueue
<1>5. CASE \/ SubmitHold(p) \/ SubmitPrepare(p) \/ SubmitSignal(p)
           \/ CancelQueued(p) \/ CancelRead(p) \/ CancelWrite(p)
  <2>1. /\ UNCHANGED queue
        /\ pc'[p] \in {"prepare", "append"} => pc[p] = "prepare" /\ wi'[p] = wi[p]
    BY <1>5 DEF SubmitHold, SubmitPrepare, SubmitSignal, CancelQueued, CancelRead,
      CancelWrite, TypeOK
  <2> QED
    BY <1>3, <2>1 DEF ReadyInv, InQueue
<1>6. CASE SubmitAppend(p)
  <2>1. PICK v \in WorkItems : v = wi[p] /\ Ready(v) /\ queue' = Append(queue, v)
    BY <1>6 DEF SubmitAppend, TypeOK, AtRest, ReadyInv
  <2>2. \A w \in WorkItems : InQueue(w)' => Ready(w)
    BY <2>1, FromAppend DEF ReadyInv
  <2>3. pc'[p] = "signal"
    BY <1>6 DEF SubmitAppend, TypeOK
  <2> QED
    BY <1>3, <2>2, <2>3
<1> QED
  BY <1>4, <1>5, <1>6 DEF ProcStep, CancelStep

LEMMA ReadyCall ==
  ASSUME TypeOK, ReadyInv, NEW c \in Clients, NEW v \in WorkItems,
         SubmitBegin(c, v) \/ CancelBegin(c, v)
  PROVE  ReadyInv'
<1>1. /\ UNCHANGED <<status, rpc, rwi, dep, everCompleted>>
      /\ \A q \in Procs : pc'[q] \in {"prepare", "append"} => pc'[q] = pc[q] /\ wi'[q] = wi[q]
  BY DEF SubmitBegin, CancelBegin, TypeOK, Procs
<1>2. \A w \in WorkItems : InQueue(w)' => InQueue(w)
  <2>1. CASE UNCHANGED queue
    BY <2>1 DEF InQueue
  <2>2. CASE \E i \in 1..Len(queue) : queue' = Without(queue, i)
    BY <2>2, FromWithout
  <2> QED
    BY <2>1, <2>2 DEF SubmitBegin, CancelBegin
<1> QED
  BY <1>1, <1>2 DEF ReadyInv, Ready, InEngine

LEMMA ReadyStep == TypeOK /\ ReadyInv /\ [Next]_vars => ReadyInv'
<1> SUFFICES ASSUME TypeOK, ReadyInv, [Next]_vars PROVE ReadyInv'
  OBVIOUS
<1>1. CASE DispatchOne
  <2>1. PICK g \in Runners :
          /\ rpc' = [rpc EXCEPT ![g] = "start"] /\ rwi' = [rwi EXCEPT ![g] = Head(queue)]
    BY <1>1 DEF DispatchOne
  <2>2. /\ queue # <<>> /\ queue' = Tail(queue) /\ UNCHANGED <<status, dep, pc, wi, everCompleted>>
    BY <1>1 DEF DispatchOne
  <2>3. Ready(Head(queue))
    <3>1. 1 \in 1..Len(queue) /\ queue[1] = Head(queue) /\ Head(queue) \in WorkItems
      BY <2>2 DEF TypeOK
    <3> QED
      BY <3>1 DEF ReadyInv, InQueue
  <2>4. \A w \in WorkItems : InQueue(w)' => Ready(w)
    BY <2>2, FromTail DEF ReadyInv
  <2> QED
    BY <2>1, <2>2, <2>3, <2>4 DEF ReadyInv, Ready, InEngine, TypeOK
<1>2. CASE DispatchEnd \/ Wake \/ BeginDrain \/ DrainDone \/ SchedulerStop \/ Shutdown \/ UNCHANGED vars
  <2>1. UNCHANGED <<status, queue, rpc, rwi, dep, pc, wi, everCompleted>>
    BY <1>2 DEF DispatchEnd, Wake, BeginDrain, DrainDone, SchedulerStop, Shutdown, vars
  <2> QED
    BY <2>1 DEF ReadyInv, Ready, InQueue, InEngine
<1>3. CASE RecoveryStep
  <2>1. /\ UNCHANGED <<queue, rpc, rwi, dep, everCompleted>>
        /\ \A w \in WorkItems : status'[w] = "completed" => status[w] = "completed"
        /\ \A q \in Procs : pc'[q] \in {"prepare", "append"} => pc'[q] = pc[q] /\ wi'[q] = wi[q]
    BY <1>3 DEF RecoveryStep, RecoveryList, RecoveryItem, RecoveryReset, RecoverySubmit,
      TypeOK, Procs
  <2> QED
    BY <2>1 DEF ReadyInv, Ready, InQueue, InEngine
<1>4. CASE Restart
  <2>1. /\ UNCHANGED <<status, everCompleted>> /\ queue' = <<>>
        /\ rpc' = [g \in Runners |-> "idle"]
        /\ pc' = [p \in Procs |-> IF p = Recoverer THEN "list" ELSE "idle"]
    BY <1>4 DEF Restart
  <2>2. \A w \in WorkItems : ~InQueue(w)'
    BY <2>1 DEF InQueue
  <2>3. \A p \in Procs : pc'[p] \notin {"prepare", "append"}
    BY <2>1
  <2>4. \A g \in Runners : ~InEngine(g)' /\ rpc'[g] \notin {"depPrepare", "depAppend"}
    BY <2>1 DEF InEngine
  <2> QED
    BY <2>1, <2>2, <2>3, <2>4 DEF ReadyInv
<1> QED
  BY <1>1, <1>2, <1>3, <1>4, ReadyRunner, ReadyCaller, ReadyCall
  DEF Next, LoopStep, Procs

(* An item is run only after each of its dependencies has been completed,    *)
(* whether a call, the end of a dependency or the recovery queued it.        *)
THEOREM DependenciesFirstCorrect == Spec => []RunsAfterDependencies
<1>1. Init => ReadyInv
  <2> SUFFICES ASSUME Init PROVE ReadyInv
    OBVIOUS
  <2>1. \A w \in WorkItems : status[w] # "completed" /\ ~InQueue(w)
    BY DEF Init, InQueue
  <2>2. \A p \in Procs : pc[p] \in {"finished", "idle"}
    BY DEF Init
  <2>3. \A g \in Runners : rpc[g] = "idle"
    BY DEF Init
  <2> QED
    BY <2>1, <2>2, <2>3 DEF ReadyInv, InEngine
<1>2. TypeOK /\ ReadyInv /\ [Next]_vars => ReadyInv'
  BY ReadyStep
<1>3. ReadyInv => RunsAfterDependencies
  BY DEF ReadyInv, RunsAfterDependencies
<1> QED
  BY <1>1, <1>2, <1>3, TypeCorrect, PTL DEF Spec

-----------------------------------------------------------------------------
(* The limit is about runs, the map about work items.                        *)
OneRunPerItem ==
  \A g, h \in Runners : Live(g) /\ Live(h) /\ rwi[g] = rwi[h] => g = h
OwnsEntry == \A g \in Runners : Live(g) => rwi[g] \in WorkItems /\ running[rwi[g]] = g

(* Only a dispatch makes a goroutine live or gives it another work item.     *)
LEMMA LiveRunner ==
  ASSUME TypeOK, NEW g \in Runners, RunnerStep(g) \/ RunSync(g),
         NEW h \in Runners, Live(h)'
  PROVE  /\ Live(h) /\ rwi'[h] = rwi[h]
         /\ RunExit(g) => h # g
BY DEF RunnerStep, RunStart, RunLaunch, RunSync, RunDone, RunFail, RunComplete,
  RunTerminal, RunFailed, NextDependent, DependentPrepare, DependentAppend,
  DependentSignal, RunExit, RunSignal, Live, TypeOK

LEMMA OwnsStep ==
  ASSUME TypeOK, OwnsEntry, OneRunPerItem, OneRunPerItem', [Next]_vars
  PROVE  OwnsEntry'
<1> SUFFICES ASSUME NEW h \in Runners, Live(h)'
             PROVE  rwi'[h] \in WorkItems /\ running'[rwi'[h]] = h
  BY DEF OwnsEntry
<1>1. ASSUME UNCHANGED <<running, rwi, rpc>>
      PROVE  rwi'[h] \in WorkItems /\ running'[rwi'[h]] = h
  BY <1>1 DEF OwnsEntry, Live
<1>2. CASE DispatchOne
  <2>1. PICK g \in Runners :
          /\ rpc[g] = "idle"
          /\ rpc' = [rpc EXCEPT ![g] = "start"]
          /\ rwi' = [rwi EXCEPT ![g] = Head(queue)]
          /\ running' = [running EXCEPT ![Head(queue)] = g]
    BY <1>2 DEF DispatchOne
  <2>2. Head(queue) \in WorkItems
    BY <1>2 DEF DispatchOne, TypeOK
  <2>3. Live(g)' /\ rwi'[g] = Head(queue) /\ running'[Head(queue)] = g
    BY <2>1, <2>2 DEF Live, TypeOK
  <2>4. CASE h = g
    BY <2>2, <2>3, <2>4
  <2>5. CASE h # g
    <3>1. Live(h) /\ rwi'[h] = rwi[h] /\ rwi[h] \in WorkItems /\ running[rwi[h]] = h
      BY <2>1, <2>5 DEF OwnsEntry, Live, TypeOK
    <3>2. rwi[h] # Head(queue)
      BY <2>3, <2>5, <3>1 DEF OneRunPerItem
    <3> QED
      BY <2>1, <3>1, <3>2 DEF TypeOK
  <2> QED
    BY <2>4, <2>5
<1>3. ASSUME NEW g \in Runners, RunnerStep(g) \/ RunSync(g)
      PROVE  rwi'[h] \in WorkItems /\ running'[rwi'[h]] = h
  <2>1. /\ Live(h) /\ rwi'[h] = rwi[h] /\ (RunExit(g) => h # g)
        /\ rwi[h] \in WorkItems /\ running[rwi[h]] = h
    BY <1>3, LiveRunner DEF OwnsEntry
  <2>2. CASE RunExit(g)
    <3>1. Live(g) /\ running' = [running EXCEPT ![rwi[g]] = None]
      BY <2>2 DEF RunExit, Live
    <3>2. rwi[g] # rwi[h]
      BY <2>1, <2>2, <3>1 DEF OneRunPerItem
    <3> QED
      BY <2>1, <3>1, <3>2 DEF TypeOK
  <2>3. CASE UNCHANGED running
    BY <2>1, <2>3
  <2> QED
    BY <1>3, <2>2, <2>3, RunnerFrame
<1>4. CASE Restart
  BY <1>4 DEF Restart, Live
<1>5. CASE \/ DispatchEnd \/ Wake \/ BeginDrain \/ DrainDone \/ RecoveryStep
           \/ SchedulerStop \/ Shutdown \/ UNCHANGED vars
           \/ \E p \in Procs : ProcStep(p) \/ CancelStep(p)
           \/ \E c \in Clients, w \in WorkItems : SubmitBegin(c, w) \/ CancelBegin(c, w)
  <2>1. UNCHANGED <<running, rwi, rpc>>
    BY <1>5 DEF DispatchEnd, Wake, BeginDrain, DrainDone, RecoveryStep, RecoveryList,
      RecoveryItem, RecoveryReset, RecoverySubmit, SchedulerStop, Shutdown, vars,
      ProcStep, SubmitCheckDependencies, SubmitHold, SubmitPrepare, SubmitAppend,
      SubmitSignal, CancelStep, CancelQueued, CancelRead, CancelWrite, SubmitBegin,
      CancelBegin
  <2> QED
    BY <1>1, <2>1
<1> QED
  BY <1>2, <1>3, <1>4, <1>5 DEF Next, LoopStep, Procs

LEMMA OwnersWithinLimit ==
  ASSUME TypeOK, CapacityRespected, OwnsEntry
  PROVE  LiveRunsWithinLimit
<1>1. None \notin Runners
  BY SchedulerAssumption
<1>2. Executing \subseteq Running
  BY <1>1 DEF Executing, OwnsEntry, InEngine, Live, Running, Registered
<1>3. /\ IsFiniteSet(Running) /\ Cardinality(Running) \in Nat
      /\ Cardinality(Running) =< MaxConcurrent
  BY RunningFinite DEF CapacityRespected
<1>4. IsFiniteSet(Executing) /\ Cardinality(Executing) =< Cardinality(Running)
  BY <1>2, <1>3, FS_Subset
<1>5. Cardinality(Executing) \in Nat /\ MaxConcurrent \in Nat
  BY <1>4, FS_CardinalityType, SchedulerAssumption
<1> QED
  BY <1>3, <1>4, <1>5 DEF LiveRunsWithinLimit

(* The number of executing work items stays within maxConcurrent, and each   *)
(* live run has its own cancel func in s.running, for as long as no work     *)
(* item is run beside a run of itself: the overlap is the only way past it   *)
(* (dispatch's registration and runWorkItem's cleanup, both by work item).   *)
THEOREM LimitUnlessOverlap ==
  Spec /\ []OneRunPerItem => [](LiveRunsWithinLimit /\ OwnsEntry)
<1>1. Init => OwnsEntry
  BY DEF Init, OwnsEntry, Live
<1>2. /\ TypeOK /\ OwnsEntry /\ OneRunPerItem /\ OneRunPerItem' /\ [Next]_vars
      => OwnsEntry'
  BY OwnsStep
<1>3. TypeOK /\ CapacityRespected /\ OwnsEntry => LiveRunsWithinLimit
  BY OwnersWithinLimit
<1> QED
  BY <1>1, <1>2, <1>3, TypeCorrect, CapacityCorrect, PTL DEF Spec

-----------------------------------------------------------------------------
(* Where the recovery is.                                                    *)
PositionInv ==
  /\ pc[Recoverer] # "finished" => \A c \in Clients : pc[c] = "idle"
  /\ pc[Recoverer] \in {"list", "finished"} => rtodo = {}
  /\ pc[Recoverer] = "list" /\ rk = 1 =>
       queue = <<>> /\ \A g \in Runners : rpc[g] = "idle"
  /\ pc[Recoverer] \notin AtRest => wi[Recoverer] \in rseen
(* An item of the first list that recovery has still to reset, and that      *)
(* nobody else has.                                                          *)
FirstList == rk = 2
Listed(w) ==
  /\ FirstList
  /\ w \in rtodo \ rseen \/ (pc[Recoverer] = "reset" /\ wi[Recoverer] = w)
Untouched(w) ==
  /\ status[w] = "queued" /\ ~InQueue(w)
  /\ \A g \in Runners :
       (Live(g) => rwi[g] # w) /\ (rpc[g] = "depAppend" => dep[g] # w)
ListedInv == \A w \in WorkItems : Listed(w) => Untouched(w)

LEMMA PositionStep ==
  ASSUME TypeOK, RecoveryInv, PositionInv, [Next]_vars
  PROVE  PositionInv'
<1> USE DEF PositionInv, AtRest
<1>1. Recoverer \in Procs /\ Clients \subseteq Procs /\ Recoverer \notin Clients
  BY SchedulerAssumption DEF Procs
<1>2. CASE LoopStep
  <2>1. UNCHANGED <<pc, wi, recVars>> /\ (queue = <<>> => UNCHANGED <<queue, rpc>>)
    BY <1>2 DEF LoopStep, DispatchOne, DispatchEnd, Wake, BeginDrain, DrainDone
  <2> QED
    BY <2>1
<1>3. ASSUME NEW g \in Runners, RunnerStep(g) \/ RunSync(g) PROVE PositionInv'
  <2>1. UNCHANGED <<pc, wi, recVars>> /\ rpc[g] # "idle"
    BY <1>3 DEF RunnerStep, RunStart, RunLaunch, RunSync, RunDone, RunFail,
      RunComplete, RunTerminal, RunFailed, NextDependent, DependentPrepare,
      DependentAppend, DependentSignal, RunExit, RunSignal
  <2> QED
    BY <2>1
<1>4. ASSUME NEW p \in Procs, ProcStep(p) PROVE PositionInv'
  <2>1. /\ UNCHANGED recVars /\ pc[p] \notin AtRest
        /\ pc'[p] \notin {"list", "finished"}
        /\ pc'[p] \in AtRest \/ wi'[p] = wi[p]
        /\ \A q \in Procs \ {p} : pc'[q] = pc[q] /\ wi'[q] = wi[q]
    BY <1>4 DEF ProcStep, SubmitCheckDependencies, SubmitHold, SubmitPrepare,
      SubmitAppend, SubmitSignal, TypeOK
  <2>2. CASE p = Recoverer
    BY <1>1, <2>1, <2>2
  <2>3. CASE p # Recoverer
    <3>1. p \in Clients /\ pc[Recoverer] = "finished"
      BY <2>1, <2>3 DEF Procs
    <3> QED
      BY <1>1, <2>1, <2>3, <3>1
  <2> QED
    BY <2>2, <2>3
<1>5. ASSUME NEW c \in Clients,
             CancelStep(c) \/ \E w \in WorkItems : SubmitBegin(c, w) \/ CancelBegin(c, w)
      PROVE  PositionInv'
  <2>1. UNCHANGED recVars /\ \A q \in Procs \ {c} : pc'[q] = pc[q] /\ wi'[q] = wi[q]
    BY <1>5 DEF CancelStep, CancelQueued, CancelRead, CancelWrite, SubmitBegin,
      CancelBegin, TypeOK
  <2>2. pc[Recoverer] = "finished"
    BY <1>5 DEF CancelStep, CancelQueued, CancelRead, CancelWrite, SubmitBegin,
      CancelBegin
  <2> QED
    BY <1>1, <2>1, <2>2
<1>6. CASE RecoveryStep
  <2>1. /\ UNCHANGED <<queue, rpc>>
        /\ \A c \in Clients : pc'[c] = pc[c]
        /\ pc[Recoverer] # "finished"
    BY <1>1, <1>6 DEF RecoveryStep, RecoveryList, RecoveryItem, RecoveryReset,
      RecoverySubmit, TypeOK
  <2>2. CASE RecoveryList
    BY <1>1, <2>1, <2>2 DEF RecoveryList, TypeOK
  <2>3. CASE RecoveryItem
    <3>1. rk # 1 /\ UNCHANGED rk
      BY <2>3 DEF RecoveryItem, RecoveryInv
    <3> QED
      BY <1>1, <2>1, <2>3, <3>1 DEF RecoveryItem, TypeOK
  <2>4. CASE RecoveryReset \/ RecoverySubmit
    BY <1>1, <2>1, <2>4 DEF RecoveryReset, RecoverySubmit, TypeOK
  <2> QED
    BY <1>6, <2>2, <2>3, <2>4 DEF RecoveryStep
<1>7. CASE SchedulerStop \/ Shutdown \/ UNCHANGED vars
  <2>1. UNCHANGED <<pc, wi, recVars, queue, rpc>>
    BY <1>7 DEF SchedulerStop, Shutdown, vars
  <2> QED
    BY <2>1
<1>8. CASE Restart
  BY <1>1, <1>8 DEF Restart
<1> QED
  BY <1>2, <1>3, <1>4, <1>5, <1>6, <1>7, <1>8 DEF Next

LEMMA ListedRunner ==
  ASSUME TypeOK, ListedInv, NEW g \in Runners, RunnerStep(g) \/ RunSync(g),
         NEW w \in WorkItems, Listed(w)'
  PROVE  Untouched(w)'
<1>1. UNCHANGED <<pc, wi, recVars>> /\ rpc[g] # "idle"
  BY DEF RunnerStep, RunStart, RunLaunch, RunSync, RunDone, RunFail,
    RunComplete, RunTerminal, RunFailed, NextDependent, DependentPrepare,
    DependentAppend, DependentSignal, RunExit, RunSignal
<1>2. Untouched(w)
  BY <1>1 DEF ListedInv, Listed, FirstList
<1>3. \A h \in Runners : Live(h)' => rwi'[h] # w
  BY <1>2, LiveRunner DEF Untouched
<1>4. status'[w] = "queued"
  <2>1. CASE DependentPrepare(g)
    BY <1>2, <2>1 DEF DependentPrepare, Untouched, Preparable, TypeOK
  <2>2. CASE ~DependentPrepare(g)
    <3>1. UNCHANGED status \/ \E s : status' = [status EXCEPT ![rwi[g]] = s] /\ Live(g)
      BY <2>2 DEF RunnerStep, RunStart, RunLaunch, RunSync, RunDone, RunFail,
        RunComplete, RunTerminal, RunFailed, NextDependent, DependentAppend,
        DependentSignal, RunExit, RunSignal, Live
    <3> QED
      BY <1>2, <3>1 DEF Untouched, TypeOK
  <2> QED
    BY <2>1, <2>2
<1>5. \A h \in Runners : rpc'[h] = "depAppend" => dep'[h] # w
  <2>1. CASE DependentPrepare(g)
    BY <1>2, <2>1 DEF DependentPrepare, Untouched, Preparable, TypeOK
  <2>2. CASE ~DependentPrepare(g)
    <3>1. /\ rpc'[g] # "depAppend"
          /\ \A h \in Runners \ {g} : rpc'[h] = rpc[h] /\ dep'[h] = dep[h]
      BY <2>2 DEF RunnerStep, RunStart, RunLaunch, RunSync, RunDone, RunFail,
        RunComplete, RunTerminal, RunFailed, NextDependent, DependentAppend,
        DependentSignal, RunExit, RunSignal, TypeOK
    <3> QED
      BY <1>2, <3>1 DEF Untouched
  <2> QED
    BY <2>1, <2>2
<1>6. ~InQueue(w)'
  <2>1. CASE DependentAppend(g)
    <3>1. /\ queue' = Append(queue, dep[g]) /\ rpc[g] = "depAppend"
          /\ dep[g] \in WorkItems /\ dep[g] # w
      BY <1>2, <2>1 DEF DependentAppend, TypeOK, Untouched
    <3> QED
      BY <1>2, <3>1, FromAppend DEF Untouched
  <2>2. CASE ~DependentAppend(g)
    <3>1. UNCHANGED queue
      BY <2>2 DEF RunnerStep, RunStart, RunLaunch, RunSync, RunDone, RunFail,
        RunComplete, RunTerminal, RunFailed, NextDependent, DependentPrepare,
        DependentSignal, RunExit, RunSignal
    <3> QED
      BY <1>2, <3>1 DEF Untouched, InQueue
  <2> QED
    BY <2>1, <2>2
<1> QED
  BY <1>3, <1>4, <1>5, <1>6 DEF Untouched

LEMMA ListedStep ==
  ASSUME TypeOK, RecoveryInv, PositionInv, ListedInv, [Next]_vars
  PROVE  ListedInv'
<1> USE DEF FirstList
<1> SUFFICES ASSUME NEW w \in WorkItems, Listed(w)' PROVE Untouched(w)'
  BY DEF ListedInv
<1>1. Recoverer \in Procs /\ Recoverer \notin Clients
  BY SchedulerAssumption DEF Procs
<1>2. ASSUME Listed(w), UNCHANGED <<status, queue, rpc, rwi, dep>> PROVE Untouched(w)'
  BY <1>2 DEF ListedInv, Untouched, InQueue, Live
<1>3. CASE DispatchOne
  <2>1. PICK g \in Runners :
          rpc' = [rpc EXCEPT ![g] = "start"] /\ rwi' = [rwi EXCEPT ![g] = Head(queue)]
    BY <1>3 DEF DispatchOne
  <2>2. /\ queue # <<>> /\ queue' = Tail(queue)
        /\ UNCHANGED <<status, dep, pc, wi, recVars>>
    BY <1>3 DEF DispatchOne
  <2>3. Untouched(w)
    BY <2>2 DEF ListedInv, Listed
  <2>4. Head(queue) # w
    <3>1. 1 \in 1..Len(queue) /\ queue[1] = Head(queue)
      BY <2>2 DEF TypeOK
    <3> QED
      BY <2>3, <3>1 DEF Untouched, InQueue
  <2>5. ~InQueue(w)'
    BY <2>2, <2>3, FromTail DEF Untouched
  <2> QED
    BY <2>1, <2>2, <2>3, <2>4, <2>5 DEF Untouched, Live, TypeOK
<1>4. CASE DispatchEnd \/ Wake \/ BeginDrain \/ DrainDone \/ SchedulerStop \/ Shutdown \/ UNCHANGED vars
  <2>1. UNCHANGED <<status, queue, rpc, rwi, dep, pc, wi, recVars>>
    BY <1>4 DEF DispatchEnd, Wake, BeginDrain, DrainDone, SchedulerStop, Shutdown, vars
  <2>2. Listed(w)
    BY <2>1 DEF Listed
  <2> QED
    BY <1>2, <2>1, <2>2
<1>5. CASE RecoveryList
  <2>1. /\ rk \in Nat \ {0} /\ Len(RecoverStatuses) \in Nat \ {0}
        /\ RecoverStatuses[1] = "queued"
    BY SchedulerAssumption DEF TypeOK
  <2>2. CASE rk = 1
    <3>1. /\ rtodo' = {v \in WorkItems : status[v] = "queued"}
          /\ pc'[Recoverer] = "item" /\ UNCHANGED <<status, queue, rpc, rwi, dep>>
      BY <1>1, <1>5, <2>1, <2>2 DEF RecoveryList, TypeOK
    <3>2. queue = <<>> /\ \A g \in Runners : rpc[g] = "idle"
      BY <1>5, <2>2 DEF RecoveryList, PositionInv
    <3> QED
      BY <3>1, <3>2 DEF Listed, Untouched, InQueue, Live
  <2>3. CASE rk # 1
    <3>1. \/ pc'[Recoverer] = "finished" /\ UNCHANGED recVars /\ rtodo = {}
          \/ rk' = rk + 1
      BY <1>1, <1>5, <2>1, <2>3 DEF RecoveryList, PositionInv, TypeOK
    <3> QED
      BY <2>1, <2>3, <3>1 DEF Listed
  <2> QED
    BY <2>2, <2>3
<1>6. CASE RecoveryItem
  <2>1. Listed(w) /\ UNCHANGED <<status, queue, rpc, rwi, dep>>
    BY <1>1, <1>6 DEF RecoveryItem, Listed, TypeOK
  <2> QED
    BY <1>2, <2>1
<1>7. CASE RecoveryReset \/ RecoverySubmit
  <2>1. /\ UNCHANGED <<queue, rpc, rwi, dep, recVars>> /\ pc'[Recoverer] # "reset"
        /\ pc[Recoverer] \in {"reset", "read"}
        /\ \A v \in WorkItems : v # wi[Recoverer] => status'[v] = status[v]
    BY <1>1, <1>7 DEF RecoveryReset, RecoverySubmit, TypeOK
  <2>2. w \in rtodo \ rseen /\ wi[Recoverer] \in rseen
    BY <2>1 DEF Listed, PositionInv, AtRest
  <2> QED
    BY <2>1, <2>2 DEF ListedInv, Listed, Untouched, InQueue, Live
<1>8. ASSUME NEW p \in Procs, ProcStep(p) PROVE Untouched(w)'
  <2>1. /\ UNCHANGED <<rpc, rwi, dep, recVars>> /\ pc[p] \notin AtRest \cup {"reset"}
        /\ pc'[p] # "reset" /\ \A q \in Procs \ {p} : pc'[q] = pc[q] /\ wi'[q] = wi[q]
        /\ \A v \in WorkItems : v # wi[p] => status'[v] = status[v]
        /\ UNCHANGED queue \/ (queue' = Append(queue, wi[p]) /\ wi[p] \in WorkItems)
    BY <1>8 DEF ProcStep, SubmitCheckDependencies, SubmitHold, SubmitPrepare,
      SubmitAppend, SubmitSignal, TypeOK, AtRest
  <2>2. p = Recoverer
    <3>1. CASE pc[Recoverer] = "finished"
      BY <1>1, <2>1, <3>1 DEF Listed, PositionInv, AtRest
    <3>2. CASE pc[Recoverer] # "finished"
      BY <2>1, <3>2 DEF PositionInv, Procs, AtRest
    <3> QED
      BY <3>1, <3>2
  <2>3. w \in rtodo \ rseen /\ wi[p] # w /\ Untouched(w)
    BY <2>1, <2>2 DEF Listed, PositionInv, ListedInv
  <2>4. ~InQueue(w)'
    BY <2>1, <2>3, FromAppend DEF Untouched, InQueue
  <2> QED
    BY <2>1, <2>3, <2>4 DEF Untouched, Live
<1>9. ASSUME NEW c \in Clients,
             CancelStep(c) \/ \E v \in WorkItems : SubmitBegin(c, v) \/ CancelBegin(c, v)
      PROVE  FALSE
  <2>1. pc[Recoverer] = "finished" /\ rtodo = {}
    BY <1>9 DEF CancelStep, CancelQueued, CancelRead, CancelWrite, SubmitBegin,
      CancelBegin, PositionInv
  <2>2. UNCHANGED recVars /\ pc'[Recoverer] = pc[Recoverer]
    BY <1>1, <1>9 DEF CancelStep, CancelQueued, CancelRead, CancelWrite, SubmitBegin,
      CancelBegin, TypeOK
  <2> QED
    BY <2>1, <2>2 DEF Listed
<1>10. CASE Restart
  BY <1>1, <1>10 DEF Restart, Listed
<1> QED
  BY <1>3, <1>4, <1>5, <1>6, <1>7, <1>8, <1>9, <1>10, ListedRunner
  DEF Next, LoopStep, RecoveryStep

(* The recovery never resets an item of its first list, the queued ones,     *)
(* that a goroutine of its own process is running, however fast what it has  *)
(* submitted is dispatched, completed and followed by its dependents.  The   *)
(* later lists of RecoverInterruptedWorkItems and RecoverQueuedWorkItems are *)
(* read beside those runs and break this.                                    *)
THEOREM FirstListTakesDeadItems ==
  Spec => [](FirstList => RecoveryTakesDeadItems)
<1>1. Init => RecoveryInv /\ PositionInv /\ ListedInv
  BY DEF Init, RecoveryInv, PositionInv, ListedInv, Listed, FirstList, Procs, AtRest
<1>2. /\ TypeOK /\ RecoveryInv /\ PositionInv /\ ListedInv /\ [Next]_vars
      => RecoveryInv' /\ PositionInv' /\ ListedInv'
  BY RecoveryInvStep, PositionStep, ListedStep
<1>3. TypeOK /\ ListedInv => (FirstList => RecoveryTakesDeadItems)
  <2> SUFFICES ASSUME TypeOK, ListedInv, FirstList, NEW g \in Runners,
                      pc[Recoverer] = "reset", InEngine(g)
               PROVE  rwi[g] # wi[Recoverer]
    BY DEF RecoveryTakesDeadItems
  <2>1. wi[Recoverer] \in WorkItems
    BY DEF TypeOK, Procs, AtRest
  <2> QED
    BY <2>1 DEF ListedInv, Listed, Untouched, InEngine, Live
<1> QED
  BY <1>1, <1>2, <1>3, TypeCorrect, PTL DEF Spec


-----------------------------------------------------------------------------
(* An item that a cancelled run leaves in_execution.                         *)
RecoversExecuting ==
  \E k \in 1..Len(RecoverStatuses) : RecoverStatuses[k] = "in_execution"
(* The actions are done, the context is cancelled, and the write of          *)
(* completed fails with it.                                                  *)
CancelledLate(g) == RunComplete(g) /\ Cancelled(g)

(* A goroutine that is going to write the item's status once more.           *)
Writes(g, w) ==
  /\ rwi[g] = w
  /\ \/ rpc[g] \in {"loop", "complete", "terminal"}
     \/ rpc[g] = "failed" /\ Cancelled(g)
(* Recovery is going to reset it.                                            *)
AwaitsRecovery(w) ==
  \/ w \in rtodo \ rseen
  \/ pc[Recoverer] = "reset" /\ wi[Recoverer] = w
  \/ /\ w \notin rseen /\ pc[Recoverer] # "finished"
     /\ \E k \in rk..Len(RecoverStatuses) : RecoverStatuses[k] = "in_execution"
Attended(w) == (\E g \in Runners : Writes(g, w)) \/ AwaitsRecovery(w)
AttendedInv == \A w \in WorkItems : status[w] = "in_execution" => Attended(w)

(* Whoever is going to write still is, or has written something else.        *)
LEMMA AttendedRunner ==
  ASSUME TypeOK, AttendedInv, NEW g \in Runners, RunnerStep(g) \/ RunSync(g),
         ~CancelledLate(g), NEW w \in WorkItems, status'[w] = "in_execution"
  PROVE  Attended(w)'
<1>1. /\ UNCHANGED <<pc, wi, recVars, stopped>>
      /\ \A h \in Runners \ {g} : rpc'[h] = rpc[h] /\ rwi'[h] = rwi[h]
      /\ \A h \in Runners \ {g} : h \in cancelled => h \in cancelled'
  BY DEF RunnerStep, RunStart, RunLaunch, RunSync, RunDone, RunFail, RunComplete,
    RunTerminal, RunFailed, NextDependent, DependentPrepare, DependentAppend,
    DependentSignal, RunExit, RunSignal, TypeOK
<1>2. CASE RunLaunch(g) \/ RunSync(g)
  <2>1. CASE Writes(g, w)'
    BY <2>1 DEF Attended
  <2>2. CASE ~Writes(g, w)'
    <3>1. status'[w] = status[w] /\ ~Writes(g, w)
      BY <1>2, <2>2 DEF RunLaunch, RunSync, Writes, Cancelled, TypeOK
    <3>2. Attended(w)
      BY <3>1 DEF AttendedInv
    <3> QED
      BY <1>1, <3>1, <3>2 DEF Attended, Writes, Cancelled, AwaitsRecovery
  <2> QED
    BY <2>1, <2>2
<1>3. CASE RunComplete(g) \/ RunTerminal(g) \/ RunFailed(g)
  <2>1. CASE rwi[g] = w /\ Writes(g, w)
    <3>1. RunTerminal(g) /\ Cancelled(g)
      BY <1>3, <2>1, SchedulerAssumption DEF RunComplete, RunTerminal, RunFailed,
        CancelledLate, Writes, TypeOK
    <3>2. rpc'[g] = "failed" /\ rwi'[g] = w /\ cancelled' = cancelled
      BY <2>1, <3>1 DEF RunTerminal, TypeOK
    <3> QED
      BY <1>1, <3>1, <3>2 DEF Attended, Writes, Cancelled
  <2>2. CASE ~(rwi[g] = w /\ Writes(g, w))
    <3>1. status[w] = "in_execution"
      BY <1>3, <2>2, SchedulerAssumption DEF RunComplete, RunTerminal, RunFailed, TypeOK
    <3>2. ~Writes(g, w) /\ Attended(w)
      BY <2>2, <3>1 DEF AttendedInv, Writes
    <3> QED
      BY <1>1, <3>2 DEF Attended, Writes, Cancelled, AwaitsRecovery
  <2> QED
    BY <2>1, <2>2
<1>4. CASE RunDone(g) \/ RunFail(g)
  <2>1. status' = status /\ rwi' = rwi /\ rpc'[g] \in {"complete", "terminal"}
    BY <1>4 DEF RunDone, RunFail, TypeOK
  <2>2. Attended(w)
    BY <2>1 DEF AttendedInv
  <2> QED
    BY <1>1, <2>1, <2>2 DEF Attended, Writes, Cancelled, AwaitsRecovery
<1>5. CASE RunStart(g) \/ NextDependent(g) \/ DependentPrepare(g) \/ DependentAppend(g)
           \/ DependentSignal(g) \/ RunExit(g) \/ RunSignal(g)
  <2>1. rpc[g] \notin {"loop", "complete", "terminal", "failed"}
    BY <1>5 DEF RunStart, NextDependent, DependentPrepare, DependentAppend,
      DependentSignal, RunExit, RunSignal
  <2>2. status[w] = "in_execution"
    BY <1>5 DEF RunStart, NextDependent, DependentPrepare, DependentAppend,
      DependentSignal, RunExit, RunSignal, TypeOK
  <2>3. Attended(w)
    BY <2>2 DEF AttendedInv
  <2> QED
    BY <1>1, <2>1, <2>3 DEF Attended, Writes, Cancelled, AwaitsRecovery
<1> QED
  BY <1>2, <1>3, <1>4, <1>5 DEF RunnerStep

LEMMA AttendedStep ==
  ASSUME RecoversExecuting, TypeOK, PositionInv, AttendedInv, [Next]_vars,
         \A g \in Runners : ~CancelledLate(g)
  PROVE  AttendedInv'
<1> SUFFICES ASSUME NEW w \in WorkItems, status'[w] = "in_execution"
             PROVE  Attended(w)'
  BY DEF AttendedInv
<1>1. Recoverer \in Procs /\ Recoverer \notin Clients /\ rk \in Nat
  BY SchedulerAssumption DEF Procs, TypeOK
<1>2. ASSUME \A g \in Runners : Writes(g, w) => Writes(g, w)',
             AwaitsRecovery(w) => AwaitsRecovery(w)', status[w] = "in_execution"
      PROVE  Attended(w)'
  BY <1>2 DEF AttendedInv, Attended
<1>3. ASSUME UNCHANGED <<rwi, rpc>>, cancelled \subseteq cancelled', stopped => stopped'
      PROVE  \A g \in Runners : Writes(g, w) => Writes(g, w)'
  BY <1>3 DEF Writes, Cancelled
<1>4. CASE DispatchOne
  <2>1. PICK g \in Runners :
          /\ rpc[g] = "idle"
          /\ rpc' = [rpc EXCEPT ![g] = "start"]
          /\ rwi' = [rwi EXCEPT ![g] = Head(queue)]
    BY <1>4 DEF DispatchOne
  <2>2. UNCHANGED <<status, stopped, cancelled, pc, wi, recVars>>
    BY <1>4 DEF DispatchOne
  <2> QED
    BY <1>2, <2>1, <2>2 DEF Writes, Cancelled, AwaitsRecovery, TypeOK
<1>5. CASE \/ DispatchEnd \/ Wake \/ BeginDrain \/ DrainDone \/ SchedulerStop
           \/ Shutdown \/ UNCHANGED vars
  <2>1. UNCHANGED <<status, rwi, rpc, pc, wi, recVars>>
    BY <1>5 DEF DispatchEnd, Wake, BeginDrain, DrainDone, SchedulerStop, Shutdown, vars
  <2>2. cancelled \subseteq cancelled' /\ (stopped => stopped')
    BY <1>5 DEF DispatchEnd, Wake, BeginDrain, DrainDone, SchedulerStop, Shutdown, vars
  <2>3. AwaitsRecovery(w) => AwaitsRecovery(w)'
    BY <2>1 DEF AwaitsRecovery
  <2> QED
    BY <1>2, <1>3, <2>1, <2>2, <2>3
<1>6. ASSUME NEW p \in Procs, ProcStep(p) PROVE Attended(w)'
  <2>1. /\ UNCHANGED <<runnerVars, stopped, recVars>>
        /\ pc[p] # "reset" /\ (pc'[p] = "finished" => p # Recoverer)
        /\ \A q \in Procs \ {p} : pc'[q] = pc[q] /\ wi'[q] = wi[q]
    BY <1>6 DEF ProcStep, SubmitCheckDependencies, SubmitHold, SubmitPrepare,
      SubmitAppend, SubmitSignal, TypeOK
  <2>2. status[w] = "in_execution"
    BY <1>6 DEF ProcStep, SubmitCheckDependencies, SubmitHold, SubmitPrepare,
      SubmitAppend, SubmitSignal, TypeOK
  <2>3. AwaitsRecovery(w) => AwaitsRecovery(w)'
    BY <1>1, <2>1 DEF AwaitsRecovery
  <2> QED
    BY <1>2, <1>3, <2>1, <2>2, <2>3
<1>7. ASSUME NEW c \in Clients,
             CancelStep(c) \/ \E v \in WorkItems : SubmitBegin(c, v) \/ CancelBegin(c, v)
      PROVE  Attended(w)'
  <2>1. /\ UNCHANGED <<rpc, rwi, stopped, recVars>> /\ cancelled \subseteq cancelled'
        /\ \A q \in Procs \ {c} : pc'[q] = pc[q] /\ wi'[q] = wi[q]
    BY <1>7 DEF CancelStep, CancelQueued, CancelRead, CancelWrite, SubmitBegin,
      CancelBegin, TypeOK
  <2>2. status[w] = "in_execution"
    BY <1>7 DEF CancelStep, CancelQueued, CancelRead, CancelWrite, SubmitBegin,
      CancelBegin, TypeOK
  <2>3. AwaitsRecovery(w) => AwaitsRecovery(w)'
    BY <1>1, <2>1 DEF AwaitsRecovery
  <2> QED
    BY <1>2, <1>3, <2>1, <2>2, <2>3
<1>8. CASE RecoveryList
  <2>1. /\ UNCHANGED <<status, runnerVars, stopped, rseen>> /\ pc[Recoverer] = "list"
        /\ rtodo = {}
    BY <1>8 DEF RecoveryList, PositionInv
  <2>2. ASSUME AwaitsRecovery(w) PROVE AwaitsRecovery(w)'
    <3>1. PICK k \in rk..Len(RecoverStatuses) :
            w \notin rseen /\ RecoverStatuses[k] = "in_execution"
      BY <2>1, <2>2 DEF AwaitsRecovery
    <3>2. /\ pc'[Recoverer] = "item" /\ rk' = rk + 1
          /\ rtodo' = {v \in WorkItems : status[v] = RecoverStatuses[rk]}
      BY <1>1, <1>8, <3>1 DEF RecoveryList, TypeOK
    <3>3. CASE k = rk
      BY <2>1, <3>1, <3>2, <3>3 DEF AwaitsRecovery
    <3>4. CASE k # rk
      <4>1. k \in rk'..Len(RecoverStatuses)
        BY <1>1, <3>1, <3>2, <3>4
      <4> QED
        BY <2>1, <3>1, <3>2, <4>1 DEF AwaitsRecovery
    <3> QED
      BY <3>3, <3>4
  <2> QED
    BY <1>2, <1>3, <2>1, <2>2
<1>9. CASE RecoveryItem
  <2>1. /\ UNCHANGED <<status, runnerVars, stopped, rk>> /\ pc[Recoverer] = "item"
    BY <1>9 DEF RecoveryItem
  <2>2. ASSUME AwaitsRecovery(w) PROVE AwaitsRecovery(w)'
    <3>1. CASE rtodo \subseteq rseen /\ pc' = [pc EXCEPT ![Recoverer] = "list"] /\ UNCHANGED rseen
      BY <1>1, <2>1, <2>2, <3>1 DEF AwaitsRecovery, TypeOK
    <3>2. ASSUME NEW v \in rtodo \ rseen,
                 pc' = [pc EXCEPT ![Recoverer] = "reset"],
                 wi' = [wi EXCEPT ![Recoverer] = v],
                 rseen' = rseen \cup {v}, rtodo' = rtodo \ {v}
          PROVE  AwaitsRecovery(w)'
      BY <1>1, <2>1, <2>2, <3>2 DEF AwaitsRecovery, TypeOK
    <3> QED
      BY <1>9, <3>1, <3>2 DEF RecoveryItem
  <2> QED
    BY <1>2, <1>3, <2>1, <2>2
<1>10. CASE RecoveryReset \/ RecoverySubmit
  <2>1. /\ UNCHANGED <<runnerVars, stopped, recVars>> /\ pc'[Recoverer] # "finished"
        /\ status[w] = "in_execution" /\ ~(pc[Recoverer] = "reset" /\ wi[Recoverer] = w)
    BY <1>1, <1>10 DEF RecoveryReset, RecoverySubmit, TypeOK
  <2>2. AwaitsRecovery(w) => AwaitsRecovery(w)'
    BY <2>1 DEF AwaitsRecovery
  <2> QED
    BY <1>2, <1>3, <2>1, <2>2
<1>11. CASE Restart
  <2>1. rk' = 1 /\ rseen' = {} /\ pc'[Recoverer] = "list"
    BY <1>1, <1>11 DEF Restart
  <2> QED
    BY <2>1 DEF Attended, AwaitsRecovery, RecoversExecuting
<1> QED
  BY <1>4, <1>5, <1>6, <1>7, <1>8, <1>9, <1>10, <1>11, AttendedRunner
  DEF Next, LoopStep, RecoveryStep

(* The first step that leaves an item in_execution with nobody to write it   *)
(* again is always that of a run cancelled between its loop's success and    *)
(* the write of completed (engine.Run's last setWorkItemStatus).  Without it *)
(* no cancellation, failure, second run, stop, crash or recovery does, when  *)
(* recovery lists the executing items too (RecoverInterruptedWorkItems).     *)
THEOREM ExecutingUnlessCancelledLate ==
  ASSUME RecoversExecuting
  PROVE  /\ Spec /\ [][\A g \in Runners : ~CancelledLate(g)]_vars => []InExecutionHasRun
         /\ Spec => [][AttendedInv => AttendedInv' \/ \E g \in Runners : CancelledLate(g)]_vars
<1>1. Init => RecoveryInv /\ PositionInv /\ AttendedInv
  BY DEF Init, RecoveryInv, PositionInv, AttendedInv, Procs, AtRest
<1>2. /\ TypeOK /\ RecoveryInv /\ PositionInv /\ [Next]_vars
      => RecoveryInv' /\ PositionInv'
  BY RecoveryInvStep, PositionStep
<1>3. /\ TypeOK /\ PositionInv /\ AttendedInv /\ [Next]_vars
      => AttendedInv' \/ \E g \in Runners : CancelledLate(g)
  BY AttendedStep
<1>4. UNCHANGED vars /\ AttendedInv => AttendedInv'
  BY DEF vars, AttendedInv, Attended, Writes, Cancelled, AwaitsRecovery
<1>5. PositionInv /\ AttendedInv => InExecutionHasRun
  <2> SUFFICES ASSUME PositionInv, AttendedInv,
                      NEW w \in WorkItems, status[w] = "in_execution",
                      pc[Recoverer] = "finished"
               PROVE  \E g \in Runners : Live(g) /\ rwi[g] = w
    BY DEF InExecutionHasRun
  <2>1. ~AwaitsRecovery(w)
    BY DEF PositionInv, AwaitsRecovery
  <2> QED
    BY <2>1 DEF AttendedInv, Attended, Writes, Live
<1>6. Spec => [](TypeOK /\ PositionInv)
  <2>1. Spec => [](RecoveryInv /\ PositionInv)
    BY <1>1, <1>2, TypeCorrect, PTL DEF Spec
  <2> QED
    BY <2>1, TypeCorrect, PTL
<1>7. Spec /\ [][\A g \in Runners : ~CancelledLate(g)]_vars => []InExecutionHasRun
  <2>1. /\ TypeOK /\ PositionInv /\ AttendedInv /\ [Next]_vars
        /\ [\A g \in Runners : ~CancelledLate(g)]_vars
        => AttendedInv'
    BY <1>3, <1>4
  <2> QED
    BY <1>1, <1>5, <1>6, <2>1, PTL DEF Spec
<1>8. Spec => [][AttendedInv => AttendedInv' \/ \E g \in Runners : CancelledLate(g)]_vars
  <2>1. /\ TypeOK /\ PositionInv /\ [Next]_vars
        => [AttendedInv => AttendedInv' \/ \E g \in Runners : CancelledLate(g)]_vars
    BY <1>3
  <2> QED
    BY <1>6, <2>1, PTL DEF Spec
<1> QED
  BY <1>7, <1>8
=============================================================================
