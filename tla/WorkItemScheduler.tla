-------------------------- MODULE WorkItemScheduler --------------------------
(***************************************************************************)
(* The multi-work-item scheduler                                           *)
(* (internal/application/flow/flow_scheduler.go) with the startup recovery *)
(* that feeds it (recovery.go).  API handlers, the cron trigger and the    *)
(* recovery call Submit and Cancel from their own goroutines; one loop     *)
(* dispatches the queue; every dispatched work item runs in a goroutine.   *)
(*                                                                         *)
(* One action per store call or critical section: the store and the mutex  *)
(* s.mu serialise single calls, everything between them interleaves.  The  *)
(* engine's Run is abstracted to the writes it makes to the work item's    *)
(* status.                                                                 *)
(***************************************************************************)
EXTENDS Lifecycle, Sequences, FiniteSets

CONSTANTS
  WorkItems,        \* the work items in the store
  DependsOn,        \* work item -> the work items its depends_on lists
  Launchable,       \* those whose actions exist, validate and get a workspace
  Clients,          \* goroutines that call Submit and Cancel
  Recoverer,        \* the bootstrap goroutine that runs the recovery
  Runners,          \* identities for the runWorkItem goroutines (a bound)
  MaxConcurrent,    \* maxConcurrent
  RecoverStatuses,  \* the status lists recovery scans, in order
  MidRun,           \* statuses the actions of a running item can put it in
  FailStatuses,     \* statuses setTerminalFailureState can choose
  MaxOps,           \* bound: client calls in a behaviour
  MaxRestarts,      \* bound: crashes or shutdowns followed by a restart
  None

ASSUME SchedulerAssumption ==
  /\ IsFiniteSet(WorkItems)
  /\ DependsOn \in [WorkItems -> SUBSET WorkItems]
  /\ Launchable \subseteq WorkItems
  /\ Recoverer \notin Clients
  /\ MaxConcurrent \in Nat \ {0}
  /\ RecoverStatuses \in Seq(WorkItemStatus)
  /\ RecoverStatuses # <<>> /\ RecoverStatuses[1] = "queued"
  /\ MidRun \subseteq {"in_execution", "pending_review", "needs_rework", "escalated"}
  /\ FailStatuses \subseteq {"needs_rework", "escalated"}
  /\ MaxOps \in Nat /\ MaxRestarts \in Nat
  /\ None \notin WorkItems /\ None \notin Runners /\ None \notin WorkItemStatus

Procs == Clients \cup {Recoverer}

VARIABLES
  status,     \* work_items.status in the store; survives a restart
  queue,      \* s.queue
  running,    \* s.running: the goroutine whose cancel func is registered
  closed,     \* s.closed
  stopped,    \* the context given to Start is cancelled
  notify,     \* s.notify holds a token
  loop,       \* where Start's loop is
  rpc,        \* where each runWorkItem goroutine is
  rwi,        \* the work item it runs
  cancelled,  \* goroutines whose own context was cancelled
  todo,       \* autoQueueDependents: dependents still to visit
  dep,        \* autoQueueDependents: the dependent being queued
  pc,         \* where each caller of Submit or Cancel is
  wi,         \* the work item it works on
  seen,       \* the status it has read
  rk,         \* recovery: index of the status list being scanned
  rtodo,      \* recovery: listed work items still to recover
  rseen,      \* recovery: work items recovered so far
  ops, restarts,
  everCompleted  \* work items whose run has written completed (history)

loopVars == <<queue, running, closed, stopped, notify, loop>>
runnerVars == <<rpc, rwi, cancelled, todo, dep>>
procVars == <<pc, wi, seen>>
recVars == <<rk, rtodo, rseen>>
auxVars == <<ops, restarts, everCompleted>>
vars == <<status, loopVars, runnerVars, procVars, recVars, auxVars>>

LoopPC == {"dispatch", "select", "drain", "exited"}
RunnerPC ==
  {"idle", "start", "launch", "loop", "complete", "terminal", "failed",
   "dependents", "depPrepare", "depAppend", "depSignal", "exit", "signal"}
ProcPC ==
  {"idle", "deps", "hold", "prepare", "append", "signal",
   "cancelQueued", "cancelRead", "cancelWrite",
   "list", "item", "reset", "read", "finished"}
(* Where a caller works on no item.                                        *)
AtRest == {"idle", "list", "item", "finished"}

(* Mutant: the cancel func is taken without the ok of the map lookup.      *)
RegisteredUnchecked(w) == TRUE
Registered(w) == running[w] # None
Running == {w \in WorkItems : Registered(w)}
InQueue(w) == \E i \in 1..Len(queue) : queue[i] = w
Without(q, i) == SubSeq(q, 1, i - 1) \o SubSeq(q, i + 1, Len(q))

(* dispatch is the only holder of s.mu that takes several steps.           *)
Unlocked == loop # "dispatch"

(* The context of a run is a child of the one given to Start.              *)
Cancelled(g) == g \in cancelled \/ stopped

(* Mutant: a dependency that has started counts.                           *)
DependenciesStarted(w) ==
  \A d \in DependsOn[w] : status[d] \notin {"open", "accepted"}
DependenciesSatisfied(w) == \A d \in DependsOn[w] : status[d] = "completed"

SetStatus(w, s) == status' = [status EXCEPT ![w] = s]

(***************************************************************************)
(* Start: the scheduler loop.                                              *)
(***************************************************************************)
(* Mutant of HasCapacity: off by one.                                      *)
HasCapacityOrOne == Cardinality(Running) <= MaxConcurrent
HasCapacity == Cardinality(Running) < MaxConcurrent

DispatchOne ==
  /\ loop = "dispatch"
  /\ queue # <<>> /\ HasCapacity
  /\ \E g \in Runners :
       /\ rpc[g] = "idle"
       /\ rpc' = [rpc EXCEPT ![g] = "start"]
       /\ rwi' = [rwi EXCEPT ![g] = Head(queue)]
       /\ running' = [running EXCEPT ![Head(queue)] = g]
  /\ queue' = Tail(queue)
  /\ UNCHANGED <<status, closed, stopped, notify, loop, cancelled, todo, dep,
                 procVars, recVars, auxVars>>

DispatchEnd ==
  /\ loop = "dispatch"
  /\ queue = <<>> \/ ~HasCapacity
  /\ loop' = "select"
  /\ UNCHANGED <<status, queue, running, closed, stopped, notify, runnerVars,
                 procVars, recVars, auxVars>>

(* The select may take the token even when the context is cancelled too.   *)
Wake ==
  /\ loop = "select" /\ notify
  /\ notify' = FALSE
  /\ loop' = "dispatch"
  /\ UNCHANGED <<status, queue, running, closed, stopped, runnerVars,
                 procVars, recVars, auxVars>>

(* ctx.Done: drainRunning cancels every registered run (their contexts are *)
(* cancelled already) and polls until the map is empty.                    *)
BeginDrain ==
  /\ loop = "select" /\ stopped
  /\ loop' = "drain"
  /\ cancelled' = cancelled \cup {running[w] : w \in Running}
  /\ UNCHANGED <<status, queue, running, closed, stopped, notify, rpc, rwi,
                 todo, dep, procVars, recVars, auxVars>>

DrainDone ==
  /\ loop = "drain" /\ Running = {}
  /\ loop' = "exited"
  /\ UNCHANGED <<status, queue, running, closed, stopped, notify, runnerVars,
                 procVars, recVars, auxVars>>

(***************************************************************************)
(* runWorkItem, with engine.Run reduced to its writes of the status.  A    *)
(* store call made under a cancelled context fails.                        *)
(***************************************************************************)
Goto(g, l) == rpc' = [rpc EXCEPT ![g] = l]
RunnerOnly == UNCHANGED <<loopVars, procVars, recVars, auxVars>>

(* engine.Run up to the workspace: any refusal is an error before the item *)
(* has left its status.                                                    *)
RunStart(g) ==
  /\ rpc[g] = "start"
  /\ IF /\ ~Cancelled(g)
        /\ status[rwi[g]] \in Runnable
        /\ rwi[g] \in Launchable
       THEN Goto(g, "launch")
       ELSE Goto(g, "failed")
  /\ UNCHANGED <<status, rwi, cancelled, todo, dep>> /\ RunnerOnly

RunLaunch(g) ==
  /\ rpc[g] = "launch"
  /\ IF Cancelled(g)
       THEN Goto(g, "failed") /\ UNCHANGED status
       ELSE Goto(g, "loop") /\ SetStatus(rwi[g], "in_execution")
  /\ UNCHANGED <<rwi, cancelled, todo, dep>> /\ RunnerOnly

(* The actions of the item move its status while it runs.                  *)
RunSync(g) ==
  /\ rpc[g] = "loop" /\ ~Cancelled(g)
  /\ \E s \in MidRun : SetStatus(rwi[g], s)
  /\ UNCHANGED runnerVars /\ RunnerOnly

(* The loop found every action done; it checked the context before that.   *)
RunDone(g) ==
  /\ rpc[g] = "loop" /\ ~Cancelled(g)
  /\ Goto(g, "complete")
  /\ UNCHANGED <<status, rwi, cancelled, todo, dep>> /\ RunnerOnly

(* An action failed, the plan is stuck, or the context was cancelled.      *)
RunFail(g) ==
  /\ rpc[g] = "loop"
  /\ FailStatuses # {} \/ Cancelled(g)
  /\ Goto(g, "terminal")
  /\ UNCHANGED <<status, rwi, cancelled, todo, dep>> /\ RunnerOnly

(* `_ = e.setWorkItemStatus(ctx, id, completed)`: the error is dropped.    *)
RunComplete(g) ==
  /\ rpc[g] = "complete"
  /\ IF Cancelled(g)
       THEN UNCHANGED <<status, everCompleted>>
       ELSE SetStatus(rwi[g], "completed") /\ everCompleted' = everCompleted \cup {rwi[g]}
  /\ todo' = [todo EXCEPT ![g] = {w \in WorkItems : rwi[g] \in DependsOn[w]}]
  /\ Goto(g, "dependents")
  /\ UNCHANGED <<rwi, cancelled, dep, loopVars, procVars, recVars, ops, restarts>>

(* `_ = e.setTerminalFailureState(ctx, id)`.                               *)
RunTerminal(g) ==
  /\ rpc[g] = "terminal"
  /\ \/ Cancelled(g) /\ UNCHANGED status
     \/ ~Cancelled(g) /\ \E s \in FailStatuses : SetStatus(rwi[g], s)
  /\ Goto(g, "failed")
  /\ UNCHANGED <<rwi, cancelled, todo, dep>> /\ RunnerOnly

(* runWorkItem after an error: a cancelled run is recorded with a context  *)
(* of its own.                                                             *)
RunFailed(g) ==
  /\ rpc[g] = "failed"
  /\ IF Cancelled(g) THEN SetStatus(rwi[g], "cancelled") ELSE UNCHANGED status
  /\ Goto(g, "exit")
  /\ UNCHANGED <<rwi, cancelled, todo, dep>> /\ RunnerOnly

(* autoQueueDependents: visit the dependents one by one.                   *)
NextDependent(g) ==
  /\ rpc[g] = "dependents"
  /\ \/ /\ todo[g] = {}
        /\ Goto(g, "exit")
        /\ UNCHANGED <<todo, dep>>
     \/ \E d \in todo[g] :
          /\ todo' = [todo EXCEPT ![g] = @ \ {d}]
          /\ IF DependenciesSatisfied(d)
               THEN dep' = [dep EXCEPT ![g] = d] /\ Goto(g, "depPrepare")
               ELSE UNCHANGED <<dep, rpc>>
  /\ UNCHANGED <<status, rwi, cancelled>> /\ RunnerOnly

DependentPrepare(g) ==
  /\ rpc[g] = "depPrepare"
  /\ IF status[dep[g]] \in Preparable
       THEN SetStatus(dep[g], "queued") /\ Goto(g, "depAppend") /\ UNCHANGED dep
       ELSE /\ Goto(g, "dependents")
            /\ dep' = [dep EXCEPT ![g] = None]
            /\ UNCHANGED status
  /\ UNCHANGED <<rwi, cancelled, todo>> /\ RunnerOnly

DependentAppend(g) ==
  /\ rpc[g] = "depAppend" /\ Unlocked
  /\ queue' = Append(queue, dep[g])
  /\ dep' = [dep EXCEPT ![g] = None]
  /\ Goto(g, "depSignal")
  /\ UNCHANGED <<status, running, closed, stopped, notify, loop, rwi, cancelled,
                 todo, procVars, recVars, auxVars>>

DependentSignal(g) ==
  /\ rpc[g] = "depSignal"
  /\ notify' = TRUE
  /\ Goto(g, "dependents")
  /\ UNCHANGED <<status, queue, running, closed, stopped, loop, rwi, cancelled,
                 todo, dep, procVars, recVars, auxVars>>

(* Mutant: a cancelled run returns before it has deleted its entry.        *)
RunExitKeepsEntry(g) ==
  /\ rpc[g] = "exit" /\ Unlocked
  /\ running' = [running EXCEPT ![rwi[g]] = IF Cancelled(g) THEN @ ELSE None]
  /\ Goto(g, "signal")
  /\ UNCHANGED <<status, queue, closed, stopped, notify, loop, rwi, cancelled,
                 todo, dep, procVars, recVars, auxVars>>

(* The deferred cleanup deletes the map entry by work item, whoever owns   *)
(* it, and pokes the loop after the unlock.                                *)
RunExit(g) ==
  /\ rpc[g] = "exit" /\ Unlocked
  /\ running' = [running EXCEPT ![rwi[g]] = None]
  /\ Goto(g, "signal")
  /\ UNCHANGED <<status, queue, closed, stopped, notify, loop, rwi, cancelled,
                 todo, dep, procVars, recVars, auxVars>>

(* Mutant: the finished run does not poke the loop.                        *)
RunSignalForgotten(g) ==
  /\ rpc[g] = "signal"
  /\ Goto(g, "idle")
  /\ rwi' = [rwi EXCEPT ![g] = None]
  /\ cancelled' = cancelled \ {g}
  /\ UNCHANGED <<status, loopVars, todo, dep, procVars, recVars, auxVars>>

RunSignal(g) ==
  /\ rpc[g] = "signal"
  /\ notify' = TRUE
  /\ Goto(g, "idle")
  /\ rwi' = [rwi EXCEPT ![g] = None]
  /\ cancelled' = cancelled \ {g}
  /\ UNCHANGED <<status, queue, running, closed, stopped, loop, todo, dep,
                 procVars, recVars, auxVars>>

RunnerStep(g) ==
  \/ RunStart(g) \/ RunLaunch(g) \/ RunDone(g) \/ RunFail(g) \/ RunComplete(g)
  \/ RunTerminal(g) \/ RunFailed(g) \/ NextDependent(g) \/ DependentPrepare(g)
  \/ DependentAppend(g) \/ DependentSignal(g) \/ RunExit(g) \/ RunSignal(g)

(***************************************************************************)
(* Submit.  Home is where a caller goes when its call returns: a client is *)
(* free again, the recovery takes its next work item.                      *)
(***************************************************************************)
Home(p) == IF p = Recoverer THEN "item" ELSE "idle"
Step(p, l) == pc' = [pc EXCEPT ![p] = l]
Return(p) ==
  /\ Step(p, Home(p))
  /\ wi' = [wi EXCEPT ![p] = None]
  /\ seen' = [seen EXCEPT ![p] = None]
ProcOnly == UNCHANGED <<loopVars, runnerVars, recVars, auxVars>>

StartCall(c) ==
  /\ pc[c] = "idle" /\ pc[Recoverer] = "finished" /\ Unlocked
  /\ ops < MaxOps
  /\ ops' = ops + 1

(* The closed check and GetWorkItem.                                       *)
SubmitBegin(c, w) ==
  /\ StartCall(c)
  /\ ~closed
  /\ Step(c, "deps")
  /\ wi' = [wi EXCEPT ![c] = w]
  /\ seen' = [seen EXCEPT ![c] = status[w]]
  /\ UNCHANGED <<status, loopVars, runnerVars, recVars, restarts, everCompleted>>

SubmitCheckDependencies(p) ==
  /\ pc[p] = "deps"
  /\ Step(p, IF DependenciesSatisfied(wi[p]) THEN "prepare" ELSE "hold")
  /\ UNCHANGED <<status, wi, seen>> /\ ProcOnly

(* The hold is an unconditional UPDATE chosen from the status read before. *)
SubmitHold(p) ==
  /\ pc[p] = "hold"
  /\ SetStatus(wi[p], IF seen[p] \in {"open", "accepted"}
                        THEN "accepted" ELSE "pending_execution")
  /\ Return(p) /\ ProcOnly

(* PrepareWorkItemRun: UPDATE ... WHERE status IN (...); no row, no queue. *)
SubmitPrepare(p) ==
  /\ pc[p] = "prepare"
  /\ IF status[wi[p]] \in Preparable
       THEN SetStatus(wi[p], "queued") /\ Step(p, "append") /\ UNCHANGED <<wi, seen>>
       ELSE Return(p) /\ UNCHANGED status
  /\ ProcOnly

SubmitAppend(p) ==
  /\ pc[p] = "append" /\ Unlocked
  /\ queue' = Append(queue, wi[p])
  /\ Step(p, "signal")
  /\ UNCHANGED <<status, running, closed, stopped, notify, loop, runnerVars,
                 wi, seen, recVars, auxVars>>

SubmitSignal(p) ==
  /\ pc[p] = "signal"
  /\ notify' = TRUE
  /\ Return(p)
  /\ UNCHANGED <<status, queue, running, closed, stopped, loop, runnerVars,
                 recVars, auxVars>>

(***************************************************************************)
(* Cancel.                                                                 *)
(***************************************************************************)
(* Under s.mu: take the first entry out of the queue, or find the cancel   *)
(* func of the running entry, or neither.                                  *)
CancelBegin(c, w) ==
  /\ StartCall(c)
  /\ \/ \E i \in 1..Len(queue) :
          /\ queue[i] = w /\ \A j \in 1..(i - 1) : queue[j] # w
          /\ queue' = Without(queue, i)
          /\ Step(c, "cancelQueued")
          /\ wi' = [wi EXCEPT ![c] = w]
          /\ UNCHANGED cancelled
     \/ /\ ~InQueue(w) /\ Registered(w)
        /\ cancelled' = cancelled \cup {running[w]}
        /\ UNCHANGED <<queue, pc, wi>>
     \/ /\ ~InQueue(w) /\ ~Registered(w)
        /\ Step(c, "cancelRead")
        /\ wi' = [wi EXCEPT ![c] = w]
        /\ UNCHANGED <<queue, cancelled>>
  /\ UNCHANGED <<status, running, closed, stopped, notify, loop, rpc, rwi, todo,
                 dep, seen, recVars, restarts, everCompleted>>

(* Mutant: the entry is dropped and the status left as it was.             *)
CancelQueuedUnwritten(c) ==
  /\ pc[c] = "cancelQueued"
  /\ UNCHANGED status
  /\ Return(c) /\ ProcOnly

CancelQueued(c) ==
  /\ pc[c] = "cancelQueued"
  /\ SetStatus(wi[c], "cancelled")
  /\ Return(c) /\ ProcOnly

(* engine.Cancel: read, check the table, write.                            *)
CancelRead(c) ==
  /\ pc[c] = "cancelRead"
  /\ IF ValidWorkItemTransition(status[wi[c]], "cancelled")
       THEN Step(c, "cancelWrite") /\ UNCHANGED <<wi, seen>>
       ELSE Return(c)
  /\ UNCHANGED status /\ ProcOnly

CancelWrite(c) ==
  /\ pc[c] = "cancelWrite"
  /\ SetStatus(wi[c], "cancelled")
  /\ Return(c) /\ ProcOnly

(***************************************************************************)
(* Recovery: RecoverInterruptedWorkItems (local sessions) or               *)
(* RecoverQueuedWorkItems (NATS), by RecoverStatuses.                      *)
(***************************************************************************)
RecoveryList ==
  /\ pc[Recoverer] = "list"
  /\ IF rk > Len(RecoverStatuses)
       THEN Step(Recoverer, "finished") /\ UNCHANGED recVars
       ELSE /\ rtodo' = {w \in WorkItems : status[w] = RecoverStatuses[rk]}
            /\ rk' = rk + 1
            /\ Step(Recoverer, "item")
            /\ UNCHANGED rseen
  /\ UNCHANGED <<status, loopVars, runnerVars, wi, seen, auxVars>>

RecoveryItem ==
  /\ pc[Recoverer] = "item"
  /\ \/ /\ rtodo \subseteq rseen
        /\ Step(Recoverer, "list")
        /\ rtodo' = {}
        /\ UNCHANGED <<wi, rseen>>
     \/ \E w \in rtodo \ rseen :
          /\ Step(Recoverer, "reset")
          /\ wi' = [wi EXCEPT ![Recoverer] = w]
          /\ rseen' = rseen \cup {w}
          /\ rtodo' = rtodo \ {w}
  /\ UNCHANGED <<status, loopVars, runnerVars, seen, rk, auxVars>>

(* recoverWorkItem: whatever the item's status is by now.                  *)
RecoveryReset ==
  /\ pc[Recoverer] = "reset"
  /\ SetStatus(wi[Recoverer], "pending_execution")
  /\ Step(Recoverer, "read")
  /\ UNCHANGED <<wi, seen>> /\ ProcOnly

(* The Submit that recoverWorkItem ends with.                              *)
RecoverySubmit ==
  /\ pc[Recoverer] = "read" /\ Unlocked
  /\ IF closed
       THEN Return(Recoverer)
       ELSE /\ Step(Recoverer, "deps")
            /\ seen' = [seen EXCEPT ![Recoverer] = status[wi[Recoverer]]]
            /\ UNCHANGED wi
  /\ UNCHANGED status /\ ProcOnly

ProcStep(p) ==
  \/ SubmitCheckDependencies(p) \/ SubmitHold(p) \/ SubmitPrepare(p)
  \/ SubmitAppend(p) \/ SubmitSignal(p)
RecoveryStep == RecoveryList \/ RecoveryItem \/ RecoveryReset \/ RecoverySubmit
CancelStep(c) == CancelQueued(c) \/ CancelRead(c) \/ CancelWrite(c)

(***************************************************************************)
(* The process: the cleanup of bootstrap_lifecycle.go, and restarts.       *)
(***************************************************************************)
(* schedulerStop cancels the context of Start and of every run.            *)
SchedulerStop ==
  /\ pc[Recoverer] = "finished" /\ ~stopped /\ restarts < MaxRestarts
  /\ stopped' = TRUE
  /\ UNCHANGED <<status, queue, running, closed, notify, loop, runnerVars,
                 procVars, recVars, auxVars>>

Shutdown ==
  /\ stopped /\ ~closed /\ Unlocked
  /\ closed' = TRUE
  /\ UNCHANGED <<status, queue, running, stopped, notify, loop, runnerVars,
                 procVars, recVars, auxVars>>

(* The process dies, at any point or after Shutdown has returned, and is   *)
(* started again: only the store is left, and the recovery runs first.     *)
Restart ==
  /\ restarts < MaxRestarts
  /\ restarts' = restarts + 1
  /\ queue' = <<>> /\ running' = [w \in WorkItems |-> None]
  /\ closed' = FALSE /\ stopped' = FALSE /\ notify' = FALSE /\ loop' = "dispatch"
  /\ rpc' = [g \in Runners |-> "idle"] /\ rwi' = [g \in Runners |-> None]
  /\ cancelled' = {} /\ todo' = [g \in Runners |-> {}] /\ dep' = [g \in Runners |-> None]
  /\ pc' = [p \in Procs |-> IF p = Recoverer THEN "list" ELSE "idle"]
  /\ wi' = [p \in Procs |-> None] /\ seen' = [p \in Procs |-> None]
  /\ rk' = 1 /\ rtodo' = {} /\ rseen' = {}
  /\ UNCHANGED <<status, ops, everCompleted>>

-----------------------------------------------------------------------------
Init ==
  /\ status = [w \in WorkItems |-> "open"]
  /\ queue = <<>> /\ running = [w \in WorkItems |-> None]
  /\ closed = FALSE /\ stopped = FALSE /\ notify = FALSE /\ loop = "dispatch"
  /\ rpc = [g \in Runners |-> "idle"] /\ rwi = [g \in Runners |-> None]
  /\ cancelled = {} /\ todo = [g \in Runners |-> {}] /\ dep = [g \in Runners |-> None]
  /\ pc = [p \in Procs |-> IF p = Recoverer THEN "finished" ELSE "idle"]
  /\ wi = [p \in Procs |-> None] /\ seen = [p \in Procs |-> None]
  /\ rk = 1 /\ rtodo = {} /\ rseen = {}
  /\ ops = 0 /\ restarts = 0 /\ everCompleted = {}

LoopStep == DispatchOne \/ DispatchEnd \/ Wake \/ BeginDrain \/ DrainDone

Next ==
  \/ LoopStep
  \/ \E g \in Runners : RunnerStep(g) \/ RunSync(g)
  \/ \E p \in Procs : ProcStep(p)
  \/ \E c \in Clients : CancelStep(c)
  \/ \E c \in Clients, w \in WorkItems : SubmitBegin(c, w) \/ CancelBegin(c, w)
  \/ RecoveryStep
  \/ SchedulerStop \/ Shutdown \/ Restart

Spec == Init /\ [][Next]_vars

(* The Go scheduler runs every goroutine that can take a step, and every   *)
(* run ends: executors return, at the latest when their context does.      *)
Fairness ==
  /\ WF_vars(LoopStep)
  /\ \A g \in Runners : WF_vars(RunnerStep(g))
  /\ \A p \in Procs : WF_vars(ProcStep(p))
  /\ \A c \in Clients : WF_vars(CancelStep(c))
  /\ WF_vars(RecoveryStep)
  /\ WF_vars(Shutdown)

FairSpec == Spec /\ Fairness

-----------------------------------------------------------------------------
TypeOK ==
  /\ status \in [WorkItems -> WorkItemStatus]
  /\ queue \in Seq(WorkItems)
  /\ running \in [WorkItems -> Runners \cup {None}]
  /\ closed \in BOOLEAN /\ stopped \in BOOLEAN /\ notify \in BOOLEAN
  /\ loop \in LoopPC
  /\ rpc \in [Runners -> RunnerPC]
  /\ rwi \in [Runners -> WorkItems \cup {None}]
  /\ cancelled \in SUBSET Runners
  /\ todo \in [Runners -> SUBSET WorkItems]
  /\ dep \in [Runners -> WorkItems \cup {None}]
  /\ \A g \in Runners : rpc[g] \in {"depPrepare", "depAppend"} => dep[g] # None
  /\ pc \in [Procs -> ProcPC]
  /\ wi \in [Procs -> WorkItems \cup {None}]
  /\ \A p \in Procs : pc[p] \notin AtRest => wi[p] # None
  /\ seen \in [Procs -> WorkItemStatus \cup {None}]
  /\ rk \in Nat \ {0} /\ rtodo \in SUBSET WorkItems /\ rseen \in SUBSET WorkItems
  /\ ops \in Nat /\ restarts \in Nat

(* Inside engine.Run, and inside runWorkItem up to its deferred cleanup.    *)
InEngine(g) == rpc[g] \in {"start", "launch", "loop", "complete", "terminal"}
Live(g) == rpc[g] \notin {"idle", "signal"}

(* s.running never holds more work items than maxConcurrent, whatever      *)
(* Submit, Cancel, recovery and finishing runs do between two dispatches.  *)
CapacityRespected == Cardinality(Running) <= MaxConcurrent

(* A goroutine that will still send on s.notify: it has appended to the    *)
(* queue or deleted from the map and not signalled yet.                    *)
SignalComing ==
  \/ \E g \in Runners : rpc[g] \in {"depSignal", "signal"}
  \/ \E p \in Procs : pc[p] = "signal"

(* No lost wakeup: the loop never sleeps on a queue it could dispatch from *)
(* unless a token is in the channel or on its way.  The one-slot channel   *)
(* and the non-blocking send of signal make this far from obvious.         *)
NoLostWakeup ==
  loop = "select" /\ queue # <<>> /\ Cardinality(Running) < MaxConcurrent
    => notify \/ SignalComing

(* Somebody is still going to act on a queued work item: a goroutine       *)
(* between the UPDATE and the append or between its removal from the queue *)
(* and the write, a run that has not started or is being cancelled, or the *)
(* recovery; or it is in the queue.                                        *)
CallerTracks(p, w) == wi[p] = w /\ pc[p] \in {"append", "cancelQueued", "reset"}
RunnerTracks(g, w) ==
  \/ dep[g] = w /\ rpc[g] = "depAppend"
  \/ rwi[g] = w /\ rpc[g] \in {"start", "launch"}
  \/ rwi[g] = w /\ rpc[g] = "failed" /\ Cancelled(g)
RecoveryTracks(w) ==
  \/ w \in rtodo \ rseen
  \/ pc[Recoverer] = "list" /\ rk = 1
Tracked(w) ==
  \/ InQueue(w)
  \/ \E p \in Procs : CallerTracks(p, w)
  \/ \E g \in Runners : RunnerTracks(g, w)
  \/ RecoveryTracks(w)

(* A launchable work item is never left behind in status queued, where no  *)
(* call but Cancel could take it out again.                                *)
QueuedIsTracked == \A w \in Launchable : status[w] = "queued" => Tracked(w)

(* The work items with a live run, not the map entries, are what the limit *)
(* is about ("max work items running in parallel", flow_scheduler.go:26).  *)
Executing == {rwi[g] : g \in {h \in Runners : InEngine(h)}}
LiveRunsWithinLimit == Cardinality(Executing) <= MaxConcurrent

(* A cancelled run ends in a status the goroutine chose ("will handle      *)
(* state transition to cancelled/failed", flow_scheduler.go:179): no item  *)
(* stays in_execution without a run or a recovery to come.                 *)
InExecutionHasRun ==
  \A w \in WorkItems :
    status[w] = "in_execution" =>
      \/ \E g \in Runners : Live(g) /\ rwi[g] = w
      \/ pc[Recoverer] # "finished"

(* Recovery resets what "was running or queued when the process last        *)
(* stopped" (recovery.go:10), never an item that a goroutine of this        *)
(* process is running.                                                      *)
RecoveryTakesDeadItems ==
  \A g \in Runners :
    pc[Recoverer] = "reset" /\ InEngine(g) => rwi[g] # wi[Recoverer]

(* However an item comes to be run (a call, the end of a dependency, the   *)
(* recovery), each of its dependencies has been completed before; a call   *)
(* that read their status earlier may have overwritten it since.           *)
Ready(w) == DependsOn[w] \subseteq everCompleted
RunsAfterDependencies == \A g \in Runners : InEngine(g) => Ready(rwi[g])

(* Whatever else happens, a queued launchable item gets out of that status: *)
(* it is dispatched or cancelled, unless the scheduler stops.               *)
QueuedLeaves ==
  \A w \in Launchable : status[w] = "queued" ~> (status[w] # "queued" \/ stopped)

(* An item held for its dependencies is queued by the run that completes    *)
(* the last of them.                                                        *)
DependentsFollow ==
  \A g \in Runners, w \in WorkItems :
    (rpc[g] = "dependents" /\ w \in todo[g]
      /\ status[w] = "accepted" /\ \A d \in DependsOn[w] : status[d] = "completed")
        ~> \/ status[w] # "accepted" \/ restarts > 0
           \/ \E d \in DependsOn[w] : status[d] # "completed"

(* Shutdown returns: once its context is cancelled the loop ends, whatever  *)
(* was queued or running.                                                   *)
ShutdownCompletes == stopped ~> (loop = "exited" \/ ~stopped)
=============================================================================
