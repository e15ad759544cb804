---------------------------- MODULE WorkItemEngine ----------------------------
(***************************************************************************)
(* The engine that executes one work item                                  *)
(* (internal/application/flow: engine.go, pipeline.go, gate.go,            *)
(* composite.go, recovery.go), with the people and agents who signal its   *)
(* actions, rerun it and cancel it.                                        *)
(*                                                                         *)
(* Run lists the actions, promotes those whose predecessors are done,      *)
(* dispatches every ready one to a goroutine and waits for all of them     *)
(* before it lists again.  The rows in the store (status, retries, signal  *)
(* counts, the latest run) survive a crash; the loops, the goroutines and  *)
(* the copies of the rows they work on do not.                             *)
(*                                                                         *)
(* The scheduler only asks the store whether a work item may be queued, so *)
(* a second loop can start while a first one still runs: Engines are the   *)
(* scheduler's slots.                                                      *)
(***************************************************************************)
EXTENDS Lifecycle, ActionDag, FiniteSetsExt

CONSTANTS
  Gates, Plans,      \* the actions of type gate and of type plan
  MaxRetries,        \* action -> max_retries
  MaxReworkRounds,   \* gate -> max_rework_rounds
  ClosureGates,      \* the gates configured with reset_upstream_closure
  Engines,           \* slots of the scheduler: loops that may run at once
  Concurrency,       \* the semaphore's limit
  Unblockers, Rerunners,   \* requests of either kind that may be under way
  Outcomes,          \* how an executor can end other than well
  Verdicts,          \* what a gate can be told without a signal: its
                     \* deliverable's verdict, or a failed manifest check
  Merges,            \* how merging the pull request can end
  Decisions,         \* what people and agents can signal on a gate
  Faults,            \* engine steps that can fail: subset of FaultKinds
  MaxSignals, MaxUnblocks, MaxReruns, MaxCancels, MaxCrashes,   \* bounds
  None

Callers == Unblockers \cup Rerunners
OutcomeKinds == {"transient", "permanent", "need_help", "help_signal"}
FaultKinds == {"prepare", "persist", "expand"}

ASSUME EngineAssumption ==
  /\ Gates \subseteq Actions /\ Plans \subseteq Actions \ Gates
  /\ MaxRetries \in [Actions -> Nat]
  /\ MaxReworkRounds \in [Gates -> Nat \ {0}]
  /\ ClosureGates \subseteq Gates
  /\ IsFiniteSet(Engines) /\ None \notin Engines
  /\ Concurrency \in Nat \ {0}
  /\ Unblockers \cap Rerunners = {}
  /\ Outcomes \subseteq OutcomeKinds
  /\ Verdicts \subseteq {"pass", "reject", "manifest"}
  /\ Merges \subseteq {"merged", "conflict", "refused"}
  /\ Decisions \subseteq {"approve", "reject"}
  /\ Faults \subseteq FaultKinds
  /\ {MaxSignals, MaxUnblocks, MaxReruns, MaxCancels, MaxCrashes} \subseteq Nat

VARIABLES
  item,        \* the work item's status in the store
  status,      \* actions.status
  retries,     \* actions.retry_count
  runRow,      \* the status of the action's latest run row
  latest,      \* gate -> its latest approve or reject signal
  rounds,      \* gate -> reject signals recorded by the engine (system)
  rejections,  \* gate -> reject signals recorded by people and agents
  owed,        \* history: <<g, t>> where g rejected t and t is not redone
  up,          \* the process runs
  registered,  \* the loop whose cancel func the scheduler holds
  cancelled,   \* loops whose context is cancelled
  pc,          \* where each loop is
  batch,       \* the runnable actions the loop has still to dispatch
  failed,      \* runErr: some goroutine of the batch returned an error
  stage,       \* where each loop's goroutine of each action is
  copy,        \* the retry count in the loop's in-memory copy of the action
  todo,        \* the actions a rejecting gate has still to reset
  queue,       \* entries of the work item in the scheduler's queue
  busy,        \* the requests that have read rows and not yet answered
  held,        \* request -> the actions whose rows it has still to write
  old,         \* request -> their retry counts as it read them
  overtaken,   \* history: a request wrote a row that had moved on meanwhile
  used         \* how often each bounded outside event has happened

rowVars == <<status, retries, runRow, latest, rounds, rejections>>
memVars == <<registered, cancelled, pc, batch, failed, stage, copy, todo>>
apiVars == <<busy, held, old, overtaken, used>>
vars == <<item, rowVars, owed, up, queue, memVars, apiVars>>

LoopPC == {"idle", "list", "dispatch", "acquire", "succeed", "fail"}
Stage ==
  {"none", "prepare", "execute", "evaluate", "merge", "reject", "reset", "child"}
Resting == {"completed", "needs_rework", "escalated", "cancelled"}
Events == {"signal", "unblock", "rerun", "cancel", "crash"}

(* Goroutines that hold a slot of the semaphore: composites hold none.     *)
Held == {h \in Engines \X (Actions \ Plans) : stage[h[1]][h[2]] # "none"}
Goroutines(r) == {a \in Actions : stage[r][a] # "none"}

SetStatus(a, s) == status' = [status EXCEPT ![a] = s]
SetStage(r, a, s) == stage' = [stage EXCEPT ![r][a] = s]
Use(e, bound) == used[e] < bound /\ used' = [used EXCEPT ![e] = @ + 1]

(* A store call made with a cancelled context fails.                       *)
Working(r) == up /\ r \notin cancelled

(* syncWorkItemStateForAction: what a transition does to the work item.    *)
Synced(a, s) ==
  CASE a \in Gates /\ s \in {"ready", "running"} -> "pending_review"
    [] s = "running" -> "in_execution"
    [] s = "blocked" -> "escalated"
    [] s = "failed" -> "needs_rework"
    [] OTHER -> item

(* transitionAction, from the status in the loop's copy of the action.     *)
Transition(from, a, to) ==
  /\ ValidActionTransition(from, to)
  /\ SetStatus(a, to)
  /\ item' = Synced(a, to)

(***************************************************************************)
(* Run and scheduleLoop.                                                   *)
(***************************************************************************)
AllFinished == \A a \in Actions : status[a] \in {"done", "cancelled"}
AnyFailed == \E a \in Actions : status[a] = "failed"
(* Mutant: a predecessor that has started counts.                          *)
PromotableStarted ==
  {a \in Actions : /\ status[a] = "pending"
                   /\ \A b \in Predecessors(a) : status[b] # "pending"}
PromotableActions ==
  {a \in Actions : /\ status[a] = "pending"
                   /\ \A b \in Predecessors(a) : status[b] = "done"}
RunnableActions == {a \in Actions : status[a] = "ready"} \cup PromotableActions

MakeReady(S) ==
  status' = [a \in Actions |-> IF a \in S THEN "ready" ELSE status[a]]
(* A gate made ready pulls the work item into review.                      *)
ItemAfterReady(S, before) ==
  IF S \cap Gates = {} THEN before ELSE "pending_review"

(* The scheduler takes the work item from its queue; Run starts it and     *)
(* makes its pending entry actions ready.                                  *)
Launch(r) ==
  LET entries == {a \in EntryActions : status[a] = "pending"} IN
  /\ up /\ queue > 0
  /\ pc[r] = "idle" /\ Goroutines(r) = {}
  /\ item \in Runnable
  /\ queue' = queue - 1
  /\ registered' = r
  /\ cancelled' = cancelled \ {r}
  /\ item' = ItemAfterReady(entries, "in_execution")
  /\ MakeReady(entries)
  /\ pc' = [pc EXCEPT ![r] = "list"]
  /\ failed' = [failed EXCEPT ![r] = FALSE]
  /\ UNCHANGED <<retries, runRow, latest, rounds, rejections, owed, up, batch,
                 stage, copy, todo, apiVars>>

(* Run refuses a work item that left the runnable statuses in the queue.   *)
LaunchRefused(r) ==
  /\ up /\ queue > 0
  /\ pc[r] = "idle" /\ Goroutines(r) = {}
  /\ item \notin Runnable
  /\ queue' = queue - 1
  /\ registered' = None
  /\ UNCHANGED <<item, rowVars, owed, up, cancelled, pc, batch, failed, stage,
                 copy, todo, apiVars>>

(* A turn of the loop that ends it.  A turn that only waits for actions    *)
(* running elsewhere (waitForWorkItemProgress) polls and changes nothing.  *)
LoopEnds(r) ==
  LET active == \E a \in Actions : status[a] \in {"running", "waiting_gate"}
      stuck == RunnableActions = {} /\ ~active
  IN
  /\ Working(r) /\ pc[r] = "list"
  /\ AllFinished \/ AnyFailed \/ stuck
  /\ pc' = [pc EXCEPT ![r] = IF AllFinished THEN "succeed" ELSE "fail"]
  /\ UNCHANGED <<item, rowVars, owed, up, queue, registered, cancelled, batch,
                 failed, stage, copy, todo, apiVars>>

(* A turn that promotes, and takes every ready action as its batch.        *)
LoopPromotes(r) ==
  /\ Working(r) /\ pc[r] = "list"
  /\ ~AnyFailed /\ RunnableActions # {}
  /\ MakeReady(PromotableActions)
  /\ item' = ItemAfterReady(PromotableActions, item)
  /\ batch' = [batch EXCEPT ![r] = RunnableActions]
  /\ copy' = [copy EXCEPT ![r] =
                [a \in Actions |-> IF a \in RunnableActions THEN retries[a] ELSE @[a]]]
  /\ pc' = [pc EXCEPT ![r] = "dispatch"]
  /\ UNCHANGED <<retries, runRow, latest, rounds, rejections, owed, up, queue,
                 registered, cancelled, failed, stage, todo, apiVars>>

(* The next action of the batch runs.  A plan gets its goroutine at once,  *)
(* any other one when the loop has taken a slot of the semaphore for it.   *)
Dispatch(r) ==
  LET a == Min(batch[r]) IN
  /\ Working(r) /\ pc[r] = "dispatch" /\ batch[r] # {}
  /\ Transition("ready", a, "running")
  /\ IF a \in Plans
       THEN /\ SetStage(r, a, "child")
            /\ batch' = [batch EXCEPT ![r] = @ \ {a}]
            /\ UNCHANGED pc
       ELSE /\ pc' = [pc EXCEPT ![r] = "acquire"]
            /\ UNCHANGED <<stage, batch>>
  /\ UNCHANGED <<retries, runRow, latest, rounds, rejections, owed, up, queue,
                 registered, cancelled, failed, copy, todo, apiVars>>

(* Acquire does not look at the context.                                   *)
Acquire(r) ==
  LET a == Min(batch[r]) IN
  /\ up /\ pc[r] = "acquire"
  /\ Cardinality(Held) < Concurrency
  /\ SetStage(r, a, "prepare")
  /\ batch' = [batch EXCEPT ![r] = @ \ {a}]
  /\ pc' = [pc EXCEPT ![r] = "dispatch"]
  /\ UNCHANGED <<item, rowVars, owed, up, queue, registered, cancelled, failed,
                 copy, todo, apiVars>>

(* wg.Wait, then the first error of the batch ends the loop.               *)
Barrier(r) ==
  /\ up /\ pc[r] = "dispatch" /\ batch[r] = {}
  /\ Goroutines(r) = {}
  /\ pc' = [pc EXCEPT ![r] = IF failed[r] THEN "fail" ELSE "list"]
  /\ failed' = [failed EXCEPT ![r] = FALSE]
  /\ UNCHANGED <<item, rowVars, owed, up, queue, registered, cancelled, batch,
                 stage, copy, todo, apiVars>>

(* A cancelled loop returns at its next store call, waiting for nobody.    *)
LoopAborts(r) ==
  /\ up /\ r \in cancelled
  /\ pc[r] = "list" \/ (pc[r] = "dispatch" /\ batch[r] # {})
  /\ pc' = [pc EXCEPT ![r] = "fail"]
  /\ batch' = [batch EXCEPT ![r] = {}]
  /\ UNCHANGED <<item, rowVars, owed, up, queue, registered, cancelled, failed,
                 stage, copy, todo, apiVars>>

(* Run returns: it records the outcome, which it cannot when its context   *)
(* is cancelled; the scheduler marks a cancelled run's item when Run has   *)
(* returned an error.                                                      *)
(* Mutants: the legacy status; the blocked actions forgotten.              *)
TerminalFailureLegacy ==
  IF \E a \in Actions : status[a] \in {"blocked", "waiting_gate"}
    THEN "escalated" ELSE "failed"
TerminalFailureFlat == "needs_rework"
TerminalFailureState ==
  IF \E a \in Actions : status[a] \in {"blocked", "waiting_gate"}
    THEN "escalated" ELSE "needs_rework"

RunReturns(r) ==
  /\ up /\ pc[r] \in {"succeed", "fail"}
  /\ item' = IF pc[r] = "succeed"
               THEN IF r \in cancelled THEN item ELSE "completed"
               ELSE IF r \in cancelled THEN "cancelled" ELSE TerminalFailureState
  /\ pc' = [pc EXCEPT ![r] = "idle"]
  /\ registered' = None
  /\ UNCHANGED <<rowVars, owed, up, queue, cancelled, batch, failed, stage, copy,
                 todo, apiVars>>

LoopStep(r) ==
  \/ Launch(r) \/ LaunchRefused(r)
  \/ LoopEnds(r) \/ LoopPromotes(r) \/ Dispatch(r) \/ Acquire(r) \/ Barrier(r)
  \/ LoopAborts(r) \/ RunReturns(r)

(***************************************************************************)
(* executeAction, in the goroutine of action a in loop r.  The action's    *)
(* copy in memory says running for as long as the goroutine lives.         *)
(***************************************************************************)
Ends(r, a) ==
  /\ SetStage(r, a, "none")
  /\ copy' = [copy EXCEPT ![r][a] = 0]
  /\ todo' = [todo EXCEPT ![r][a] = {}]
(* It returns nil, or an error the barrier will see.                       *)
Returns(r, a) == Ends(r, a) /\ UNCHANGED failed
ReturnsError(r, a) == Ends(r, a) /\ failed' = [failed EXCEPT ![r] = TRUE]

SetRun(a, s) == runRow' = [runRow EXCEPT ![a] = s]
Redone(a) == owed' = {o \in owed : o[2] # a}

loopVars == <<up, queue, registered, cancelled, pc, batch>>
signalVars == <<latest, rounds, rejections>>

(* No agent, no input or no run row: the action stays running.             *)
PrepareFails(r, a) ==
  /\ Working(r) /\ stage[r][a] = "prepare" /\ "prepare" \in Faults
  /\ ReturnsError(r, a)
  /\ UNCHANGED <<item, rowVars, owed, loopVars, apiVars>>

StartRun(r, a) ==
  /\ Working(r) /\ stage[r][a] = "prepare"
  /\ SetRun(a, "running")
  /\ SetStage(r, a, "execute")
  /\ UNCHANGED <<item, status, retries, signalVars, owed, failed, copy, todo,
                 loopVars, apiVars>>

(* Mutants: the retry is not written to the status, or not counted.        *)
RetryStaysRunning(r, a) ==
  IF copy[r][a] < MaxRetries[a]
    THEN /\ retries' = [retries EXCEPT ![a] = copy[r][a] + 1]
         /\ Returns(r, a)
         /\ UNCHANGED <<item, status>>
    ELSE /\ Transition("running", a, "failed")
         /\ ReturnsError(r, a)
         /\ UNCHANGED retries
RetryUncounted(r, a) ==
  IF copy[r][a] < MaxRetries[a]
    THEN /\ SetStatus(a, "pending")
         /\ Returns(r, a)
         /\ UNCHANGED <<item, retries>>
    ELSE /\ Transition("running", a, "failed")
         /\ ReturnsError(r, a)
         /\ UNCHANGED retries
(* The retry writes the whole row, with the count of the copy.             *)
RetryOrFail(r, a) ==
  IF copy[r][a] < MaxRetries[a]
    THEN /\ retries' = [retries EXCEPT ![a] = copy[r][a] + 1]
         /\ SetStatus(a, "pending")
         /\ Returns(r, a)
         /\ UNCHANGED item
    ELSE /\ Transition("running", a, "failed")
         /\ ReturnsError(r, a)
         /\ UNCHANGED retries

(* handleFailure                                                           *)
ExecutorFails(r, a) ==
  /\ Working(r) /\ stage[r][a] = "execute"
  /\ SetRun(a, "failed")
  /\ \/ /\ "transient" \in Outcomes
        /\ RetryOrFail(r, a)
     \/ /\ "permanent" \in Outcomes
        /\ Transition("running", a, "failed")
        /\ ReturnsError(r, a)
        /\ UNCHANGED retries
     \/ /\ "need_help" \in Outcomes
        /\ Transition("running", a, "blocked")
        /\ Returns(r, a)
        /\ UNCHANGED retries
  /\ UNCHANGED <<signalVars, owed, loopVars, apiVars>>

(* handleSuccess: the run's own need_help signal, an error of the store    *)
(* (the deliverable, or what the gate is evaluated from) that leaves the   *)
(* action running, a gate to evaluate, or an action done.                  *)
ExecutorSucceeds(r, a) ==
  /\ Working(r) /\ stage[r][a] = "execute"
  /\ SetRun(a, "succeeded")
  /\ \/ /\ "help_signal" \in Outcomes
        /\ Transition("running", a, "blocked")
        /\ Returns(r, a)
        /\ UNCHANGED owed
     \/ /\ "persist" \in Faults
        /\ ReturnsError(r, a)
        /\ UNCHANGED <<item, status, owed>>
     \/ /\ a \in Gates
        /\ SetStage(r, a, "evaluate")
        /\ UNCHANGED <<item, status, owed, failed, copy, todo>>
     \/ /\ a \notin Gates
        /\ Transition("running", a, "done")
        /\ Returns(r, a)
        /\ Redone(a)
  /\ UNCHANGED <<retries, signalVars, loopVars, apiVars>>

(* executeComposite: a child work item is expanded and run.                *)
ChildReturns(r, a) ==
  /\ Working(r) /\ stage[r][a] = "child"
  /\ \/ /\ Transition("running", a, "done")
        /\ Returns(r, a)
        /\ Redone(a)
        /\ UNCHANGED retries
     \/ /\ "transient" \in Outcomes
        /\ RetryOrFail(r, a)
        /\ UNCHANGED owed
     \/ /\ "expand" \in Faults
        /\ Transition("running", a, "failed")
        /\ ReturnsError(r, a)
        /\ UNCHANGED <<retries, owed>>
  /\ UNCHANGED <<runRow, signalVars, loopVars, apiVars>>

(***************************************************************************)
(* A gate: finalizeGate, applyGatePass and ProcessGate.                    *)
(***************************************************************************)
(* defaultGateResetTargets, without reject_targets in the metadata.        *)
DefaultResetTargets(g) ==
  IF g \in ClosureGates THEN AllPredecessors(g) ELSE ImmediatePredecessors(g)

Rejects(r, g, targets) ==
  /\ SetStage(r, g, "reject")
  /\ todo' = [todo EXCEPT ![r][g] = targets]
Passes(r, g) == SetStage(r, g, "merge") /\ UNCHANGED todo

(* The latest signal of a person or an agent decides, whatever run it was  *)
(* given for; then the manifest check, where it is enabled and fails; then *)
(* the verdict in the deliverable.  A gate without any of them passes, as  *)
(* does one whose verdict is not reject.                                   *)
Evaluate(r, g) ==
  /\ Working(r) /\ stage[r][g] = "evaluate"
  /\ \/ latest[g] = "approve" /\ Passes(r, g)
     \/ latest[g] = "reject" /\ Rejects(r, g, ImmediatePredecessors(g))
     \/ /\ latest[g] \in {"none", "system"} /\ "manifest" \in Verdicts
        /\ Rejects(r, g, ImmediatePredecessors(g))
     \/ latest[g] \in {"none", "system"} /\ "pass" \in Verdicts /\ Passes(r, g)
     \/ /\ latest[g] \in {"none", "system"} /\ "reject" \in Verdicts
        /\ Rejects(r, g, DefaultResetTargets(g))
  /\ UNCHANGED <<item, rowVars, owed, failed, copy, loopVars, apiVars>>

(* The gate passes when its pull request merges (or none is configured), is *)
(* blocked by a conflict and rejects when the merge is refused.            *)
Merge(r, g) ==
  /\ Working(r) /\ stage[r][g] = "merge"
  /\ \/ /\ "merged" \in Merges
        /\ Transition("running", g, "done")
        /\ Redone(g)
        /\ Returns(r, g)
     \/ /\ "conflict" \in Merges
        /\ Transition("running", g, "blocked")
        /\ Returns(r, g)
        /\ UNCHANGED owed
     \/ /\ "refused" \in Merges
        /\ Rejects(r, g, DefaultResetTargets(g))
        /\ UNCHANGED <<item, status, owed, failed, copy>>
  /\ UNCHANGED <<retries, runRow, signalVars, loopVars, apiVars>>

(* CountActionSignals counts the reject signals of every source.           *)
ReworkCount(g) == rounds[g] + rejections[g]
LimitReached(g) == ReworkCount(g) >= MaxReworkRounds[g]

BlockGate(r, g) ==
  /\ Transition("running", g, "blocked")
  /\ Returns(r, g)

RejectAtLimit(r, g) ==
  /\ Working(r) /\ stage[r][g] = "reject" /\ LimitReached(g)
  /\ BlockGate(r, g)
  /\ UNCHANGED <<retries, runRow, signalVars, owed, loopVars, apiVars>>

RecordReject(r, g) ==
  /\ Working(r) /\ stage[r][g] = "reject" /\ ~LimitReached(g)
  /\ rounds' = [rounds EXCEPT ![g] = @ + 1]
  /\ latest' = [latest EXCEPT ![g] = "system"]
  /\ owed' = owed \cup ({g} \X todo[r][g])
  /\ SetStage(r, g, "reset")
  /\ UNCHANGED <<item, status, retries, runRow, rejections, failed, copy, todo,
                 loopVars, apiVars>>

(* One upstream action goes back to pending, whatever its status is, or    *)
(* its budget is spent and the gate is blocked.                            *)
BudgetOverspent(t) == MaxRetries[t] > 0 /\ retries[t] > MaxRetries[t]   \* mutant
BudgetSpent(t) == MaxRetries[t] > 0 /\ retries[t] >= MaxRetries[t]

(* Mutant: the reset only counts.                                          *)
ResetOnlyCounts(r, g) ==
  LET t == Min(todo[r][g]) IN
  /\ Working(r) /\ stage[r][g] = "reset" /\ todo[r][g] # {}
  /\ IF BudgetSpent(t)
       THEN /\ BlockGate(r, g)
            /\ UNCHANGED retries
       ELSE /\ retries' = [retries EXCEPT ![t] = @ + 1]
            /\ todo' = [todo EXCEPT ![r][g] = @ \ {t}]
            /\ UNCHANGED <<item, status, stage, copy, failed>>
  /\ UNCHANGED <<runRow, signalVars, owed, loopVars, apiVars>>
ResetUpstream(r, g) ==
  LET t == Min(todo[r][g]) IN
  /\ Working(r) /\ stage[r][g] = "reset" /\ todo[r][g] # {}
  /\ IF BudgetSpent(t)
       THEN /\ BlockGate(r, g)
            /\ UNCHANGED retries
       ELSE /\ retries' = [retries EXCEPT ![t] = @ + 1]
            /\ SetStatus(t, "pending")
            /\ todo' = [todo EXCEPT ![r][g] = @ \ {t}]
            /\ UNCHANGED <<item, stage, copy, failed>>
  /\ UNCHANGED <<runRow, signalVars, owed, loopVars, apiVars>>

FinishReject(r, g) ==
  /\ Working(r) /\ stage[r][g] = "reset" /\ todo[r][g] = {}
  /\ SetStatus(g, "pending")
  /\ item' = "needs_rework"
  /\ Returns(r, g)
  /\ UNCHANGED <<retries, runRow, signalVars, owed, loopVars, apiVars>>

(* With a cancelled context no store call succeeds: the goroutine returns  *)
(* an error and leaves the rows as they are.                               *)
GoroutineAborts(r, a) ==
  /\ up /\ r \in cancelled /\ stage[r][a] # "none"
  /\ ReturnsError(r, a)
  /\ UNCHANGED <<item, rowVars, owed, loopVars, apiVars>>

GoroutineStep(r, a) ==
  \/ PrepareFails(r, a) \/ StartRun(r, a)
  \/ ExecutorFails(r, a) \/ ExecutorSucceeds(r, a)
  \/ ChildReturns(r, a)
  \/ Evaluate(r, a) \/ Merge(r, a)
  \/ RejectAtLimit(r, a) \/ RecordReject(r, a)
  \/ ResetUpstream(r, a) \/ FinishReject(r, a)
  \/ GoroutineAborts(r, a)

(***************************************************************************)
(* The API: decisions, unblocking, reruns and cancellation.                *)
(***************************************************************************)
(* A gate that has been started gets a signal, which its next evaluation   *)
(* reads.  actionDecision has seen the gate running or blocked when it     *)
(* looked, the tools of its agent do not look: it may have moved on.       *)
Signal(g) ==
  /\ up /\ (runRow[g] # "none" \/ status[g] \in {"running", "blocked"})
  /\ Use("signal", MaxSignals)
  /\ \E d \in Decisions :
       /\ latest' = [latest EXCEPT ![g] = d]
       /\ rejections' = [rejections EXCEPT ![g] = IF d = "reject" THEN @ + 1 ELSE @]
  /\ UNCHANGED <<item, status, retries, runRow, rounds, owed, up, queue, memVars,
                 busy, held, old, overtaken>>

(* A request reads rows; those of S are what it is going to write back.    *)
Reads(c, S) ==
  /\ up /\ c \notin busy
  /\ busy' = busy \cup {c}
  /\ held' = [held EXCEPT ![c] = S]
  /\ old' = [old EXCEPT ![c] = [a \in Actions |-> IF a \in S THEN retries[a] ELSE 0]]
  /\ UNCHANGED <<item, rowVars, owed, up, queue, memVars, overtaken>>

(* UpdateAction with a row that was read, its status set to pending.       *)
(* Whoever sends a gate back to pending waives the rework it asked for.    *)
WritesBack(c, a) ==
  /\ SetStatus(a, "pending")
  /\ retries' = [retries EXCEPT ![a] = old[c][a]]
  /\ held' = [held EXCEPT ![c] = @ \ {a}]
  /\ old' = [old EXCEPT ![c][a] = 0]
  /\ overtaken' = (overtaken \/ status[a] \notin {"failed", "blocked"})
  /\ owed' = {o \in owed : o[1] # a}
  /\ UNCHANGED <<item, runRow, signalVars, up, queue, memVars, used>>

(* actionUnblock                                                           *)
UnblockReads(c, a) ==
  /\ status[a] = "blocked"
  /\ Use("unblock", MaxUnblocks)
  /\ Reads(c, {a})
Unblock(c, a) ==
  /\ up /\ c \in busy /\ a \in held[c]
  /\ WritesBack(c, a)
  /\ busy' = busy \ {c}

(* RunWorkItem lists the actions, resets the failed and the blocked ones   *)
(* one by one, then submits the work item, which the store queues or       *)
(* refuses.                                                                *)
RerunReads(c) ==
  /\ Use("rerun", MaxReruns)
  /\ Reads(c, {a \in Actions : status[a] \in {"failed", "blocked"}})
RerunWrites(c) ==
  /\ up /\ c \in busy /\ held[c] # {}
  /\ WritesBack(c, Min(held[c]))
  /\ UNCHANGED busy
Rerun(c) ==
  /\ up /\ c \in busy /\ held[c] = {}
  /\ IF item \in Preparable
       THEN item' = "queued" /\ queue' = queue + 1
       ELSE UNCHANGED <<item, queue>>
  /\ busy' = busy \ {c}
  /\ UNCHANGED <<rowVars, owed, up, memVars, held, old, overtaken, used>>

RequestStep ==
  \/ \E g \in Gates : Signal(g)
  \/ \E c \in Unblockers, a \in Actions : UnblockReads(c, a) \/ Unblock(c, a)
  \/ \E c \in Rerunners : RerunReads(c) \/ RerunWrites(c) \/ Rerun(c)

(* scheduler.Cancel: out of the queue, or by the context of the run, or by *)
(* the engine's own Cancel.  A graceful shutdown cancels contexts as well. *)
Cancel ==
  /\ up /\ Use("cancel", MaxCancels)
  /\ \/ /\ queue > 0
        /\ queue' = queue - 1
        /\ item' = "cancelled"
        /\ UNCHANGED cancelled
     \/ /\ queue = 0 /\ registered # None
        /\ cancelled' = cancelled \cup {registered}
        /\ UNCHANGED <<item, queue>>
     \/ /\ queue = 0 /\ registered = None
        /\ ValidWorkItemTransition(item, "cancelled")
        /\ item' = "cancelled"
        /\ UNCHANGED <<queue, cancelled>>
  /\ UNCHANGED <<rowVars, owed, up, registered, pc, batch, failed, stage, copy,
                 todo, busy, held, old, overtaken>>

(***************************************************************************)
(* The process dies; the next one recovers from the store.                 *)
(***************************************************************************)
NoMemory ==
  /\ queue' = 0
  /\ registered' = None
  /\ cancelled' = {}
  /\ pc' = [r \in Engines |-> "idle"]
  /\ batch' = [r \in Engines |-> {}]
  /\ failed' = [r \in Engines |-> FALSE]
  /\ stage' = [r \in Engines |-> [a \in Actions |-> "none"]]
  /\ copy' = [r \in Engines |-> [a \in Actions |-> 0]]
  /\ todo' = [r \in Engines |-> [a \in Actions |-> {}]]
  /\ busy' = {}
  /\ held' = [c \in Callers |-> {}]
  /\ old' = [c \in Callers |-> [a \in Actions |-> 0]]

Crash ==
  /\ up /\ Use("crash", MaxCrashes)
  /\ up' = FALSE
  /\ NoMemory
  /\ UNCHANGED <<item, rowVars, owed, overtaken>>

(* Mutant: the actions that were running are not reset.                    *)
RecoverReadyOnly ==
  /\ ~up /\ up' = TRUE
  /\ IF item \in {"queued", "in_execution"}
       THEN /\ status' = [a \in Actions |->
                            IF status[a] \in {"ready", "waiting_gate"}
                              THEN "pending" ELSE status[a]]
            /\ runRow' = [a \in Actions |->
                            IF runRow[a] = "running" THEN "failed" ELSE runRow[a]]
            /\ item' = "queued"
            /\ queue' = 1
       ELSE UNCHANGED <<status, runRow, item, queue>>
  /\ UNCHANGED <<retries, signalVars, owed, memVars, apiVars>>
(* RecoverInterruptedWorkItems lists the queued and the executing items,   *)
(* resets their actions and stale runs and submits them.                   *)
Recover ==
  /\ ~up /\ up' = TRUE
  /\ IF item \in {"queued", "in_execution"}
       THEN /\ status' = [a \in Actions |->
                            IF status[a] \in {"ready", "running", "waiting_gate"}
                              THEN "pending" ELSE status[a]]
            /\ runRow' = [a \in Actions |->
                            IF runRow[a] = "running" THEN "failed" ELSE runRow[a]]
            /\ item' = "queued"
            /\ queue' = 1
       ELSE UNCHANGED <<status, runRow, item, queue>>
  /\ UNCHANGED <<retries, signalVars, owed, memVars, apiVars>>

(***************************************************************************)
(* The specification: a work item that was queued and never run.           *)
(***************************************************************************)
Init ==
  /\ item = "queued" /\ queue = 1
  /\ status = [a \in Actions |-> "pending"]
  /\ retries = [a \in Actions |-> 0]
  /\ runRow = [a \in Actions |-> "none"]
  /\ latest = [g \in Gates |-> "none"]
  /\ rounds = [g \in Gates |-> 0]
  /\ rejections = [g \in Gates |-> 0]
  /\ owed = {}
  /\ up = TRUE
  /\ registered = None
  /\ cancelled = {}
  /\ pc = [r \in Engines |-> "idle"]
  /\ batch = [r \in Engines |-> {}]
  /\ failed = [r \in Engines |-> FALSE]
  /\ stage = [r \in Engines |-> [a \in Actions |-> "none"]]
  /\ copy = [r \in Engines |-> [a \in Actions |-> 0]]
  /\ todo = [r \in Engines |-> [a \in Actions |-> {}]]
  /\ busy = {}
  /\ held = [c \in Callers |-> {}]
  /\ old = [c \in Callers |-> [a \in Actions |-> 0]]
  /\ overtaken = FALSE
  /\ used = [e \in Events |-> 0]

Next ==
  \/ \E r \in Engines : LoopStep(r) \/ \E a \in Actions : GoroutineStep(r, a)
  \/ RequestStep \/ Cancel \/ Crash \/ Recover

Spec == Init /\ [][Next]_vars

(* Goroutines are scheduled and executors return (each has its timeout);   *)
(* nobody has to signal, unblock, rerun or cancel anything.                *)
Fairness ==
  /\ \A r \in Engines :
       WF_vars(LoopStep(r)) /\ \A a \in Actions : WF_vars(GoroutineStep(r, a))
  /\ WF_vars(Recover)

FairSpec == Spec /\ Fairness

(***************************************************************************)
(* Properties.                                                             *)
(***************************************************************************)
(* Every variable keeps the type its field has in the code.                *)
TypeOK ==
  /\ item \in WorkItemStatus
  /\ status \in [Actions -> ActionStatus]
  /\ retries \in [Actions -> Nat]
  /\ runRow \in [Actions -> {"none", "running", "succeeded", "failed"}]
  /\ latest \in [Gates -> {"none", "approve", "reject", "system"}]
  /\ rounds \in [Gates -> Nat]
  /\ rejections \in [Gates -> Nat]
  /\ owed \subseteq Gates \X Actions
  /\ up \in BOOLEAN
  /\ queue \in Nat
  /\ registered \in Engines \cup {None}
  /\ cancelled \subseteq Engines
  /\ pc \in [Engines -> LoopPC]
  /\ batch \in [Engines -> SUBSET Actions]
  /\ failed \in [Engines -> BOOLEAN]
  /\ stage \in [Engines -> [Actions -> Stage]]
  /\ copy \in [Engines -> [Actions -> Nat]]
  /\ todo \in [Engines -> [Actions -> SUBSET Actions]]
  /\ busy \subseteq Callers
  /\ held \in [Callers -> SUBSET Actions]
  /\ old \in [Callers -> [Actions -> Nat]]
  /\ overtaken \in BOOLEAN
  /\ used \in [Events -> Nat]
  /\ \A r \in Engines : pc[r] = "acquire" => batch[r] # {}
  /\ \A r \in Engines, a \in Actions :
       stage[r][a] \in {"evaluate", "merge", "reject", "reset"} => a \in Gates

(* An action is worked on, or a gate judged, only while everything it      *)
(* depends on is done: nothing builds on an output that a gate has sent    *)
(* back (scheduleLoop's promotion against ProcessGate's resets), unless a  *)
(* request has written back a row that had moved on since it was read.     *)
AtWork(a) ==
  \E r \in Engines :
    stage[r][a] \in {"prepare", "execute", "child", "evaluate", "merge"}
UpstreamDone ==
  overtaken \/ \A a \in Actions :
                 AtWork(a) => \A b \in Predecessors(a) : status[b] = "done"

(* Once a gate has recorded its rejection, it is neither evaluated again   *)
(* nor passed before each action it sent back has been done once more,     *)
(* unless somebody unblocks it (ProcessGate's record, resets, re-entry).   *)
RejectionAnswered ==
  \A o \in owed :
    /\ status[o[1]] # "done"
    /\ \A r \in Engines : stage[r][o[1]] \notin {"prepare", "execute", "evaluate", "merge"}

(* No action with a budget is retried or reworked beyond it, whichever of  *)
(* the executor's failures and the gates' rejections spend it.             *)
RetriesWithinBudget ==
  \A a \in Actions : MaxRetries[a] > 0 => retries[a] =< MaxRetries[a]

(* When no loop runs, a blocked action has put its work item where people  *)
(* look for it: escalated, unless it was cancelled or is queued again.     *)
BlockedIsEscalated ==
  /\ up /\ (\A r \in Engines : pc[r] = "idle")
  /\ \E a \in Actions : status[a] = "blocked"
  => item \in {"escalated", "queued", "cancelled"}

(* A row says running only while a goroutine works on the action or waits  *)
(* for its slot; a row left behind makes every later loop poll for ever.   *)
(* (A cancelled work item's rows are never read again.)                    *)
Started(r, a) == stage[r][a] # "none" \/ (pc[r] = "acquire" /\ a = Min(batch[r]))
RunningIsStarted ==
  \A a \in Actions :
    up /\ cancelled = {} /\ status[a] = "running" => \E r \in Engines : Started(r, a)

(* At most one goroutine executes an action at a time.                     *)
OneExecution ==
  \A a \in Actions : Cardinality({r \in Engines : stage[r][a] # "none"}) =< 1

(* A gate is blocked by the limit only when it has asked for all its       *)
(* max_rework_rounds rounds of rework.                                     *)
LimitAfterAllRounds ==
  [][\A r \in Engines, g \in Gates :
       RejectAtLimit(r, g) => rounds[g] >= MaxReworkRounds[g]]_vars

(* A gate configured with reset_upstream_closure sends back everything     *)
(* upstream of it ("Full upstream closure is opt-in via                    *)
(* reset_upstream_closure", gate.go:376).                                  *)
ClosureResetsAll ==
  [][\A r \in Engines, g \in ClosureGates :
       RecordReject(r, g) => todo[r][g] = AllPredecessors(g)]_vars

(* Every run of the engine returns: no batch, semaphore, retry or rework   *)
(* keeps a loop going for ever.                                            *)
RunsReturn == \A r \in Engines : pc[r] # "idle" ~> pc[r] = "idle"

(* Whatever crashes, the work item comes to rest: done, waiting for its    *)
(* people, or cancelled, with nothing left in the queue or running.        *)
ComesToRest ==
  <>[](item \in Resting /\ queue = 0 /\ \A r \in Engines : pc[r] = "idle")
==============================================================================
