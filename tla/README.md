# A TLA+ verification of the work item server

The repository is a Go server that turns work items into runs of agents: a work item has actions (executions, review gates, composite plans), a scheduler runs several work items at once, an engine executes the actions of one of them, and people or agents review, unblock, rerun and cancel. Around that core there are the sessions with agents (in the server's process, on remote workers, in threads and in the lead chat), proposals and initiatives that bring work items into being, and a configuration that is reloaded while all of it runs. This directory holds TLA+ models of these parts, the TLC configurations that check them, and TLAPS proofs about them. All paths below are relative to the repository's root (`src/` in `PROJECT.json`).

Contents: [inventory](#1-inventory), [modules](#2-modules-and-the-code), [runs](#3-what-the-runs-check), [fairness](#4-fairness), [proofs](#5-what-is-proved), [findings](#6-where-code-and-words-differ), [not modelled](#7-what-is-not-modelled), [plan](#8-plan).

## 1. Inventory

| Component | State | Operations | Interacts with | What is hard | What makes it correct |
|---|---|---|---|---|---|
| Scheduler (`internal/application/flow/flow_scheduler.go`) | queue, map item → cancel func, closed, one-slot channel | Submit, Cancel, dispatch, run and cleanup, auto-queue of dependents, drain, Shutdown | store (status), engine, bus | mutex sections and store calls interleave; dropped pokes; map keyed by item | limit, no lost wakeup, no forgotten queued item, dependencies first, shutdown ends |
| Recovery (`recovery.go`) | lists, seen set | scan, reset actions and runs, Submit | scheduler, store | runs beside the scheduler it feeds | recovers exactly what died |
| Engine (`engine.go`, `pipeline.go`, `scheduler.go`) | rows of actions and runs; copies of them in memory; semaphore; error of the batch | Run, schedule loop, prepare/execute/finalize, Cancel | store, executor, gates, bus | copies against rows; batches with a barrier; cancelled contexts; crashes | order, retry budgets, terminal status, termination |
| Gates (`gate.go`, `gate_merge.go`) | signals (append only), counts derived from them | evaluate, merge, reject with limit, reset upstream | engine, API, source control | decisions arrive at any time; resets one row at a time | every rejection answered by rework, limits, escalation |
| Composite actions (`composite.go`) | child item link | expand, run the child, retry | engine (nested Run) | shares the semaphore; recovery of both items | no deadlock, one run of the child |
| Action signals (`adapters/http/action_signal.go`, `platform/appcmd/mcp_serve.go`) | signal rows | decide, unblock | gates, pipeline | stale signals, signals without a run | the right run's signal decides |
| Work item service (`workitemapp`) | none | run, cancel, CRUD, adoption | scheduler, store | reset then submit, not atomic | only reruns what stopped |
| Event bus, persister (`adapters/events/memory`, `flow/persister.go`) | subscriptions with bounded buffers | publish, subscribe, cancel, store | everything | drops, cancellation, shutdown order | no blocked publisher, stored events in order |
| Cron trigger (`application/cron`) | last firing in memory and in metadata | tick, count instances, clone and submit | store, scheduler | crash between submit and record | at most max_instances active |
| Run probe (`application/probe`) | probe signals | request, watchdog | sessions, store | check then create, late answers | at most one active probe of a run |
| Proposals, initiatives (`proposalapp`, `initiativeapp`) | statuses, list of items | submit, approve, reject, revise, edit, merge, cancel, delete, derived status | store, scheduler | concurrent reviewers, whole rows written back; submissions after the commit; items read one by one | what is approved is started and completed; done means completed |
| NATS execution (`runtime/agent/session_manager_nats.go`, `executor_worker.go`) | work queue of invocations, results, jobs of workers | start, watch, give up; fetch, execute, publish, acknowledge, stop | JetStream | at-least-once delivery, crashes on both sides, lost results | nothing acknowledged unanswered; one outcome per call; waiting callers are answered |
| Local sessions and pool (`session_manager_local.go`, `acp_session_pool.go`) | sessions, flights, prompt mutex, token counts, collectors | acquire, run, invalidate, evict, clean up | agent processes | flights, eviction of a session in use, late failures | no process lost, nobody waits for ever, events of the right run |
| Threads (`threadapp`, `thread_session_pool.go`) | rows of members, one process per agent and thread | invite, boot, prompt, recover, remove, clean up, delete | agent processes, store, bus | boots of minutes, stale copies of rows, removal during a prompt | no prompt after leave, pool holds live clients, calls return |
| Lead chat (`adapters/chat/acp/lead.go`) | session, registered run, one queued message, idle timer, catalog | send, queue, cancel, close, delete, archive, expire | agent processes | hand-over to the queued message, concurrent loads, timers | one run at a time, no process lost, a busy chat becomes free |
| Store (`adapters/store/sqlite`) | tables | single-statement updates | all | guards in WHERE clauses | each call atomic |
| Configuration (`platform/configruntime/manager.go`) | file, snapshots, current one, reported error | CRUD, write, reload, roll back, watch | file system, registries | validation, build and rollback against the watcher and edits by hand; shared slices | file and snapshot agree or an error shows; never older |
| HTTP, web, CLI, executor, ACP client, sandboxes, workspaces, source control, inspection, requirements, orchestration, planning | mostly none of their own | I/O, prompts, forms | the above | external failures | reach the core as outcomes |

Interaction: API handlers, cron and initiatives call `Submit`/`Cancel`; the scheduler's loop starts one goroutine per dispatched work item, which calls `engine.Run`; Run starts a goroutine per runnable action; these write rows of the store and publish events. The store is the only shared state that survives a restart; its single calls are atomic and everything between two of them interleaves. `PROJECT.json` lists the hazards of all these parts at the line where each bites.

## 2. Modules and the code

* **`Lifecycle`** – statuses and transition tables (`transition.go`, `core/*.go`), the statuses Run accepts, and those `PrepareWorkItemRun` turns into `queued`.
* **`ActionDag`** – the order of actions (`dag.go`): predecessors, entry actions, closure and cycle check in both modes. An action *is* its rank in the store's listing, so `Min` of a set is the next one in the code's loops.
* **`WorkItemScheduler`** – scheduler and recovery for many work items. One action per store call or critical section.
  * `status` is the store; `queue`, `running`, `closed`, `notify` are the struct's fields; `loop`, `rpc`, `pc` say where the loop, the run goroutines and the callers are; `stopped` is the context of `Start`, `cancelled` the contexts of runs.
  * `dispatch` holds the mutex for several steps, so every other critical section waits for `Unlocked`.
  * `engine.Run` is reduced to its writes of the item's status (`RunStart` … `RunTerminal`), with the statuses its actions may set as `MidRun`; the next module is the detailed view.
  * `everCompleted` is history: the items whose run has written `completed`.
  * `Restart` models a crash at any point as well as a complete shutdown; `SchedulerStop`/`Shutdown` are the ordered cleanup.
* **`WorkItemEngine`** – the execution of one work item: `Launch`, `LoopEnds`, `LoopPromotes`, `Dispatch`, `Acquire`, `Barrier`, `LoopAborts`, `RunReturns` are Run and scheduleLoop; `stage[r][a]` is the position of the goroutine of action `a` in loop `r` (`prepare`, `execute`, `evaluate`, `merge`, `reject`, `reset`, `child`); `Signal`, `UnblockReads`/`Unblock`, `RerunReads`/`RerunWrites`/`Rerun`, `Cancel` are the API; `Crash` and `Recover` the restart.
  * Loops are indexed by `Engines` because nothing in Submit prevents a second run of the same item.
  * `copy` is the retry count of the in-memory action a failure handler writes back as a whole row; the gates' resets read the row instead.
  * An unblock and a rerun read rows and write them back whole some time later: `busy`, `held` and `old` are the requests under way, the rows each is going to write and the retry counts it has read. `overtaken` is history: such a write has come over a row that had moved on.
  * `Evaluate` is the default chain: the latest signal, the manifest check, the deliverable's verdict.
  * `owed` is a history variable: what each rejection has sent back and is not done again.
  * A store call with a cancelled context fails, hence `Working(r)` in every guard and the two abort actions.
* **`RunDelivery`** – what `runtime.SessionManager` (`application/runtime/session.go`) promises a caller, whichever manager is configured: a call is opened, agents produce outcomes for it, it is closed once with one of them or with none. An abstract specification of four short actions.
* **`RemoteExecution`** – the NATS manager and the workers. `call` and `outcome` are the server's side, `message`, `deliveries`, `results` the two streams, `stage`, `worker`, `got` one *job* per delivery of a call to a worker (a delivery after the first is due to a fault, so `MaxFaults` bounds them). `StartRun`, `Watch`, `WatchReturns`, `GiveUp`, `ServerCrash` are the manager; `Deliver`, `Expire` the broker with its limit of unacknowledged messages; `Begin`, `Execute`, `PublishResult`/`PublishFails`, `Ack`, `Leaves`, `Stop`, `Restart`, `WorkerCrash` the worker. `answered` and `missed` are history: a result of the call was published, and it was published before its consumer existed. It instantiates `RunDelivery` (`Delivery`).
* **`AgentSessions`** – the local manager over the pool, for one (work item, profile). A step is one hold of the pool's mutex or the work between two of them. `pooled`, `inflight`, `landed` are the maps' entries; `made[r]` is what a flight's leader holds; `lock` is the session's prompt mutex, `handler` its collector.
* **`ThreadSessions`** – one agent of one thread. `status` is the store's rows, `copy[r]` the copy a call works on: transitions are checked against the copy and the whole row is written. `pooled`, `open`, `closing`, `lock` are the session map, the processes, the `closing` flags and the mutexes.
* **`LeadChat`** – one chat: `record` and `current` are the catalog's record and the live session, `running` is `activeRuns`, `pending` the queued message, `armed` the idle timer, `client` the processes; `pc[m]` is where the goroutine of message `m` is. A queued message taken by `endRun` has the place `taken` until `runPending` starts it.
* **`ConfigReload`** – `file` is config.toml as the state of its drivers: `bad` is refused by validation, `secret` only by building. `built[v]` is what snapshot `v` was built from and `shown[v]` what its readers see now; they differ when a CRUD call assigns to the shared slice. `event` is the watcher's pending notification, `lock` is `reloadMu`.
* **`Initiatives`** – proposal, initiatives and their items. `call[c]` is what a request carries from its reads to its writes, so requests overwrite each other as the code's whole-row updates do. `ReadWork` and `WriteWork` are a request that runs an item or cancels it: the status is read in the first and written in the second, and the hold and the cancellation write whatever has happened since. `Start`, `Finish`, `Follow`, `Restart` reduce the scheduler to what starts, ends and auto-queues an item and to the recovery; `entered`, `live` and `following` are the items in its queue, those with a run, and the dependents a completed run has still to examine. `promised`, `dropped`, `everCompleted` and `overwritten` are history.
* **`MCScheduler`, `MCEngine`, `MCInitiatives`** – values of the constants for TLC; the other modules take theirs from the .cfg alone.
* **`…Proofs`** – theorems about the module they are named for.

The modules meet at the interfaces of the code: the status tables of `Lifecycle`, the `Runnable`/`Preparable` rules that the scheduler, the engine and the initiatives share, and `RunDelivery` between the engine's executor and a session manager. Each models its neighbours by what they may do at that interface: the engine takes any outcome from an executor, the scheduler any statuses from an engine, the initiatives from the scheduler one entry and one run of an item at a time, any end of a run, and late holds and cancellations (section 7 says what is left out).

## 3. What the runs check

Passing runs:

| Run | Instance | Shows |
|---|---|---|
| `SchedulerSafety` | items a ← b (b waits for a), one slot, two clients, three calls, three run identities, failing runs; no restart | `TypeOK`; `CapacityRespected`; `NoLostWakeup`; `QueuedIsTracked`; dependencies first (`RunsAfterDependencies`) |
| `SchedulerProgress` | the same items with one client, two calls, two run identities, one stop or crash with recovery, runs that fail only when cancelled; fairness | `QueuedIsTracked` across the restart; queued items leave the queue (`QueuedLeaves`), held items follow (`DependentsFollow`), shutdown ends (`ShutdownCompletes`) |
| `EngineGates` | action 1, gate 2, gate 3 with the closure; one signal, unblock, rerun, cancellation, the unblock and the rerun each a read and later writes; no crash | `UpstreamDone`, `RejectionAnswered`, `RetriesWithinBudget`, `BlockedIsEscalated`, `RunningIsStarted`, and `RunsReturn` under fairness |
| `EngineDag` | 1 before 2 (a plan), 3 and 4, all three before 5, one slot; failures of executors, prepare, persistence and expansion; two crashes | `UpstreamDone` at the join, and the item comes to rest (`ComesToRest`) |
| `RemoteDelivery` | two calls, two workers of one slot, two faults of any kind; fairness | no invocation is acknowledged unanswered (`NothingLost`), the promise of `SessionManager` is kept (`ImplementsDelivery`, a refinement), a caller whose consumer exists in time is answered (`Answered`) |
| `SessionPool` | three runs of one key, three processes, one turn per session, a budget of one prompt; fairness | no agent process without an owner (`NoProcessLost`), `Acquire` returns (`AcquireReturns`) |
| `ThreadAgents` | three calls of any kind, two memberships, two processes, one restart; fairness | the pool holds no closed client (`PooledIsOpen`), no prompt after the agent was told to leave (`NoPromptWhileLeaving`), calls return unless an agent never answers the request for its summary (`CallsReturn`) |
| `LeadChat` | three messages, three processes, one close, delete, archive, cancel or restart; fairness | `OneRunAtATime`, `NoClientLost`, and the chat becomes free after every run (`RunsEnd`) |
| `ConfigReload` | two CRUD calls, two drivers, one edit by hand, five snapshots | file and snapshot agree or an error shows (`InSyncOrReported`), never an older snapshot (`NewestWins`) |
| `Initiatives` | a proposal of two roots and an item that waits for both, two callers, two initiatives, four requests (or, from an initiative already proposed, three), among them runs, holds and cancellations of single items; fairness | `NothingLeftBehind`, `DoneWhenCompleted`, `ApprovedAreCompleted` |

Why the bounds are enough: the scheduler's hazards need two items (one to hold the slot or to be waited for), two overlapping calls (two clients, with a third call to cancel or resubmit) or one restart, and the two passing runs split these because each multiplies the states; more run identities than the limit are needed exactly for an overlapping second run of an item. For the engine a chain of an action and two gates is the least where a gate can be sent back by another gate, a reset has two targets and two budgets, and a decision can meet each stage; budgets 2 and 1 and two rounds let each limit be reached by either path. The graph has the smallest fork and join in which two actions want one slot (`Concurrency = 1`) while a plan, which takes none, runs beside them.

Remote execution: two calls are a run and its retry, two workers let a redelivery run beside its first delivery, two faults let the recovery from one meet another. The pool: a late failure on an old session needs three runs (one that fails late, one that evicts, one that has the successor) and as many processes. Threads: a removal, a prompt and a boot at once, with a second membership to boot for; three processes instead of two add nothing but states. Lead chat: one message runs, one is queued, one loads the session beside them. Configuration: two calls and the watcher are the three who build; a call that is rolled back takes two snapshots, so five let every actor finish. Initiatives: two roots that can complete at the same time and the item that waits for both; two initiatives for the double approval of a proposal; the second initial state leaves room for an approval, a late hold or cancellation and a refresh, which together make an initiative done while an item shows something else.

Each bound on outside events (`MaxOps`, `MaxRestarts`, `MaxSignals`, `MaxUnblocks`, `MaxReruns`, `MaxCancels`, `MaxCrashes`, `MaxFaults`, `MaxCalls`, `MaxEdits`) or on identities (`MaxSessions`, `MaxRows`, `MaxClients`, `MaxVersions`, `MaxInitiatives`) is a constant of its module, used in the guard of the actions that consume it only. Calls, prompts and events of these systems may end, so deadlock checking is off; that nobody waits for ever is what the liveness properties say.

`EngineGates` has no crash because a crash in review violates `RunningIsStarted` (a finding). `UpstreamDone` is checked on a chain with gates and on a graph without gates; a graph with gates can have a side branch done above a reset action. `RejectionAnswered` is about one loop: `EngineDoubleRun.cfg` shows that two can exist. `UpstreamDone` ends with `overtaken`, and an unblock's or rerun's write over the gate waives what the gate is owed: a stale row can put a done action back to pending while what depends on it runs (section 6). `DoneWhenCompleted` counts an item as done that was completed and then overwritten by a late hold or cancellation, and `ApprovedAreCompleted` does not wait for an item whose course such a write, a failed end, a cancellation or a restart has stopped (`Stopped`). `Answered` leaves out the calls in `missed`: a result published before its consumer exists is dropped (a finding). `NothingLeftBehind` leaves out `dropped`: the code stops submitting at the first error (a finding).

Violation runs check one sentence of the code's comments, documents or tests each: `SchedulerOverLimit` (`LiveRunsWithinLimit`) and `SessionBudget` (`RunsEnd` of `AgentSessions`). Ten more configurations do the same and are kept beside the modules without an entry in `PROJECT.json`; each ends with TLC's counterexample to the one property it names:

| Configuration | Module | Property |
|---|---|---|
| `SchedulerCancelRace.cfg` | `MCScheduler` | `InExecutionHasRun` |
| `SchedulerRecoveryRace.cfg` | `MCScheduler` | `RecoveryTakesDeadItems` |
| `EngineCrashInReview.cfg` | `MCEngine` | `RunningIsStarted` |
| `EngineReworkLimit.cfg` | `MCEngine` | `LimitAfterAllRounds` |
| `EngineClosure.cfg` | `MCEngine` | `ClosureResetsAll` |
| `EngineDoubleRun.cfg` | `MCEngine` | `OneExecution` |
| `SessionEvents.cfg` | `AgentSessions` | `EventsScoped` |
| `ThreadStatus.cfg` | `ThreadSessions` | `LeftStaysLeft` |
| `LeadQueue.cfg` | `LeadChat` | `QueuedIsTaken` |
| `ConfigAlias.cfg` | `ConfigReload` | `CurrentIsKept` |

## 4. Fairness

`FairSpec` of each module gives weak fairness to each goroutine: Go's scheduler runs whoever can run, and mutexes and channels are held for bounded steps. What a goroutine waits for outside is fair where the code bounds it. Nothing a person, an agent or an accident decides is fair: signals, unblocks, reruns, cancellations, stops, crashes, faults, edits, removals and idle timers may never happen.

* Scheduler and engine: executors return, because each has a timeout or its context ends. `Recover` is fair because the server is started again. `RunSync` (status changes during a run) is not fair, so no property depends on it.
* `RemoteExecution`: per delivery the worker's steps are fair, except `PublishFails`, which is a fault. The broker delivers while a worker has room, and takes a delivery back whose job nobody has in hand any more (`Expire`, the acknowledgement wait). `Restart` is fair: a worker that was stopped is started again, or another one is. A caller may give up at any time, and need not.
* `AgentSessions`: creating a process ends with success or an error, and a prompt returns or fails.
* `ThreadSessions`: boots have timeouts (`thread_session_pool.go:242`, `:329`) and prompts too (120 seconds, `:572`). The prompt for a summary in `RemoveAgent` has none: it runs under the caller's context with the session's mutex held (`:683`, `:742`; the 30 seconds of `requestProgressSummary`, `:728`, are not on this path). So `Bounded` makes no promise of its end while the agent's process lives, and `CallsReturn` says that a call returns or is, or waits for, one whose agent never answers (`AwaitsSummary`).
* `LeadChat`: launching has a timeout; the agent answers, or its process dies and the prompt breaks. A prompt of the lead chat has no timeout of its own, so `RunsEnd` rests on that.
* `Initiatives`: requests that have begun go on, and the scheduler goes on as long as it has work: it starts what is queued, an item that runs ends, dependents are examined (`QueuedLeaves` of the scheduler and `RunsReturn` of the engine). Requests are bounded by `MaxCalls` and each has finitely many steps, so fairness of all of them together is fairness of each. An item is taken to have been given actions.
* `ConfigReload` has no liveness property: nothing there has to happen.

## 5. What is proved

TLAPS proves, for every value of the constants that satisfies the modules' assumptions:

* `TypeCorrect`: `Spec => []TypeOK` of `WorkItemScheduler`.
* `CapacityCorrect`: `CapacityRespected`. Inductive with the type invariant; the argument is about the cardinality of the set of registered items, which grows in `DispatchOne` only.
* `WakeupCorrect`: `NoLostWakeup`. It is inductive with the type invariant because each step that makes dispatch possible (an append, a deletion) moves its goroutine to a place from which it will send, and the loop reads the queue after it takes the token.
* `TrackedCorrect`: `QueuedIsTracked`. The inductive invariant adds what every caller's position says about the item it holds; the crash case rests on the recovery's first list being that of the queued items (`SchedulerAssumption`).
* `DependenciesFirstCorrect`: `RunsAfterDependencies`, stated with the history variable `everCompleted`. `ReadyInv` extends it to what is queued or about to be queued, and to the status `completed` itself; recovery is covered because it goes through `Submit`. The present status of a dependency is not claimed: `engine.Cancel` may overwrite it while the dependent starts.
* `EngineTypeCorrect`: `Spec => []TypeOK` of `WorkItemEngine`, for every graph of actions and any number of loops over the same rows. Its last conjunct (only gates reach the stages of a gate) is what makes it inductive: without it a step of a gate could write the gates' signal counts for an action that has none.
* `BudgetCorrect`: `RetriesWithinBudget`. A retry writes one more than the in-memory copy of the count, a rejection one more than the row's; each compares with `max_retries` first, so the bound holds with the type invariant even when two loops write the same row (the count itself can then go back, which only makes it smaller).
* `LimitUnlessOverlap`: as long as no work item has two live runs, every live run owns its item's entry in the map, and so never more work items execute than `MaxConcurrent`. `SchedulerOverLimit` shows what happens otherwise; the theorem says that a second run of one item is the only way past the limit.
* `ExecutingUnlessCancelledLate`: when recovery lists the executing items (`RecoversExecuting`), the first step that leaves an item `in_execution` with nobody to write it again is `RunComplete` under a cancelled context, the finding of `SchedulerCancelRace.cfg`; without such steps `InExecutionHasRun` holds. `AttendedInv` says of each executing item who is going to write it: a run before its last write, a failed run that is cancelled, or the recovery, which still has it on its list or has a list to come.
* `FirstListTakesDeadItems`: while recovery works on its first list, that of the queued items in both of the program's variants (`RecoverInterruptedWorkItems`, and `RecoverQueuedWorkItems` under NATS), it never resets an item that its own process runs. `ListedInv` says that an item still to be reset is in nobody's hands, and what starts meanwhile comes from those already submitted. With the second list, `in_execution` or `pending_execution`, it is false, which is the finding of `SchedulerRecoveryRace.cfg`; that is why the theorem ends where the first list does.

About `WorkItemEngine`, each with the hypotheses without which the code breaks it:

* `ClosureIsUpstream`: the set a closure gate sends back contains the predecessors of the gate and of each of its members, and never the gate; by well-founded induction on the ranks of the graph.
* `LoopsCorrect`: behind a barrier there is no goroutine; one that outlives its loop is of a cancelled loop. No hypothesis; the later proofs rest on it.
* `UpstreamDoneCorrect`: `UpstreamDone` for one loop (`OneLoop`; `EngineDoubleRun.cfg` shows two) and for lists of actions, or graphs in which what a gate sends back feeds that gate only (`OrderSafe`). Without the second a side branch is at work when a gate resets what it was built on. Crashes, failures, cancellations and recoveries are all allowed. The inductive invariant says for each place of the loop and of a goroutine which rows are done, and that a gate that resets has what it resets to itself.
* `RunningIsStartedCorrect`: `RunningIsStarted` until the process first dies (`NoCrashYet`; `EngineCrashInReview.cfg` shows what a crash in review leaves), if the store calls around a run do not fail (`NoStoreFaults`; each leaves a row that says running, and the next loop polls for ever), for one loop or for loops none of which is cancelled (`Serial`: a cancelled loop leaves its rows to the cancellation, which a second loop undoes). `RunningInv` lets a row say running when its loop is cancelled and about to mark the work item.
* `BlockedIsEscalatedCorrect`: `BlockedIsEscalated` for one loop until the process first dies: an item that shows `needs_rework` for one failed action while another is blocked is not recovered after a crash, and nothing escalates it (the finding of `EngineCrashInReview.cfg` again).
* `RejectionAnsweredCorrect`: `RejectionAnswered` for one loop until the process first dies, for gates that send back only what they wait for (`SendsBackDirect`; `SendsBackDirectly` shows that every list and every graph without a closure is of this kind). The invariant says that what is owed is not done, or is about to be reset, or the gate is blocked, and that nothing a started action waits for starts before the barrier. It holds until `overtaken`: the next theorem says what such a write does.
* `DoneIsKept`: with one loop only two steps take an action out of `done`: the reset of a gate that sends it back, and a rerun or an unblock that writes the row it read before the action was done. The engine itself writes whole rows from copies taken earlier; the theorem says that none of its own writes comes late, and names the requests whose writes do.
* `RoundsBounded` and `ClosureUnlessOverruled`, without hypotheses on the loops: what the code keeps of the two promises that `EngineReworkLimit.cfg` and `EngineClosure.cfg` refute. A gate never records more rejections than its rounds, and a closure gate sends back its whole upstream as long as nobody has signalled a rejection of it and no gate has a manifest check (`Unquestioned`): both evaluators know the closest predecessors only.

About the other components:

* `RemoteTypeCorrect` and `NothingLostCorrect`: types, and `NothingLost`, of `RemoteExecution`. `LossInv` adds that a job which is `published` has answered its call; acknowledging is possible from there only.
* `RemoteImplementsDelivery`: `Spec => ImplementsDelivery`, the refinement of `RunDelivery`. Every step maps to one of its steps or a stutter: `StartRun` opens, `StartRunFails` refuses, `Execute` produces (the error of a stopped execution too), `WatchReturns` and `GiveUp` close, `ServerCrash` closes all. `DeliveryInv` is what the mapping needs: the outcomes in the results stream are ones that some job of the call has produced, a caller has an outcome only when its call has ended, and nothing is produced for a call that has not started.
* `SessionsTypeCorrect` and `NoProcessLostCorrect` of `AgentSessions`: an open process is pooled, or the run that took it out or made it is at the place where it closes or pools it. Inductive with the types because `Invalidate` compares the session with the pooled one and `Insert` looks at the slot under the same mutex.
* `MutexHeldByPrompts` and `EventsScopedUnlessShared`: what the code keeps of the two promises that `SessionBudget` and `SessionEvents.cfg` refute. Until the budget of a session is spent its mutex is held only by a run that prompts it, so nothing but the refusal leads to the deadlock; and while no two runs use one session at a time (`Unshared`, a condition on states), events go to the collector of the run that prompts.
* `ThreadsTypeCorrect`, `NoPromptWhileLeavingCorrect` and `PooledIsOpenCorrect` of `ThreadSessions`. The mutex gives the second: `closing` is set and read by who holds it. The third needs `PoolInv`: nobody who is about to close a session has the pooled one, and a session that has just been booted is in nobody else's hands.
* `ProcessesLostInThreePlaces`: a process of a thread's agent loses its owner only when a boot puts its session over another's (`Displaces`), when a row that has failed or left is removed while the agent runs for a later one (`RemovesStale`), or when `RemoveAgent` returns the error of a refused transition (`LeavesOpen`). TLC shows that each of the three is needed. Without such steps `NoOrphan` is an invariant.
* `LeadTypeCorrect`, `OneRunAtATimeCorrect` and `NoClientLostCorrect` of `LeadChat`. `LeadInv` is `TypeOK`, `Owner` (whoever is in a run, or was taken from the queue for one, is the registered one; at most one hand-over is under way) and `Waiting` (the queued message is nowhere else).
* `StrandedInTwoWaysCorrect`: a message comes to wait while no run is registered in two ways only: `StartChat` queues it after the run it saw has ended (the finding of `LeadQueue.cfg`), or a hand-over finds the session gone and gives the run back although another message has been queued (`DispatchFails`). Everything else that ends a run takes or discards the message.
* `ConfigTypeCorrect`, `InSyncCorrect` and `NewestWinsCorrect` of `ConfigReload`. `ConfigInv` adds `Mutex` (who works on the file or a snapshot has `reloadMu`) and `Fresh` (a snapshot about to be stored is the last one built, from the file as it is unless a change has been noticed since). `NewestWinsCorrect` is an action property that follows from `Fresh`.
* `NothingLeftBehindCorrect` of `Initiatives`. `RowInv` and `CallInv` are the types it needs, `MadeInv` says that what an initiative lists, promises or a request carries are items that exist; items are only ever made, and of those that are there none returns to `open`.
* `InitiativesTypeCorrect`, and `DoneWhenCompletedCorrect`, an action property of `Initiatives`. `ReadInv` says that what a refresh has read, as long as it has seen nothing else, has been completed (`everCompleted`), and `EverInv` that what has been completed is so still or is in `overwritten`, so that nothing but a late hold or cancellation, or a later run begun after one, can make a done initiative show an item that is not; only a refresh writes `done`. `RestInv` has the types of the scheduler's part.

One lemma or case per action shows that the action preserves the invariant; the lemma of the step splits `[Next]_vars` and cites them. Nothing is assumed beyond the `ASSUME`s of the modules, which TLC evaluates in every run, and the hypotheses that a theorem names.

The hypotheses are of two kinds. `OneLoop`, `OrderSafe`, `SendsBackDirect`, `NoStoreFaults` and `RecoversExecuting` restrict the constants, each to a case the program can be configured in or find itself in; the runs check the same properties in instances of these cases and, for the findings, outside them. `NoCrashYet`, `Serial`, `FirstList`, `Unquestioned` and `~overtaken` are conditions on states, so those theorems hold for the part of every behaviour in which they are true. `[]OneRunPerItem`, `[]Unshared` and the absence of the steps a theorem names are conditions on behaviours; where it is a step, the theorem also says, without the condition, that the first violation is that step. Every property of a passing run that is not about liveness is stated by a theorem.

Only model-checked: liveness and everything under fairness (`QueuedLeaves`, `DependentsFollow`, `ShutdownCompletes`, `RunsReturn`, `ComesToRest`, `Answered`, `AcquireReturns`, `CallsReturn`, `RunsEnd`, `ApprovedAreCompleted`). Liveness, `ENABLED` and induction over data are out of the prover's reach.

## 6. Where code and words differ

With a run, or a configuration of section 3, whose counterexample is short:

* `SchedulerOverLimit` – the limit counts map entries; an item resubmitted while its run shows `needs_rework` is dispatched over its own entry, the old run's cleanup deletes the successor's, and with a limit of two three different items execute (`flow_scheduler.go:26`, `:260`).
* `SessionBudget` – a run refused because of the token budget keeps the prompt mutex; the retry waits for ever (`session_manager_local.go:274`, `docs/spec/memory-system-design.md:353`).
* `SchedulerCancelRace` – a cancellation between the loop's success and the write of completed leaves the item `in_execution` (`engine.go:244`, `flow_scheduler.go:179`).
* `SchedulerRecoveryRace` – recovery resets items that this process has started, under NATS too: its second list, `pending_execution`, is read beside the runs of the first (`recovery.go:11`, `:25`).
* `EngineCrashInReview` – items in `pending_review`, `needs_rework` or `escalated` at the crash are not recovered although their actions were running (`recovery.go:11`, `:93`).
* `EngineReworkLimit` – a person's or agent's rejection costs two rounds (`gate.go:53`, `:73`).
* `EngineClosure` – `reset_upstream_closure` is ignored when the verdict is a signal, and when it is the manifest check's (`gate.go:241`, `:269`, `:376`).
* `EngineDoubleRun` – a rerun of a running item is accepted while it shows `needs_rework` (`flow_scheduler.go:108`).
* `SessionEvents` – the collector of the next run is installed while another prompt runs, so events go to the wrong run (`session_manager_local.go:255`, `acp_session_pool.go:44`).
* `ThreadStatus` – a boot that finishes late makes an agent active that has left (`thread_session_pool.go:353`, `core/thread_test.go:46`).
* `LeadQueue` – StartChat asks first and queues later, so a message can wait until somebody sends another one (`lead.go:394`, `application/chat/contracts.go:86`).
* `ConfigAlias` – a refused update is visible to the readers of the current snapshot (`configruntime/manager.go:266`, `manager_test.go:13`).

Others were met while reading and modelling and have no run. Engine and scheduler: a stale approval passes a gate that was reset; `need_help` and `complete` sent over HTTP have no run and are ignored; an error in prepare leaves the action running and the next run polls for ever; an old signal suppresses the fallback signal of an agent's output; `engine.Cancel` and the hold in `Submit` write a status computed from an older one, so completed can be overwritten although the table (`transition.go:5`) has no transition from it, and a dependent can then run beside a dependency that shows `cancelled`; the scheduler queues dependents that nobody has approved. A rerun and an unblock write back rows they have read (`workitemapp/service.go:333`, `action_signal.go:178`, `:227`): a rerun lists the blocked action 1, an unblock resets it, it is done and 2 is under way, then the rerun's write puts 1 back to pending and 2 builds on what is not done.

Sessions: a result published before its consumer exists is dropped, and a server that restarts finds none of its runs; a run longer than the acknowledgement wait is executed twice; giving up does not cancel the remote run. A flight's followers can be handed a session that was closed meanwhile; a session made during a cleanup is pooled after it. Two boots of a thread's agent at once leak a process; a removal during a boot is refused after the session was taken. `removeSession` of the lead chat knows the chat and not the session, so an old client's failure kills the new one; a chat deleted during a run comes back as a bare record; the idle timer cuts a dispatched prompt.

Configuration, proposals, initiatives: concurrent CRUD calls lose each other's updates, and the rollback overwrites an edit made meanwhile. Two approvals of a proposal make two initiatives; a write computed from an older row sends an executing initiative back to draft or a cancelled one on to executing; an approval that is interrupted leaves roots that cannot be approved again; an item whose dependencies were completed before the approval waits for ever. An initiative can be done while an item of it shows `accepted` or `cancelled`: the item was completed, and a hold or a cancellation that had read it before wrote over it (`initiativeapp/service.go:412`, `flow_scheduler.go:126-134`, `engine.go:255-262`). A removal in a thread waits as long as its agent takes to answer (`thread_session_pool.go:683`).

## 7. What is not modelled

* Of the engine: `reject_targets` in a decision, what the manifest says (its failure is a verdict), which gates have a manifest check (`Verdicts` is one set for all), evaluators other than the default chain, the child's own loop (its outcome is chosen), failures of the store other than `Faults`, slots of the semaphore held by other work items, deliverables, resources, briefings and profiles, archived items, the event that ends a poll early (polling alone changes nothing).
* A retry caused by a timeout is a transient failure. A run row goes straight to `running` because nothing reads `created`.
* `setWorkItemStatus` reads and writes; the models make it one step, since both happen within one transition of one action and its other writers are those of the same loop, or of a second loop, which `OneExecution` already refutes.
* Of the scheduler: errors of the store (so `Cancel`'s return when the status of an item it has taken out of the queue cannot be written, `flow_scheduler.go:161`, which leaves a queued item nobody has), the page limit of the recovery, statistics, events.
* Of the sessions: forwarding of events and probes over NATS, resumption of a protocol session in a new process, rows of agent contexts, `WaitAgentReady`, workspaces and skills of threads; of the lead chat pull requests, workspaces and their collection, titles, modes and permissions.
* Of remote execution: the 24 hours a message is kept (`session_manager_nats.go:150-156`), the agent types a worker asks for, whose filter overwrites that of the shared durable consumer (`executor_worker.go:152`, `:198-211`), and messages that cannot be decoded, which are refused and delivered again.
* Of the lead chat two things are folded into neighbours: a `NewSession` or `LoadSession` that fails once the client is open closes it again (`lead.go:1012`, `:1113`, `:1259`) and counts as a failed launch, and taking a session out of the map and closing its client (`lead.go:846-857`, `:911-928`, `:1313-1321`) are one step.
* Of the configuration: what it contains, `onReload` (taken to succeed), failures of the file system. A created driver is a new text of the caller: the append may use spare capacity of the snapshot's slice (`manager.go:250`, `:317`), where the snapshot's readers do not look.
* Of the initiatives: roles and threads, and an `Approve` without a scheduler, which the program never configures. Of their work items: status edits, deletion and archiving by the work item API, statuses inside a run (`pending_review` and the like), a second entry or run of one item, failed starts, and what lies between the check and the update of one hold, submission or auto-queue step beyond the read and the write of `ReadWork`/`WriteWork` and the steps of `Follow`; `WorkItemScheduler` has these steps. Recovery is the local one.
* Not modelled at all, read and with known defects: the cron trigger (a failed `Submit` leaves an open clone that counts as active, so a template with `max_instances` 1 never fires again; a crash after the submission fires twice; items in review are not counted; the record of the firing overwrites a concurrent disable), the run probe (check then create; a crash leaves a `sent` probe active for ever), the event bus and the persister (`Cancel` never removes a subscription, a second one panics; buffered events are lost at a stop).
* The rest of the repository (HTTP handlers, prompt building, adapters of Git hosts, sandboxes, the protocol client, inspection and planning, CRUD services, the store's mapping of rows) is conversion and I/O with little state of its own that outlives a call. A model of it would restate it. The share of the source's lines that the map covers is small for this reason: the modules stand for the code whose control is shared between goroutines, processes or requests.
* The components marked `not_modelled` in `PROJECT.json`, with the reason for each.

## 8. Plan

1. Done: `Lifecycle`, `ActionDag`, `WorkItemScheduler`, `WorkItemEngine`; `RunDelivery`, `RemoteExecution`, `AgentSessions`, `ThreadSessions`, `LeadChat`, `ConfigReload`, `Initiatives`, with their proofs.
2. `CronTrigger`, `RunProbe` and `EventBus` as small modules: each has an atomicity or crash hazard listed above.
3. `AgentSessions` as a second implementation of `RunDelivery`, once runs that share a collector are told apart.
4. `CompositeRun`: parent and child work items sharing the semaphore, and their recovery.
5. Abstract specifications of a work item's life as a client sees it (queued, executing, resting), implemented by `WorkItemScheduler` and by `WorkItemEngine`; a budgeted rework protocol implemented by the gates.
6. Proofs: the order of the actions for graphs whose gates have side branches; for the configuration, what an update through the snapshot can and cannot change; that a process is started once for each flight of `AgentSessions`; the specifications of item 5.
