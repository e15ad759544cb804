-------------------------- MODULE RemoteExecution --------------------------
(***************************************************************************)
(* Runs executed by remote workers: the server publishes an invocation to  *)
(* a JetStream work queue and waits for its result on a second stream      *)
(* (NATSSessionManager); workers fetch invocations, execute them, publish  *)
(* the result and acknowledge (ExecutorWorker).  The calls are the         *)
(* successive attempts of one action: the engine starts the next one when  *)
(* the last has ended without a text.  JetStream itself is external and    *)
(* modelled by what the two programs rely on: a message is redelivered     *)
(* until it is acknowledged, and a result nobody is interested in is not   *)
(* kept.                                                                   *)
(***************************************************************************)
EXTENDS Naturals, FiniteSets, Sequences

CONSTANTS
  MaxCalls,        \* attempts of the action
  Workers,
  MaxConcurrent,   \* ExecutorWorkerConfig.MaxConcurrent, also MaxAckPending
  MaxFaults,       \* crashes, stops, failed publications and late acknowledgements
  None

ASSUME RemoteAssumption ==
  /\ MaxCalls \in Nat \ {0} /\ MaxConcurrent \in Nat \ {0} /\ MaxFaults \in Nat
  /\ None \notin Workers \cup {"text", "error"}

Calls == 1..MaxCalls
Outcomes == {"text", "error"}

\* A job is the d-th delivery of a call to some worker; every delivery after
\* the first one is due to a fault.
Deliveries == 1..(MaxFaults + 1)
Jobs == Calls \X Deliveries

VARIABLES
  call,        \* the server's side: "idle", "started", "watching", "ended"
  outcome,     \* what WatchRun returned
  message,     \* the invocation in the work queue
  deliveries,  \* how often it has been delivered
  results,     \* results kept for the consumer of WatchRun
  stage,       \* stage[j]: where the worker's goroutine is
  worker,      \* worker[j]: who fetched it
  got,         \* got[j]: what the agent produced
  stopping,    \* stopping[w]: the context of Start is cancelled
  answered,    \* history: calls with a published result
  missed,      \* history: calls with a result that nobody was waiting for
  faults

serverVars == <<call, outcome>>
brokerVars == <<message, deliveries, results>>
jobVars == <<stage, worker, got>>
historyVars == <<answered, missed>>
vars == <<serverVars, brokerVars, jobVars, stopping, historyVars, faults>>

Init ==
  /\ call = [c \in Calls |-> "idle"]
  /\ outcome = [c \in Calls |-> None]
  /\ message = [c \in Calls |-> "none"]
  /\ deliveries = [c \in Calls |-> 0]
  /\ results = [c \in Calls |-> <<>>]
  /\ stage = [j \in Jobs |-> "none"]
  /\ worker = [j \in Jobs |-> None]
  /\ got = [j \in Jobs |-> None]
  /\ stopping = [w \in Workers |-> FALSE]
  /\ answered = {}
  /\ missed = {}
  /\ faults = 0

Fault == faults < MaxFaults /\ faults' = faults + 1

----------------------------------------------------------------------------
\* The server.

\* The engine retries: one attempt after the other, none after a text.
MayStart(c) ==
  /\ call[c] = "idle"
  /\ c > 1 => call[c - 1] = "ended" /\ outcome[c - 1] # "text"

StartRun(c) ==
  /\ MayStart(c)
  /\ call' = [call EXCEPT ![c] = "started"]
  /\ message' = [message EXCEPT ![c] = "ready"]
  /\ UNCHANGED <<outcome, deliveries, results, jobVars, stopping, historyVars, faults>>

\* The publication is reported as failed; the stream may have stored it.
StartRunFails(c) ==
  /\ MayStart(c)
  /\ Fault
  /\ call' = [call EXCEPT ![c] = "ended"]
  /\ \E stored \in {"none", "ready"} : message' = [message EXCEPT ![c] = stored]
  /\ UNCHANGED <<outcome, deliveries, results, jobVars, stopping, historyVars>>

\* WatchRun creates its consumer: from here on results are kept.
Watch(c) ==
  /\ call[c] = "started"
  /\ call' = [call EXCEPT ![c] = "watching"]
  /\ UNCHANGED <<outcome, brokerVars, jobVars, stopping, historyVars, faults>>

\* Mutant: only a text ends the wait.
WatchReturnsText(c) ==
  /\ call[c] = "watching"
  /\ results[c] # <<>>
  /\ Head(results[c]) = "text"
  /\ call' = [call EXCEPT ![c] = "ended"]
  /\ outcome' = [outcome EXCEPT ![c] = "text"]
  /\ results' = [results EXCEPT ![c] = <<>>]
  /\ UNCHANGED <<message, deliveries, jobVars, stopping, historyVars, faults>>

WatchReturns(c) ==
  /\ call[c] = "watching"
  /\ results[c] # <<>>
  /\ call' = [call EXCEPT ![c] = "ended"]
  /\ outcome' = [outcome EXCEPT ![c] = Head(results[c])]
  /\ results' = [results EXCEPT ![c] = <<>>]
  /\ UNCHANGED <<message, deliveries, jobVars, stopping, historyVars, faults>>

\* The context of the action ends; nobody tells the worker.
GiveUp(c) ==
  /\ call[c] \in {"started", "watching"}
  /\ call' = [call EXCEPT ![c] = "ended"]
  /\ results' = [results EXCEPT ![c] = <<>>]
  /\ UNCHANGED <<outcome, message, deliveries, jobVars, stopping, historyVars, faults>>

\* RecoverRuns returns nothing: after a restart nobody watches the old calls.
ServerCrash ==
  /\ Fault
  /\ call' = [c \in Calls |-> IF call[c] \in {"started", "watching"} THEN "ended" ELSE call[c]]
  /\ results' = [c \in Calls |-> <<>>]
  /\ UNCHANGED <<outcome, message, deliveries, jobVars, stopping, historyVars>>

----------------------------------------------------------------------------
\* The broker hands a message to the fetch loop of a worker.

Unacknowledged == {c \in Calls : message[c] \in {"leased", "due"}}
Deliverable(c) ==
  \/ message[c] = "due"
  \/ message[c] = "ready" /\ Cardinality(Unacknowledged) < MaxConcurrent

JobsOf(w, stages) == {j \in Jobs : worker[j] = w /\ stage[j] \in stages}
InHand == {"fetched", "running", "finished", "published"}

\* Fetch(1): the loop does not fetch again while a message waits for a slot.
Deliver(w, c) ==
  /\ ~stopping[w]
  /\ JobsOf(w, {"fetched"}) = {}
  /\ Deliverable(c)
  /\ deliveries[c] <= MaxFaults
  /\ deliveries' = [deliveries EXCEPT ![c] = @ + 1]
  /\ message' = [message EXCEPT ![c] = "leased"]
  /\ stage' = [stage EXCEPT ![<<c, deliveries[c] + 1>>] = "fetched"]
  /\ worker' = [worker EXCEPT ![<<c, deliveries[c] + 1>>] = w]
  /\ UNCHANGED <<serverVars, results, got, stopping, historyVars, faults>>

\* AckWait passes: at once when the job is lost, or under a job still at work.
Lost(c) == \A d \in Deliveries : stage[<<c, d>>] \notin InHand
Expire(c) ==
  /\ message[c] = "leased"
  /\ \/ Lost(c) /\ UNCHANGED faults
     \/ ~Lost(c) /\ Fault
  /\ message' = [message EXCEPT ![c] = "due"]
  /\ UNCHANGED <<serverVars, deliveries, results, jobVars, stopping, historyVars>>

----------------------------------------------------------------------------
\* The worker: handleMessage in a goroutine per message, behind a semaphore.

Slots(w) == Cardinality(JobsOf(w, {"running", "finished", "published"}))

Begin(j) ==
  /\ stage[j] = "fetched"
  /\ Slots(worker[j]) < MaxConcurrent
  /\ stage' = [stage EXCEPT ![j] = "running"]
  /\ UNCHANGED <<serverVars, brokerVars, worker, got, stopping, historyVars, faults>>

\* A cancelled context makes the prompt fail, which is an outcome like another.
Execute(j) ==
  /\ stage[j] = "running"
  /\ \E o \in Outcomes :
       /\ stopping[worker[j]] => o = "error"
       /\ got' = [got EXCEPT ![j] = o]
  /\ stage' = [stage EXCEPT ![j] = "finished"]
  /\ UNCHANGED <<serverVars, brokerVars, worker, stopping, historyVars, faults>>

\* The results stream keeps a message only for an existing consumer.
Store(c, o) ==
  IF call[c] = "watching"
  THEN results' = [results EXCEPT ![c] = Append(@, o)] /\ UNCHANGED missed
  ELSE missed' = missed \cup {c} /\ UNCHANGED results

\* Mutant: the error of the execution is not put into the result.
PublishBlind(j) ==
  /\ stage[j] = "finished"
  /\ stage' = [stage EXCEPT ![j] = "published"]
  /\ Store(j[1], "text")
  /\ answered' = answered \cup {j[1]}
  /\ UNCHANGED <<serverVars, message, deliveries, worker, got, stopping, faults>>

PublishResult(j) ==
  /\ stage[j] = "finished"
  /\ stage' = [stage EXCEPT ![j] = "published"]
  /\ Store(j[1], got[j])
  /\ answered' = answered \cup {j[1]}
  /\ UNCHANGED <<serverVars, message, deliveries, worker, got, stopping, faults>>

\* Mutant: the goroutine ends and keeps its slot.
LeavesBusy(j) == stage' = [stage EXCEPT ![j] = "over"] /\ UNCHANGED worker

\* The goroutine ends and its slot is free.
Leaves(j) ==
  /\ stage' = [stage EXCEPT ![j] = "over"]
  /\ worker' = [worker EXCEPT ![j] = None]

\* Mutant: the invocation is acknowledged although its result was not published.
PublishFailsAcks(j) ==
  /\ stage[j] = "finished"
  /\ Fault
  /\ Leaves(j)
  /\ message' = [message EXCEPT ![j[1]] = "acked"]
  /\ UNCHANGED <<serverVars, deliveries, results, got, stopping, historyVars>>

\* publishInvocationResult: no result without acknowledgement of the stream,
\* then Nak.  The stream may have stored the result all the same.
PublishFails(j) ==
  /\ stage[j] = "finished"
  /\ Fault
  /\ Leaves(j)
  /\ message' = [message EXCEPT ![j[1]] = IF @ = "leased" THEN "due" ELSE @]
  /\ \/ Store(j[1], got[j]) /\ answered' = answered \cup {j[1]}
     \/ UNCHANGED <<results, historyVars>>
  /\ UNCHANGED <<serverVars, deliveries, got, stopping>>

\* An acknowledgement of any delivery removes the message; it may get lost.
Ack(j) ==
  /\ stage[j] = "published"
  /\ Leaves(j)
  /\ \/ message' = [message EXCEPT ![j[1]] = "acked"] /\ UNCHANGED faults
     \/ Fault /\ UNCHANGED message
  /\ UNCHANGED <<serverVars, deliveries, results, got, stopping, historyVars>>

Stop(w) ==
  /\ ~stopping[w]
  /\ Fault
  /\ stopping' = [stopping EXCEPT ![w] = TRUE]
  /\ UNCHANGED <<serverVars, brokerVars, jobVars, historyVars>>

\* Start returns after wg.Wait; the worker is started again.
Restart(w) ==
  /\ stopping[w]
  /\ JobsOf(w, InHand) = {}
  /\ stopping' = [stopping EXCEPT ![w] = FALSE]
  /\ UNCHANGED <<serverVars, brokerVars, jobVars, historyVars, faults>>

WorkerCrash(w) ==
  /\ Fault
  /\ stage' = [j \in Jobs |-> IF worker[j] = w /\ stage[j] \in InHand THEN "over" ELSE stage[j]]
  /\ worker' = [j \in Jobs |-> IF worker[j] = w THEN None ELSE worker[j]]
  /\ stopping' = [stopping EXCEPT ![w] = FALSE]
  /\ UNCHANGED <<serverVars, brokerVars, got, historyVars>>

----------------------------------------------------------------------------
Job(j) == Begin(j) \/ Execute(j) \/ PublishResult(j) \/ PublishFails(j) \/ Ack(j)

Next ==
  \/ \E c \in Calls : StartRun(c) \/ StartRunFails(c) \/ Watch(c) \/ WatchReturns(c)
                      \/ GiveUp(c) \/ Expire(c)
  \/ ServerCrash
  \/ \E w \in Workers : (\E c \in Calls : Deliver(w, c)) \/ Stop(w) \/ Restart(w) \/ WorkerCrash(w)
  \/ \E j \in Jobs : Job(j)

Spec == Init /\ [][Next]_vars

\* Goroutines and the broker proceed, agents answer, a stopped worker is
\* restarted, a lost delivery expires.  Faults and contexts that end are not fair.
Fairness ==
  /\ \A c \in Calls : WF_vars(WatchReturns(c)) /\ WF_vars(message[c] = "leased" /\ Lost(c) /\ Expire(c))
  /\ \A c \in Calls : WF_vars(\E w \in Workers : Deliver(w, c))
  /\ \A j \in Jobs : WF_vars(Begin(j)) /\ WF_vars(Execute(j)) /\ WF_vars(PublishResult(j)) /\ WF_vars(Ack(j))
  /\ \A w \in Workers : WF_vars(Restart(w))

FairSpec == Spec /\ Fairness

----------------------------------------------------------------------------
Stages == {"none", "fetched", "running", "finished", "published", "over"}

\* Types, and what ties the parts of a job together: a delivery exists when it
\* is counted, has a worker while it is in hand, and an outcome once it is finished
\* (executor_worker.go handleMessage).
TypeOK ==
  /\ call \in [Calls -> {"idle", "started", "watching", "ended"}]
  /\ outcome \in [Calls -> Outcomes \cup {None}]
  /\ message \in [Calls -> {"none", "ready", "leased", "due", "acked"}]
  /\ deliveries \in [Calls -> 0..(MaxFaults + 1)]
  /\ results \in [Calls -> Seq(Outcomes)]
  /\ stage \in [Jobs -> Stages]
  /\ worker \in [Jobs -> Workers \cup {None}]
  /\ got \in [Jobs -> Outcomes \cup {None}]
  /\ stopping \in [Workers -> BOOLEAN]
  /\ answered \in SUBSET Calls /\ missed \in SUBSET Calls
  /\ faults \in 0..MaxFaults
  /\ \A c \in Calls, d \in Deliveries : stage[<<c, d>>] # "none" <=> d <= deliveries[c]
  /\ \A j \in Jobs : (stage[j] \in InHand) <=> (worker[j] \in Workers)
  /\ \A j \in Jobs : stage[j] \in {"finished", "published"} => got[j] \in Outcomes

\* An invocation leaves the work queue only when a result of it has been
\* published, whatever crashes, stops, redeliveries and failed publications
\* come between (publishInvocationResult: publish first, acknowledge after).
NothingLost == \A c \in Calls : message[c] = "acked" => c \in answered

\* The mapping to the promise of SessionManager.
Phase == [c \in Calls |-> CASE call[c] = "idle" -> "idle"
                            [] call[c] \in {"started", "watching"} -> "open"
                            [] OTHER -> "closed"]
Produced == [c \in Calls |-> {o \in Outcomes : \E d \in Deliveries : got[<<c, d>>] = o}]
Delivery == INSTANCE RunDelivery WITH phase <- Phase, produced <- Produced

\* Remote execution implements the promise: a caller is told one outcome, once,
\* and an agent has produced it for this call and no other.
ImplementsDelivery == Delivery!DeliverySpec

\* A caller that waits is answered, unless a result of its call was published
\* before its consumer existed: the workers' retries recover from every fault.
Answered == \A c \in Calls : (call[c] = "watching" /\ c \notin missed) ~> (call[c] = "ended" \/ c \in missed)
=============================================================================
