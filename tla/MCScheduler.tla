----------------------------- MODULE MCScheduler -----------------------------
(* Instances of WorkItemScheduler for TLC.                                   *)
EXTENDS WorkItemScheduler, TLC

CONSTANTS a, b, c

(* b waits for a.                                                            *)
ChainDependsOn == [w \in WorkItems |-> IF w = b THEN {a} ELSE {}]

Independent == [w \in WorkItems |-> {}]

(* WorkItemRunning is an alias of in_execution: the list is scanned twice.   *)
LocalRecovery == <<"queued", "in_execution", "in_execution">>

(* The actions of an item that may fail, and of one that does not.           *)
FailingMidRun == {"in_execution", "pending_review", "needs_rework", "escalated"}
Failures == {"needs_rework", "escalated"}
CleanMidRun == {"in_execution", "pending_review"}

Symmetry == Permutations(Clients) \cup Permutations(Runners)
(* Items that do not depend on one another are alike.                        *)
IndependentSymmetry == Symmetry \cup Permutations(WorkItems)
==============================================================================
