------------------------------ MODULE Lifecycle ------------------------------
(***************************************************************************)
(* The statuses of work items, actions and runs, and the tables of legal   *)
(* transitions that the flow engine consults                               *)
(* (internal/application/flow/transition.go, internal/core/workitem.go).   *)
(* The legacy names running, blocked, failed, done and closed are aliases  *)
(* of in_execution, escalated, needs_rework and completed.                 *)
(***************************************************************************)
EXTENDS Naturals

WorkItemStatus ==
  {"open", "accepted", "queued", "pending_execution", "in_execution",
   "pending_review", "needs_rework", "escalated", "completed", "cancelled"}

ActionStatus ==
  {"pending", "ready", "running", "waiting_gate", "blocked", "failed", "done",
   "cancelled"}

RunStatus == {"created", "running", "succeeded", "failed", "cancelled"}

(* The keys that validWorkItemTransitions lacks (completed, cancelled) read *)
(* as the empty list, so nothing leaves those statuses.                     *)
validWorkItemTransitions ==
  [s \in WorkItemStatus |->
     CASE s = "pending_execution" -> {"in_execution", "escalated", "cancelled"}
       [] s = "in_execution" ->
            {"pending_review", "needs_rework", "escalated", "completed", "cancelled"}
       [] s = "pending_review" -> {"needs_rework", "escalated", "completed", "cancelled"}
       [] s = "needs_rework" ->
            {"pending_execution", "in_execution", "escalated", "cancelled"}
       [] s = "escalated" ->
            {"pending_execution", "in_execution", "pending_review", "cancelled"}
       [] s = "open" ->
            {"accepted", "queued", "pending_execution", "in_execution", "cancelled"}
       [] s = "accepted" -> {"queued", "pending_execution", "in_execution", "cancelled"}
       [] s = "queued" -> {"in_execution", "cancelled"}
       [] OTHER -> {}]

validActionTransitions ==
  [s \in ActionStatus |->
     CASE s = "pending" -> {"ready", "cancelled"}
       [] s = "ready" -> {"running", "cancelled"}
       [] s = "running" ->
            {"waiting_gate", "done", "failed", "blocked", "pending", "cancelled"}
       [] s = "waiting_gate" -> {"done", "blocked", "failed", "pending", "cancelled"}
       [] s = "blocked" -> {"ready", "pending", "failed", "cancelled"}
       [] s = "failed" -> {"pending", "cancelled"}
       [] s = "done" -> {"pending"}
       [] OTHER -> {}]

validRunTransitions ==
  [s \in RunStatus |->
     CASE s = "created" -> {"running", "cancelled"}
       [] s = "running" -> {"succeeded", "failed", "cancelled"}
       [] OTHER -> {}]

ValidWorkItemTransition(from, to) == to \in validWorkItemTransitions[from]
ValidActionTransition(from, to) == to \in validActionTransitions[from]
ValidRunTransition(from, to) == to \in validRunTransitions[from]

(* runnableWorkItemStatus: the statuses engine.Run starts from.             *)
Runnable ==
  {"open", "accepted", "queued", "pending_execution", "in_execution", "needs_rework"}

(* Mutant: the held dependents (accepted) are forgotten.                    *)
PreparableOpenOnly == {"open", "pending_execution", "needs_rework", "escalated"}

(* The statuses Store.PrepareWorkItemRun turns into queued, in one UPDATE.  *)
Preparable ==
  {"open", "accepted", "pending_execution", "needs_rework", "escalated"}
==============================================================================
