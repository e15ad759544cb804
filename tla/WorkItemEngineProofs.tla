------------------------- MODULE WorkItemEngineProofs -------------------------
(* Proofs about WorkItemEngine, for every graph of actions, every set of     *)
(* gates and every choice of outcomes and failures: types; budgets of        *)
(* retries and rework; what a gate may send back; loops and the goroutines   *)
(* they leave behind; the order of the actions; what running and blocked     *)
(* rows mean; rejections and their answers; what is done stays done.  Where  *)
(* a second loop over the same rows, a crash or a failing store breaks a     *)
(* property in the code, the theorem says so in its hypotheses.              *)
EXTENDS WorkItemEngine, WellFoundedInduction, TLAPS

USE DEF rowVars, memVars, apiVars, loopVars, signalVars
USE DEF SetStatus, SetStage, SetRun, Use, Callers

-----------------------------------------------------------------------------
(* The least of a set of ranks is one of them.                               *)
LEMMA MinIsMember ==
  ASSUME NEW S \in SUBSET Nat, S # {}
  PROVE  Min(S) \in S
<1> DEFINE R == OpToRel(<, Nat)
<1>1. \A x, y \in Nat : <<x, y>> \in R <=> x < y
  BY DEF OpToRel
<1>2. IsWellFoundedOn(R, Nat)
  BY NatLessThanWellFounded
<1> HIDE DEF R
<1>3. PICK x \in S : \A y \in S : ~(<<y, x>> \in R)
  BY <1>2, WFMin
<1>4. \A y \in S : x =< y
  <2> TAKE y \in S
  <2>1. x \in Nat /\ y \in Nat
    OBVIOUS
  <2>2. ~(y < x)
    BY <1>1, <1>3, <2>1
  <2> QED
    BY <2>1, <2>2
<1> QED
  BY <1>4 DEF Min

LEMMA MinOfActions ==
  ASSUME NEW S \in SUBSET Actions, S # {}
  PROVE  Min(S) \in S
BY MinIsMember, ActionsAssumption

-----------------------------------------------------------------------------
(* The parts of TypeOK that goroutines move.                                 *)
StagesTyped ==
  /\ stage \in [Engines -> [Actions -> Stage]]
  /\ copy \in [Engines -> [Actions -> Nat]]
  /\ todo \in [Engines -> [Actions -> SUBSET Actions]]
  /\ \A r \in Engines, a \in Actions :
       stage[r][a] \in {"evaluate", "merge", "reject", "reset"} => a \in Gates
RowsTyped == item \in WorkItemStatus /\ status \in [Actions -> ActionStatus]

LEMMA SyncedType ==
  ASSUME TypeOK, NEW a, NEW s
  PROVE  Synced(a, s) \in WorkItemStatus
BY DEF TypeOK, Synced, WorkItemStatus

(* A transition of an action leaves a legal status, whatever it was.         *)
LEMMA TransitionType ==
  ASSUME TypeOK, NEW a, NEW from, NEW to \in ActionStatus, Transition(from, a, to)
  PROVE  RowsTyped'
BY SyncedType DEF TypeOK, Transition, RowsTyped

LEMMA SetStatusType ==
  ASSUME TypeOK, NEW a, NEW s \in ActionStatus, SetStatus(a, s)
  PROVE  status' \in [Actions -> ActionStatus]
BY DEF TypeOK

LEMMA SetStageType ==
  ASSUME TypeOK, NEW r \in Engines, NEW a \in Actions, NEW s \in Stage,
         s \in {"evaluate", "merge", "reject", "reset"} => a \in Gates,
         SetStage(r, a, s)
  PROVE  /\ stage' \in [Engines -> [Actions -> Stage]]
         /\ \A q \in Engines, b \in Actions :
              stage'[q][b] \in {"evaluate", "merge", "reject", "reset"} => b \in Gates
BY DEF TypeOK

LEMMA EndsType ==
  ASSUME TypeOK, NEW r \in Engines, NEW a \in Actions, Ends(r, a)
  PROVE  StagesTyped'
<1>1. "none" \in Stage
  BY DEF Stage
<1>2. SetStage(r, a, "none")
  BY DEF Ends
<1>3. copy' \in [Engines -> [Actions -> Nat]]
  BY DEF Ends, TypeOK
<1>4. todo' \in [Engines -> [Actions -> SUBSET Actions]]
  BY DEF Ends, TypeOK
<1> QED
  BY <1>1, <1>2, <1>3, <1>4, SetStageType DEF StagesTyped

LEMMA ReturnsType ==
  ASSUME TypeOK, NEW r \in Engines, NEW a \in Actions,
         Returns(r, a) \/ ReturnsError(r, a)
  PROVE  StagesTyped' /\ failed' \in [Engines -> BOOLEAN]
BY EndsType DEF Returns, ReturnsError, TypeOK

LEMMA RetryOrFailType ==
  ASSUME TypeOK, NEW r \in Engines, NEW a \in Actions, RetryOrFail(r, a)
  PROVE  /\ RowsTyped' /\ StagesTyped' /\ failed' \in [Engines -> BOOLEAN]
         /\ retries' \in [Actions -> Nat]
<1>1. {"pending", "failed"} \subseteq ActionStatus
  BY DEF ActionStatus
<1>2. Returns(r, a) \/ ReturnsError(r, a)
  BY DEF RetryOrFail
<1>3. RowsTyped'
  BY <1>1, TransitionType DEF RetryOrFail, RowsTyped, TypeOK
<1>4. retries' \in [Actions -> Nat]
  <2>1. copy[r][a] + 1 \in Nat /\ retries \in [Actions -> Nat]
    BY DEF TypeOK
  <2>2. \/ UNCHANGED retries
        \/ retries' = [retries EXCEPT ![a] = copy[r][a] + 1]
    BY DEF RetryOrFail
  <2> QED
    BY <2>1, <2>2
<1> QED
  BY <1>2, <1>3, <1>4, ReturnsType

(* A goroutine's step that types what goroutines move types everything.      *)
LEMMA GoroutineType ==
  ASSUME TypeOK, RowsTyped', StagesTyped', failed' \in [Engines -> BOOLEAN],
         retries' \in [Actions -> Nat],
         runRow' \in [Actions -> {"none", "running", "succeeded", "failed"}],
         owed' \subseteq Gates \X Actions, UNCHANGED <<signalVars, loopVars, apiVars>>
  PROVE  TypeOK'
BY DEF TypeOK, RowsTyped, StagesTyped



(* What a gate resets are actions of the work item.                          *)
LEMMA TargetsAreActions ==
  ASSUME NEW g \in Actions
  PROVE  /\ ImmediatePredecessors(g) \subseteq Actions
         /\ DefaultResetTargets(g) \subseteq Actions
BY ActionsAssumption DEF ImmediatePredecessors, DefaultResetTargets, AllPredecessors

LEMMA ResettingType ==
  ASSUME TypeOK, NEW r \in Engines, NEW g \in Gates, UNCHANGED copy,
         \E s \in {"reject", "merge"} : SetStage(r, g, s),
         \/ UNCHANGED todo
         \/ \E S \in SUBSET Actions : todo' = [todo EXCEPT ![r][g] = S]
  PROVE  StagesTyped'
<1>1. g \in Actions /\ {"reject", "merge"} \subseteq Stage
  BY EngineAssumption DEF Stage
<1>2. todo' \in [Engines -> [Actions -> SUBSET Actions]]
  <2>1. todo \in [Engines -> [Actions -> SUBSET Actions]]
    BY DEF TypeOK
  <2>2. CASE UNCHANGED todo
    BY <2>1, <2>2
  <2>3. CASE \E S \in SUBSET Actions : todo' = [todo EXCEPT ![r][g] = S]
    <3>1. PICK S \in SUBSET Actions : todo' = [todo EXCEPT ![r][g] = S]
      BY <2>3
    <3> QED
      BY <1>1, <2>1, <3>1
  <2> QED
    BY <2>2, <2>3
<1> QED
  BY <1>1, <1>2, SetStageType DEF StagesTyped, TypeOK

(* Every step of a goroutine keeps the types.                                *)
LEMMA GoroutineStepType ==
  ASSUME TypeOK, NEW r \in Engines, NEW a \in Actions, GoroutineStep(r, a)
  PROVE  TypeOK'
<1> USE DEF ActionStatus
<1>1. RowsTyped /\ StagesTyped
  BY DEF TypeOK, RowsTyped, StagesTyped
<1>2. Redone(a) => owed' \subseteq Gates \X Actions
  BY DEF TypeOK, Redone
<1>3. ASSUME NEW s \in {"running", "succeeded", "failed"}, SetRun(a, s)
      PROVE  runRow' \in [Actions -> {"none", "running", "succeeded", "failed"}]
  BY <1>3 DEF TypeOK
<1>4. {"none", "prepare", "execute", "evaluate", "merge", "reject", "reset"}
        \subseteq Stage
  BY DEF Stage
<1>5. CASE PrepareFails(r, a) \/ GoroutineAborts(r, a)
  BY <1>1, <1>5, ReturnsType, GoroutineType
  DEF PrepareFails, GoroutineAborts, TypeOK, RowsTyped
<1>6. CASE StartRun(r, a)
  <2>1. StagesTyped'
    BY <1>1, <1>4, <1>6, SetStageType DEF StartRun, StagesTyped
  <2> QED
    BY <1>1, <1>3, <1>6, <2>1, GoroutineType DEF StartRun, TypeOK, RowsTyped
<1>7. CASE ExecutorFails(r, a)
  <2>1. runRow' \in [Actions -> {"none", "running", "succeeded", "failed"}]
    BY <1>3, <1>7 DEF ExecutorFails
  <2>2. CASE RetryOrFail(r, a)
    BY <1>7, <2>1, <2>2, RetryOrFailType, GoroutineType DEF ExecutorFails, TypeOK
  <2>3. CASE \E s \in {"failed", "blocked"} :
               /\ Transition("running", a, s)
               /\ Returns(r, a) \/ ReturnsError(r, a)
               /\ UNCHANGED retries
    BY <1>7, <2>1, <2>3, TransitionType, ReturnsType, GoroutineType
    DEF ExecutorFails, TypeOK
  <2> QED
    BY <1>7, <2>2, <2>3 DEF ExecutorFails
<1>8. CASE ExecutorSucceeds(r, a)
  <2>1. /\ runRow' \in [Actions -> {"none", "running", "succeeded", "failed"}]
        /\ retries' \in [Actions -> Nat]
        /\ UNCHANGED <<signalVars, loopVars, apiVars>>
    BY <1>3, <1>8 DEF ExecutorSucceeds, TypeOK
  <2>2. RowsTyped'
    BY <1>1, <1>8, TransitionType DEF ExecutorSucceeds, RowsTyped
  <2>3. owed' \subseteq Gates \X Actions
    BY <1>2, <1>8 DEF ExecutorSucceeds, TypeOK
  <2>4. StagesTyped' /\ failed' \in [Engines -> BOOLEAN]
    <3>1. CASE Returns(r, a) \/ ReturnsError(r, a)
      BY <3>1, ReturnsType
    <3>2. CASE a \in Gates /\ SetStage(r, a, "evaluate") /\ UNCHANGED <<failed, copy, todo>>
      BY <1>1, <1>4, <3>2, SetStageType DEF StagesTyped, TypeOK
    <3> QED
      BY <1>8, <3>1, <3>2 DEF ExecutorSucceeds
  <2> QED
    BY <2>1, <2>2, <2>3, <2>4, GoroutineType
<1>9. CASE ChildReturns(r, a)
  <2>1. owed' \subseteq Gates \X Actions
    BY <1>2, <1>9 DEF ChildReturns, TypeOK
  <2>2. /\ runRow' \in [Actions -> {"none", "running", "succeeded", "failed"}]
        /\ UNCHANGED <<signalVars, loopVars, apiVars>>
    BY <1>9 DEF ChildReturns, TypeOK
  <2>3. CASE RetryOrFail(r, a)
    BY <2>1, <2>2, <2>3, RetryOrFailType, GoroutineType
  <2>4. CASE \E s \in {"failed", "done"} :
               /\ Transition("running", a, s)
               /\ Returns(r, a) \/ ReturnsError(r, a)
               /\ UNCHANGED retries
    BY <2>1, <2>2, <2>4, TransitionType, ReturnsType, GoroutineType DEF TypeOK
  <2> QED
    BY <1>9, <2>3, <2>4 DEF ChildReturns
<1>10. CASE Evaluate(r, a)
  <2>1. a \in Gates
    BY <1>10 DEF Evaluate, TypeOK
  <2>2. /\ ImmediatePredecessors(a) \subseteq Actions
        /\ DefaultResetTargets(a) \subseteq Actions
    BY TargetsAreActions
  <2>3. /\ \E s \in {"reject", "merge"} : SetStage(r, a, s)
        /\ \/ UNCHANGED todo
           \/ \E S \in SUBSET Actions : todo' = [todo EXCEPT ![r][a] = S]
        /\ UNCHANGED <<failed, copy>>
    BY <1>10, <2>2 DEF Evaluate, Passes, Rejects
  <2>4. StagesTyped'
    BY <1>1, <1>4, <2>1, <2>3, ResettingType
  <2> QED
    BY <1>1, <1>10, <2>3, <2>4, GoroutineType DEF Evaluate, TypeOK, RowsTyped
<1>11. CASE Merge(r, a)
  <2>1. a \in Gates
    BY <1>11 DEF Merge, TypeOK
  <2>2. RowsTyped'
    BY <1>1, <1>11, TransitionType DEF Merge, RowsTyped
  <2>3. owed' \subseteq Gates \X Actions
    BY <1>2, <1>11 DEF Merge, TypeOK
  <2>4. /\ runRow' \in [Actions -> {"none", "running", "succeeded", "failed"}]
        /\ retries' \in [Actions -> Nat]
        /\ UNCHANGED <<signalVars, loopVars, apiVars>>
    BY <1>11 DEF Merge, TypeOK
  <2>5. StagesTyped' /\ failed' \in [Engines -> BOOLEAN]
    <3>1. CASE Returns(r, a)
      BY <3>1, ReturnsType
    <3>2. CASE /\ Rejects(r, a, DefaultResetTargets(a))
               /\ UNCHANGED <<failed, copy>>
      BY <1>1, <1>4, <2>1, <3>2, TargetsAreActions, ResettingType DEF Rejects, TypeOK
    <3> QED
      BY <1>11, <3>1, <3>2 DEF Merge
  <2> QED
    BY <2>2, <2>3, <2>4, <2>5, GoroutineType
<1>12. CASE RejectAtLimit(r, a)
  BY <1>12, TransitionType, ReturnsType, GoroutineType
  DEF RejectAtLimit, BlockGate, TypeOK
<1>13. CASE RecordReject(r, a)
  <2>1. a \in Gates
    BY <1>13 DEF RecordReject, TypeOK
  <2>2. StagesTyped'
    BY <1>1, <1>4, <1>13, <2>1, SetStageType DEF RecordReject, StagesTyped
  <2>3. {a} \X todo[r][a] \subseteq Gates \X Actions
    BY <2>1 DEF TypeOK
  <2>4. owed' \subseteq Gates \X Actions
    BY <1>13, <2>3 DEF RecordReject, TypeOK
  <2> QED
    BY <1>13, <2>2, <2>4 DEF RecordReject, TypeOK, StagesTyped
<1>14. CASE ResetUpstream(r, a)
  <2> DEFINE t == Min(todo[r][a])
  <2>1. CASE BudgetSpent(t)
    BY <1>14, <2>1, TransitionType, ReturnsType, GoroutineType
    DEF ResetUpstream, BlockGate, TypeOK
  <2>2. CASE ~BudgetSpent(t)
    <3> HIDE DEF t
    <3>1. /\ retries' = [retries EXCEPT ![t] = @ + 1]
          /\ SetStatus(t, "pending")
          /\ todo' = [todo EXCEPT ![r][a] = @ \ {t}]
          /\ UNCHANGED <<item, stage, copy, failed, runRow, owed, apiVars>>
          /\ UNCHANGED <<signalVars, loopVars>>
      BY <1>14, <2>2 DEF ResetUpstream, t
    <3>2. status' \in [Actions -> ActionStatus]
      BY <3>1 DEF TypeOK
    <3>3. retries' \in [Actions -> Nat]
      <4>1. \A b \in Actions : retries[b] \in Nat /\ retries[b] + 1 \in Nat
        BY DEF TypeOK
      <4>2. retries' = [b \in Actions |-> IF b = t THEN retries[b] + 1 ELSE retries[b]]
        BY <3>1 DEF TypeOK
      <4> QED
        BY <4>1, <4>2
    <3>4. todo' \in [Engines -> [Actions -> SUBSET Actions]]
      BY <3>1 DEF TypeOK
    <3> QED
      BY <3>1, <3>2, <3>3, <3>4 DEF TypeOK
  <2> QED
    BY <2>1, <2>2
<1>15. CASE FinishReject(r, a)
  <2>1. "needs_rework" \in WorkItemStatus
    BY DEF WorkItemStatus
  <2> QED
    BY <1>15, <2>1, SetStatusType, ReturnsType, GoroutineType
    DEF FinishReject, RowsTyped, TypeOK
<1> QED
  BY <1>5, <1>6, <1>7, <1>8, <1>9, <1>10, <1>11, <1>12, <1>13, <1>14, <1>15
  DEF GoroutineStep

(* Every step of a loop keeps the types.                                     *)
LEMMA LoopStepType ==
  ASSUME TypeOK, NEW r \in Engines, LoopStep(r)
  PROVE  TypeOK'
<1> USE DEF TypeOK
<1>1. \A S \in SUBSET Actions :
        MakeReady(S) => status' \in [Actions -> ActionStatus]
  BY DEF MakeReady, ActionStatus
<1>2. \A S : \A i \in WorkItemStatus : ItemAfterReady(S, i) \in WorkItemStatus
  BY DEF ItemAfterReady, WorkItemStatus
<1>3. CASE Launch(r)
  <2> DEFINE entries == {a \in EntryActions : status[a] = "pending"}
  <2>1. entries \in SUBSET Actions /\ "in_execution" \in WorkItemStatus
    BY DEF EntryActions, WorkItemStatus
  <2>2. /\ status' \in [Actions -> ActionStatus]
        /\ item' \in WorkItemStatus
    BY <1>1, <1>2, <1>3, <2>1 DEF Launch
  <2> QED
    BY <1>3, <2>2 DEF Launch, LoopPC
<1>4. CASE LaunchRefused(r)
  BY <1>4 DEF LaunchRefused
<1>5. CASE LoopEnds(r)
  BY <1>5 DEF LoopEnds, LoopPC
<1>6. CASE LoopPromotes(r)
  <2>1. PromotableActions \in SUBSET Actions /\ RunnableActions \in SUBSET Actions
    BY DEF PromotableActions, RunnableActions
  <2>2. /\ status' \in [Actions -> ActionStatus]
        /\ item' \in WorkItemStatus
    BY <1>1, <1>2, <1>6, <2>1 DEF LoopPromotes
  <2>3. copy' \in [Engines -> [Actions -> Nat]]
    BY <1>6 DEF LoopPromotes
  <2> QED
    BY <1>6, <2>1, <2>2, <2>3 DEF LoopPromotes, LoopPC
<1>7. CASE Dispatch(r)
  <2> DEFINE a == Min(batch[r])
  <2>1. Transition("ready", a, "running") /\ "running" \in ActionStatus
    BY <1>7 DEF Dispatch, ActionStatus
  <2>2. /\ \/ SetStage(r, a, "child") /\ UNCHANGED pc
           \/ pc' = [pc EXCEPT ![r] = "acquire"] /\ UNCHANGED <<stage, batch>>
        /\ \/ UNCHANGED batch
           \/ batch' = [batch EXCEPT ![r] = @ \ {a}] /\ UNCHANGED pc
        /\ pc[r] = "dispatch" /\ batch[r] # {}
        /\ UNCHANGED <<retries, runRow, latest, rounds, rejections, owed, up>>
        /\ UNCHANGED <<queue, registered, cancelled, failed, copy, todo, apiVars>>
    BY <1>7 DEF Dispatch
  <2> HIDE DEF a
  <2>3. RowsTyped'
    BY <2>1, TransitionType
  <2>4. /\ stage' \in [Engines -> [Actions -> Stage]]
        /\ \A q \in Engines, b \in Actions :
             stage'[q][b] \in {"evaluate", "merge", "reject", "reset"} => b \in Gates
    <3>1. CASE UNCHANGED stage
      BY <3>1
    <3>2. CASE SetStage(r, a, "child")
      BY <3>2 DEF Stage
    <3> QED
      BY <2>2, <3>1, <3>2
  <2>5. /\ batch' \in [Engines -> SUBSET Actions]
        /\ pc' \in [Engines -> LoopPC]
        /\ \A q \in Engines : pc'[q] = "acquire" => batch'[q] # {}
    <3>1. CASE UNCHANGED batch /\ pc' = [pc EXCEPT ![r] = "acquire"]
      BY <2>2, <3>1 DEF LoopPC
    <3>2. CASE batch' = [batch EXCEPT ![r] = @ \ {a}] /\ UNCHANGED pc
      <4>1. batch' \in [Engines -> SUBSET Actions]
        BY <3>2
      <4>2. \A q \in Engines : pc'[q] = "acquire" => q # r
        BY <2>2, <3>2
      <4> QED
        BY <3>2, <4>1, <4>2
    <3>3. CASE UNCHANGED <<batch, pc>>
      BY <3>3
    <3> QED
      BY <2>2, <3>1, <3>2, <3>3
  <2> QED
    BY <2>2, <2>3, <2>4, <2>5 DEF RowsTyped
<1>8. CASE Acquire(r)
  <2> DEFINE a == Min(batch[r])
  <2>1. /\ SetStage(r, a, "prepare")
        /\ batch' = [batch EXCEPT ![r] = @ \ {a}]
        /\ pc' = [pc EXCEPT ![r] = "dispatch"]
        /\ UNCHANGED <<item, rowVars, owed, up, queue, registered>>
        /\ UNCHANGED <<cancelled, failed, copy, todo, apiVars>>
    BY <1>8 DEF Acquire
  <2> HIDE DEF a
  <2>2. /\ stage' \in [Engines -> [Actions -> Stage]]
        /\ \A q \in Engines, b \in Actions :
             stage'[q][b] \in {"evaluate", "merge", "reject", "reset"} => b \in Gates
    BY <2>1 DEF Stage
  <2>3. /\ batch' \in [Engines -> SUBSET Actions]
        /\ pc' \in [Engines -> LoopPC]
        /\ \A q \in Engines : pc'[q] = "acquire" => batch'[q] # {}
    BY <2>1 DEF LoopPC
  <2> QED
    BY <2>1, <2>2, <2>3
<1>9. CASE Barrier(r)
  BY <1>9 DEF Barrier, LoopPC
<1>10. CASE LoopAborts(r)
  BY <1>10 DEF LoopAborts, LoopPC
<1>11. CASE RunReturns(r)
  BY <1>11 DEF RunReturns, LoopPC, TerminalFailureState, WorkItemStatus
<1> QED
  BY <1>3, <1>4, <1>5, <1>6, <1>7, <1>8, <1>9, <1>10, <1>11 DEF LoopStep

(* So does every step of a request, a cancellation, a crash, the recovery.   *)
LEMMA ReadsType ==
  ASSUME TypeOK, NEW c \in Callers, NEW S \in SUBSET Actions, Reads(c, S),
         used' \in [Events -> Nat]
  PROVE  TypeOK'
<1>1. held' \in [Callers -> SUBSET Actions] /\ busy' \subseteq Callers
  BY DEF Reads, TypeOK
<1>2. old' \in [Callers -> [Actions -> Nat]]
  BY DEF Reads, TypeOK
<1> QED
  BY <1>1, <1>2 DEF Reads, TypeOK

LEMMA WritesBackType ==
  ASSUME TypeOK, NEW c \in Callers, NEW a \in Actions, WritesBack(c, a),
         busy' \subseteq busy
  PROVE  TypeOK'
<1>1. "pending" \in ActionStatus
  BY DEF ActionStatus
<1>2. status' \in [Actions -> ActionStatus]
  BY <1>1, SetStatusType DEF WritesBack
<1>3. retries' \in [Actions -> Nat] /\ old' \in [Callers -> [Actions -> Nat]]
  BY DEF WritesBack, TypeOK
<1>4. held' \in [Callers -> SUBSET Actions]
  BY DEF WritesBack, TypeOK
<1> QED
  BY <1>2, <1>3, <1>4 DEF WritesBack, TypeOK

LEMMA OutsideStepType ==
  ASSUME TypeOK, RequestStep \/ Cancel \/ Crash \/ Recover
  PROVE  TypeOK'
<1> USE DEF TypeOK
<1>1. {"queued", "cancelled"} \subseteq WorkItemStatus
  BY DEF WorkItemStatus
<1>2. "pending" \in ActionStatus
  BY DEF ActionStatus
<1>3. \A e, bound : Use(e, bound) => used' \in [Events -> Nat]
  <2> TAKE e, bound
  <2>1. e \in Events => used[e] + 1 \in Nat
    OBVIOUS
  <2> QED
    BY <2>1
<1>4. ASSUME NEW g \in Gates, Signal(g) PROVE TypeOK'
  <2>1. used' \in [Events -> Nat]
    BY <1>3, <1>4 DEF Signal
  <2>2. PICK d \in Decisions :
          /\ latest' = [latest EXCEPT ![g] = d]
          /\ rejections' =
               [rejections EXCEPT ![g] = IF d = "reject" THEN @ + 1 ELSE @]
    BY <1>4 DEF Signal
  <2>3. d \in {"approve", "reject"} /\ rejections[g] + 1 \in Nat
    BY EngineAssumption
  <2> QED
    BY <1>4, <2>1, <2>2, <2>3 DEF Signal
<1>5. ASSUME NEW c \in Unblockers, NEW a \in Actions,
             UnblockReads(c, a) \/ Unblock(c, a)
      PROVE  TypeOK'
  <2>1. CASE UnblockReads(c, a)
    BY <1>3, <2>1, ReadsType DEF UnblockReads
  <2>2. CASE Unblock(c, a)
    BY <2>2, WritesBackType DEF Unblock
  <2> QED
    BY <1>5, <2>1, <2>2
<1>6. ASSUME NEW c \in Rerunners, RerunReads(c) \/ RerunWrites(c) \/ Rerun(c)
      PROVE  TypeOK'
  <2>1. CASE RerunReads(c)
    BY <1>3, <2>1, ReadsType DEF RerunReads
  <2>2. CASE RerunWrites(c)
    <3>1. Min(held[c]) \in Actions
      BY <2>2, MinOfActions DEF RerunWrites
    <3> QED
      BY <2>2, <3>1, WritesBackType DEF RerunWrites
  <2>3. CASE Rerun(c)
    <3>1. item' \in WorkItemStatus /\ queue' \in Nat /\ busy' \subseteq Callers
      BY <1>1, <2>3 DEF Rerun
    <3> QED
      BY <2>3, <3>1 DEF Rerun
  <2> QED
    BY <1>6, <2>1, <2>2, <2>3
<1>7. CASE Cancel
  <2>1. used' \in [Events -> Nat]
    BY <1>3, <1>7 DEF Cancel
  <2>2. item' \in WorkItemStatus /\ queue' \in Nat /\ cancelled' \subseteq Engines
    BY <1>1, <1>7 DEF Cancel
  <2> QED
    BY <1>7, <2>1, <2>2 DEF Cancel
<1>8. CASE Crash
  <2>1. used' \in [Events -> Nat]
    BY <1>3, <1>8 DEF Crash
  <2>2. /\ pc' \in [Engines -> LoopPC]
        /\ stage' \in [Engines -> [Actions -> Stage]]
        /\ \A q \in Engines : pc'[q] = "idle"
        /\ \A q \in Engines, b \in Actions : stage'[q][b] = "none"
    BY <1>8 DEF Crash, NoMemory, LoopPC, Stage
  <2>3. /\ copy' \in [Engines -> [Actions -> Nat]]
        /\ todo' \in [Engines -> [Actions -> SUBSET Actions]]
        /\ batch' \in [Engines -> SUBSET Actions]
        /\ failed' \in [Engines -> BOOLEAN]
        /\ registered' \in Engines \cup {None}
        /\ cancelled' \subseteq Engines
        /\ queue' \in Nat
    BY <1>8 DEF Crash, NoMemory
  <2>4. /\ busy' \subseteq Callers
        /\ held' \in [Callers -> SUBSET Actions]
        /\ old' \in [Callers -> [Actions -> Nat]]
    BY <1>8 DEF Crash, NoMemory
  <2> QED
    BY <1>8, <2>1, <2>2, <2>3, <2>4 DEF Crash
<1>9. CASE Recover
  <2>1. status' \in [Actions -> ActionStatus]
    BY <1>2, <1>9 DEF Recover
  <2>2. runRow' \in [Actions -> {"none", "running", "succeeded", "failed"}]
    BY <1>9 DEF Recover
  <2>3. item' \in WorkItemStatus /\ queue' \in Nat
    BY <1>1, <1>9 DEF Recover
  <2> QED
    BY <1>9, <2>1, <2>2, <2>3 DEF Recover
<1> QED
  BY <1>4, <1>5, <1>6, <1>7, <1>8, <1>9 DEF RequestStep

LEMMA TypeInit == Init => TypeOK
<1> SUFFICES ASSUME Init PROVE TypeOK
  OBVIOUS
<1> USE DEF Init
<1>1. item \in WorkItemStatus /\ status \in [Actions -> ActionStatus]
  BY DEF WorkItemStatus, ActionStatus
<1>2. pc \in [Engines -> LoopPC] /\ stage \in [Engines -> [Actions -> Stage]]
  BY DEF LoopPC, Stage
<1>3. /\ copy \in [Engines -> [Actions -> Nat]]
      /\ todo \in [Engines -> [Actions -> SUBSET Actions]]
      /\ held \in [Callers -> SUBSET Actions]
      /\ old \in [Callers -> [Actions -> Nat]]
  OBVIOUS
<1> QED
  BY <1>1, <1>2, <1>3 DEF TypeOK, Events

LEMMA TypeStep == TypeOK /\ [Next]_vars => TypeOK'
<1>1. TypeOK /\ UNCHANGED vars => TypeOK'
  BY DEF TypeOK, vars
<1> QED
  BY <1>1, LoopStepType, GoroutineStepType, OutsideStepType DEF Next

(* The engine's rows, its loops' memory and its API keep their types through *)
(* every retry, rejection, cancellation, crash and recovery, whatever the    *)
(* graph of actions is (Run, executeAction, ProcessGate, the API handlers).  *)
THEOREM EngineTypeCorrect == Spec => []TypeOK
BY TypeInit, TypeStep, PTL DEF Spec

-----------------------------------------------------------------------------
(* A retry counts from the copy, which was taken when the loop promoted the  *)
(* action; a rejection counts from the row.  Both check the budget first.    *)
LEMMA RetryWithinBudget ==
  ASSUME TypeOK, RetriesWithinBudget, NEW r \in Engines, NEW a \in Actions,
         RetryOrFail(r, a)
  PROVE  RetriesWithinBudget'
<1>1. copy[r][a] \in Nat /\ MaxRetries[a] \in Nat /\ retries \in [Actions -> Nat]
  BY EngineAssumption DEF TypeOK
<1>2. \/ UNCHANGED retries
      \/ /\ retries' = [retries EXCEPT ![a] = copy[r][a] + 1]
         /\ copy[r][a] < MaxRetries[a]
  BY DEF RetryOrFail
<1> QED
  BY <1>1, <1>2 DEF RetriesWithinBudget

LEMMA ResetWithinBudget ==
  ASSUME TypeOK, RetriesWithinBudget, NEW r \in Engines, NEW g \in Actions,
         ResetUpstream(r, g)
  PROVE  RetriesWithinBudget'
<1> DEFINE t == Min(todo[r][g])
<1>1. CASE BudgetSpent(t)
  BY <1>1 DEF ResetUpstream, RetriesWithinBudget
<1>2. CASE ~BudgetSpent(t)
  <2>1. retries' = [retries EXCEPT ![t] = @ + 1]
    BY <1>2 DEF ResetUpstream
  <2> HIDE DEF t
  <2>2. \A b \in Actions : retries[b] \in Nat /\ MaxRetries[b] \in Nat
    BY EngineAssumption DEF TypeOK
  <2>3. retries' = [b \in Actions |-> IF b = t THEN retries[b] + 1 ELSE retries[b]]
    BY <2>1 DEF TypeOK
  <2> QED
    BY <1>2, <2>2, <2>3 DEF BudgetSpent, RetriesWithinBudget
<1> QED
  BY <1>1, <1>2

-----------------------------------------------------------------------------
(* What a step of a request can do to the rows.                              *)
LeavesRows ==
  /\ UNCHANGED <<status, retries, owed, overtaken>>
  /\ \/ UNCHANGED <<item, queue>>
     \/ item \in Preparable /\ item' = "queued" /\ queue' = queue + 1

LEMMA RequestRows ==
  ASSUME TypeOK, RequestStep
  PROVE  /\ up /\ UNCHANGED <<runRow, rounds, up, memVars>>
         /\ \/ LeavesRows
            \/ \E c \in Callers : \E a \in held[c] : WritesBack(c, a)
         /\ used'["cancel"] = used["cancel"] /\ used'["crash"] = used["crash"]
<1>1. ASSUME NEW g \in Gates, Signal(g)
      PROVE  /\ up /\ LeavesRows /\ UNCHANGED <<runRow, rounds, up, memVars>>
             /\ used' = [used EXCEPT !["signal"] = @ + 1]
  BY <1>1 DEF Signal, LeavesRows
<1>2. ASSUME NEW c \in Unblockers, NEW a \in Actions, UnblockReads(c, a)
      PROVE  /\ up /\ LeavesRows /\ UNCHANGED <<runRow, rounds, up, memVars>>
             /\ used' = [used EXCEPT !["unblock"] = @ + 1]
  BY <1>2 DEF UnblockReads, Reads, LeavesRows
<1>3. ASSUME NEW c \in Unblockers, NEW a \in Actions, Unblock(c, a)
      PROVE  /\ up /\ a \in held[c] /\ WritesBack(c, a)
             /\ UNCHANGED <<runRow, rounds, up, memVars, used>>
  BY <1>3 DEF Unblock, WritesBack
<1>4. ASSUME NEW c \in Rerunners, RerunReads(c)
      PROVE  /\ up /\ LeavesRows /\ UNCHANGED <<runRow, rounds, up, memVars>>
             /\ used' = [used EXCEPT !["rerun"] = @ + 1]
  BY <1>4 DEF RerunReads, Reads, LeavesRows
<1>5. ASSUME NEW c \in Rerunners, RerunWrites(c)
      PROVE  /\ up /\ \E a \in held[c] : WritesBack(c, a)
             /\ UNCHANGED <<runRow, rounds, up, memVars, used>>
  <2>1. Min(held[c]) \in held[c]
    <3>1. held[c] \in SUBSET Actions /\ held[c] # {}
      BY <1>5 DEF TypeOK, RerunWrites
    <3> QED
      BY <3>1, MinOfActions
  <2> QED
    BY <1>5, <2>1 DEF RerunWrites, WritesBack
<1>6. ASSUME NEW c \in Rerunners, Rerun(c)
      PROVE  up /\ LeavesRows /\ UNCHANGED <<runRow, rounds, up, memVars, used>>
  BY <1>6 DEF Rerun, LeavesRows
<1>7. ASSUME NEW e \in {"signal", "unblock", "rerun"},
             used' = [used EXCEPT ![e] = @ + 1]
      PROVE  used'["cancel"] = used["cancel"] /\ used'["crash"] = used["crash"]
  BY <1>7 DEF TypeOK, Events
<1> QED
  BY <1>1, <1>2, <1>3, <1>4, <1>5, <1>6, <1>7 DEF RequestStep

(* Whoever reads a row reads a count within the budget.                      *)
BudgetInv ==
  /\ RetriesWithinBudget
  /\ \A c \in Callers, a \in Actions :
       MaxRetries[a] > 0 => old[c][a] =< MaxRetries[a]

LEMMA BudgetRequest ==
  ASSUME TypeOK, BudgetInv, RequestStep
  PROVE  BudgetInv'
<1> USE DEF TypeOK, BudgetInv, RetriesWithinBudget
<1>1. \A b \in Actions : MaxRetries[b] \in Nat
  BY EngineAssumption
<1>2. ASSUME NEW c \in Callers, NEW S \in SUBSET Actions, Reads(c, S)
      PROVE  BudgetInv'
  <2>1. \A a \in Actions : MaxRetries[a] > 0 => old'[c][a] =< MaxRetries[a]
    BY <1>1, <1>2 DEF Reads
  <2> QED
    BY <1>2, <2>1 DEF Reads
<1>3. ASSUME NEW c \in Callers, NEW a \in Actions, WritesBack(c, a)
      PROVE  BudgetInv'
  <2>1. \A b \in Actions : MaxRetries[b] > 0 => retries'[b] =< MaxRetries[b]
    BY <1>3 DEF WritesBack
  <2>2. \A q \in Callers, b \in Actions :
          old'[q][b] = IF q = c /\ b = a THEN 0 ELSE old[q][b]
    BY <1>3 DEF WritesBack
  <2> QED
    BY <1>1, <2>1, <2>2
<1>4. ASSUME UNCHANGED <<retries, old>>
      PROVE  BudgetInv'
  BY <1>4
<1>5. ASSUME NEW c \in Rerunners, RerunWrites(c)
      PROVE  BudgetInv'
  <2>1. Min(held[c]) \in Actions
    BY <1>5, MinOfActions DEF RerunWrites
  <2> QED
    BY <1>3, <1>5, <2>1 DEF RerunWrites
<1> QED
  BY <1>2, <1>3, <1>4, <1>5
  DEF RequestStep, Signal, UnblockReads, Unblock, RerunReads, Rerun

LEMMA BudgetStep ==
  TypeOK /\ BudgetInv /\ [Next]_vars => BudgetInv'
<1> SUFFICES ASSUME TypeOK, BudgetInv, [Next]_vars
             PROVE  BudgetInv'
  OBVIOUS
<1>1. RetriesWithinBudget' /\ UNCHANGED old => BudgetInv'
  BY DEF BudgetInv
<1>2. UNCHANGED retries => RetriesWithinBudget'
  BY DEF BudgetInv, RetriesWithinBudget
<1>3. ASSUME NEW r \in Engines, LoopStep(r) PROVE UNCHANGED <<retries, old>>
  BY <1>3 DEF LoopStep, Launch, LaunchRefused, LoopEnds, LoopPromotes, Dispatch,
     Acquire, Barrier, LoopAborts, RunReturns
<1>4. ASSUME NEW r \in Engines, NEW a \in Actions, GoroutineStep(r, a)
      PROVE  /\ UNCHANGED retries \/ RetryOrFail(r, a) \/ ResetUpstream(r, a)
             /\ UNCHANGED old
  BY <1>4 DEF GoroutineStep, PrepareFails, StartRun, ExecutorFails,
     ExecutorSucceeds, ChildReturns, Evaluate, Merge, RejectAtLimit,
     RecordReject, ResetUpstream, FinishReject, GoroutineAborts
<1>5. CASE Cancel \/ Recover \/ UNCHANGED vars
  BY <1>1, <1>2, <1>5 DEF Cancel, Recover, vars
<1>6. CASE Crash
  <2>1. \A c \in Callers, a \in Actions : old'[c][a] = 0
    BY <1>6 DEF Crash, NoMemory
  <2>2. \A a \in Actions : MaxRetries[a] \in Nat
    BY EngineAssumption
  <2>3. RetriesWithinBudget'
    BY <1>2, <1>6 DEF Crash
  <2> QED
    BY <2>1, <2>2, <2>3 DEF BudgetInv
<1> QED
  BY <1>1, <1>2, <1>3, <1>4, <1>5, <1>6, BudgetRequest, RetryWithinBudget,
     ResetWithinBudget
  DEF Next, BudgetInv

(* No action with a budget is retried or sent back more often than its       *)
(* max_retries allows, however executors' failures, gates' rejections, rows  *)
(* written back late and several loops over the same rows interleave         *)
(* (handleFailure, ProcessGate, resetRetryableActions).                      *)
THEOREM BudgetCorrect == Spec => []RetriesWithinBudget
<1>1. Init => BudgetInv
  BY EngineAssumption DEF Init, BudgetInv, RetriesWithinBudget
<1>2. BudgetInv => RetriesWithinBudget
  BY DEF BudgetInv
<1> QED
  BY <1>1, <1>2, BudgetStep, EngineTypeCorrect, PTL DEF Spec


-----------------------------------------------------------------------------
(* The order of the actions.                                                 *)

LEMMA PredecessorsAreActions ==
  ASSUME NEW a \in Actions
  PROVE  Predecessors(a) \subseteq Actions
BY ActionsAssumption DEF Predecessors

(* What a gate may have to send back, whichever path computes it.            *)
ResetTargets(g) == DefaultResetTargets(g) \cup ImmediatePredecessors(g)

(* No action waits for itself.                                               *)
LEMMA NotOwnPredecessor ==
  ASSUME NEW a \in Actions
  PROVE  a \notin Predecessors(a)
<1>1. {a} \in SUBSET Actions /\ {a} # {}
  OBVIOUS
<1>2. ~(\A b \in {a} : Predecessors(b) \cap {a} # {})
  BY <1>1, ActionsValid DEF Acyclic
<1> QED
  BY <1>2

(* predecessorActionIDs (dag.go): everything upstream of an action holds the *)
(* predecessors of each of its members, and never the action itself, so that *)
(* a gate with reset_upstream_closure does not send itself back.             *)
THEOREM ClosureIsUpstream ==
  ASSUME NEW a \in Actions
  PROVE  /\ Predecessors(a) \subseteq AllPredecessors(a)
         /\ Closed(AllPredecessors(a))
         /\ a \notin AllPredecessors(a)
<1>1. \A c \in Actions :
        /\ AllPredecessors(c) \subseteq Actions
        /\ Predecessors(c) \subseteq AllPredecessors(c)
        /\ Closed(AllPredecessors(c))
  <2> TAKE c \in Actions
  <2>1. AllPredecessors(c) \subseteq Actions
    BY DEF AllPredecessors
  <2>2. Predecessors(c) \subseteq AllPredecessors(c)
    BY PredecessorsAreActions DEF AllPredecessors
  <2>3. ASSUME NEW b \in AllPredecessors(c), NEW p \in Predecessors(b)
        PROVE  p \in AllPredecessors(c)
    <3>1. p \in Actions
      BY <2>1, PredecessorsAreActions
    <3>2. ASSUME NEW S \in SUBSET Actions, Closed(S), Predecessors(c) \subseteq S
          PROVE  p \in S
      <4>1. b \in S
        BY <3>2 DEF AllPredecessors
      <4> QED
        BY <3>2, <4>1 DEF Closed
    <3> QED
      BY <3>1, <3>2 DEF AllPredecessors
  <2> QED
    BY <2>1, <2>2, <2>3 DEF Closed
<1>2. a \notin AllPredecessors(a)
  <2> SUFFICES ASSUME a \in AllPredecessors(a) PROVE FALSE
    OBVIOUS
  <2> DEFINE T == {b \in AllPredecessors(a) : a \in AllPredecessors(b)}
  <2>1. T \in SUBSET Actions /\ T # {}
    BY <1>1
  <2>2. ASSUME NEW c \in T, Predecessors(c) \cap T = {}
        PROVE  FALSE
    <3>1. c \in Actions /\ c \in AllPredecessors(a) /\ a \in AllPredecessors(c)
      BY <1>1
    <3>2. Predecessors(c) \subseteq AllPredecessors(a)
      BY <1>1, <3>1 DEF Closed
    <3>3. \A p \in Predecessors(c) : p \in Actions /\ a \notin AllPredecessors(p) /\ p # a
      BY <2>2, <3>1, <3>2, PredecessorsAreActions
    <3> DEFINE U == {b \in Actions : a \notin AllPredecessors(b) /\ b # a}
    <3>4. U \in SUBSET Actions /\ Predecessors(c) \subseteq U
      BY <3>3
    <3>5. ASSUME NEW b \in U, NEW p \in Predecessors(b)
          PROVE  p \in U
      <4>1. p \in AllPredecessors(b) /\ p \in Actions /\ b \in Actions
        BY <1>1
      <4>2. p # a
        BY <4>1
      <4>3. AllPredecessors(p) \subseteq AllPredecessors(b)
        <5>1. /\ Closed(AllPredecessors(b))
              /\ Predecessors(p) \subseteq AllPredecessors(b)
          BY <1>1, <4>1 DEF Closed
        <5>2. AllPredecessors(b) \in SUBSET Actions
          BY <1>1, <4>1
        <5> QED
          BY <5>1, <5>2 DEF AllPredecessors
      <4> QED
        BY <4>1, <4>2, <4>3
    <3>6. a \in U
      <4>1. Closed(U)
        BY <3>5 DEF Closed
      <4> HIDE DEF U
      <4> QED
        BY <3>1, <3>4, <4>1 DEF AllPredecessors
    <3> QED
      BY <3>6
  <2> HIDE DEF T
  <2> QED
    BY <2>1, <2>2, ActionsValid DEF Acyclic
<1> QED
  BY <1>1, <1>2

(* In a list of actions a gate's closure is what comes before it.            *)
LEMMA LinearTargets ==
  ASSUME ~DagMode, NEW g \in Actions
  PROVE  ResetTargets(g) \subseteq Predecessors(g)
<1>1. \A c \in Actions : Predecessors(c) = {b \in Actions : b < c}
  BY DEF Predecessors
<1>2. Predecessors(g) \in SUBSET Actions
  BY <1>1
<1>3. Closed(Predecessors(g))
  <2> SUFFICES ASSUME NEW b \in Predecessors(g), NEW p \in Predecessors(b)
               PROVE  p \in Predecessors(g)
    BY DEF Closed
  <2>1. b \in Actions /\ p \in Actions /\ b < g /\ p < b
    BY <1>1
  <2>2. b \in Nat /\ p \in Nat /\ g \in Nat
    BY <2>1, ActionsAssumption
  <2>3. p < g
    BY <2>1, <2>2
  <2> QED
    BY <1>1, <2>1, <2>3
<1>4. AllPredecessors(g) \subseteq Predecessors(g)
  BY <1>2, <1>3 DEF AllPredecessors
<1>5. ImmediatePredecessors(g) \subseteq Predecessors(g)
  BY <1>1 DEF ImmediatePredecessors
<1> QED
  BY <1>4, <1>5 DEF ResetTargets, DefaultResetTargets

-----------------------------------------------------------------------------
(* What a step of a goroutine can do to the rows: it gives up and leaves     *)
(* them, goes on to its next store call, finishes with a transition of its   *)
(* own action, records a rejection, or resets one upstream action.           *)
GivesUp(r, a) ==
  /\ Ends(r, a)
  /\ UNCHANGED <<item, status, owed>>
  /\ \/ r \in cancelled
     \/ stage[r][a] = "prepare" /\ "prepare" \in Faults
     \/ stage[r][a] = "execute" /\ "persist" \in Faults
Advances(r, a) ==
  /\ Working(r)
  /\ stage[r][a] \in {"prepare", "execute", "evaluate", "merge"}
  /\ \E s \in {"execute", "evaluate", "merge", "reject"} : SetStage(r, a, s)
  /\ \/ UNCHANGED todo
     \/ \E S \in SUBSET ResetTargets(a) : todo' = [todo EXCEPT ![r][a] = S]
  /\ UNCHANGED <<item, status, owed>>
FinishesAs(r, a, s) ==
  /\ SetStatus(a, s)
  /\ IF s = "done"
       THEN Redone(a) /\ stage[r][a] \in {"execute", "child", "merge"}
       ELSE UNCHANGED owed
  /\ stage[r][a] = "reset" /\ s = "pending" => todo[r][a] = {}
Finishes(r, a) ==
  /\ Working(r) /\ Ends(r, a)
  /\ \E s \in {"pending", "failed", "blocked", "done"} : FinishesAs(r, a, s)
  /\ stage[r][a] = "reset" =>
       FinishesAs(r, a, "pending") \/ FinishesAs(r, a, "blocked")
Records(r, a) ==
  /\ Working(r) /\ stage[r][a] = "reject"
  /\ SetStage(r, a, "reset")
  /\ owed' = owed \cup ({a} \X todo[r][a])
  /\ UNCHANGED <<item, status, todo>>
Resets(r, a) ==
  /\ Working(r) /\ stage[r][a] = "reset"
  /\ \E t \in todo[r][a] :
       SetStatus(t, "pending") /\ todo' = [todo EXCEPT ![r][a] = @ \ {t}]
  /\ UNCHANGED <<item, stage, owed>>
RowStep(r, a) ==
  \/ GivesUp(r, a) \/ Advances(r, a) \/ Finishes(r, a)
  \/ Records(r, a) \/ Resets(r, a)

LEMMA TransitionSets ==
  ASSUME NEW from, NEW a, NEW to, Transition(from, a, to)
  PROVE  SetStatus(a, to)
BY DEF Transition

LEMMA RetryFinishes ==
  ASSUME NEW r \in Engines, NEW a \in Actions, Working(r),
         stage[r][a] \in {"execute", "child"}, UNCHANGED owed, RetryOrFail(r, a)
  PROVE  Finishes(r, a)
BY TransitionSets DEF RetryOrFail, Returns, ReturnsError, Finishes, FinishesAs

LEMMA GoroutineRows ==
  ASSUME TypeOK, NEW r \in Engines, NEW a \in Actions, GoroutineStep(r, a)
  PROVE  RowStep(r, a) /\ up /\ stage[r][a] # "none" /\ UNCHANGED <<loopVars, apiVars>>
<1>1. UNCHANGED <<loopVars, apiVars>>
  BY DEF GoroutineStep, PrepareFails, StartRun, ExecutorFails, ExecutorSucceeds,
     ChildReturns, Evaluate, Merge, RejectAtLimit, RecordReject, ResetUpstream,
     FinishReject, GoroutineAborts
<1>2. up /\ stage[r][a] # "none"
  BY DEF GoroutineStep, PrepareFails, StartRun, ExecutorFails, ExecutorSucceeds,
     ChildReturns, Evaluate, Merge, RejectAtLimit, RecordReject, ResetUpstream,
     FinishReject, GoroutineAborts, Working
<1>3. CASE PrepareFails(r, a) \/ GoroutineAborts(r, a)
  <2>1. GivesUp(r, a)
    BY <1>3 DEF PrepareFails, GoroutineAborts, ReturnsError, GivesUp
  <2> QED
    BY <1>1, <1>2, <2>1 DEF RowStep
<1>4. CASE StartRun(r, a)
  <2>1. Advances(r, a)
    BY <1>4 DEF StartRun, Advances
  <2> QED
    BY <1>1, <1>2, <2>1 DEF RowStep
<1>5. CASE ExecutorFails(r, a)
  <2>1. Working(r) /\ stage[r][a] = "execute" /\ UNCHANGED owed
    BY <1>5 DEF ExecutorFails
  <2>2. CASE RetryOrFail(r, a)
    BY <1>1, <1>2, <2>1, <2>2, RetryFinishes DEF RowStep
  <2>3. CASE \E s \in {"failed", "blocked"} :
               /\ Transition("running", a, s)
               /\ Returns(r, a) \/ ReturnsError(r, a)
    <3>1. Finishes(r, a)
      BY <2>1, <2>3, TransitionSets DEF Returns, ReturnsError, Finishes, FinishesAs
    <3> QED
      BY <1>1, <1>2, <3>1 DEF RowStep
  <2> QED
    BY <1>5, <2>2, <2>3 DEF ExecutorFails
<1>6. CASE ExecutorSucceeds(r, a)
  <2>1. Working(r) /\ stage[r][a] = "execute"
    BY <1>6 DEF ExecutorSucceeds
  <2>2. CASE Transition("running", a, "blocked") /\ Returns(r, a) /\ UNCHANGED owed
    <3>1. Finishes(r, a)
      BY <2>1, <2>2, TransitionSets DEF Returns, Finishes, FinishesAs
    <3> QED
      BY <1>1, <1>2, <3>1 DEF RowStep
  <2>3. CASE /\ "persist" \in Faults /\ ReturnsError(r, a)
             /\ UNCHANGED <<item, status, owed>>
    <3>1. GivesUp(r, a)
      BY <2>1, <2>3 DEF ReturnsError, GivesUp
    <3> QED
      BY <1>1, <1>2, <3>1 DEF RowStep
  <2>4. CASE SetStage(r, a, "evaluate") /\ UNCHANGED <<item, status, owed, todo>>
    <3>1. Advances(r, a)
      BY <2>1, <2>4 DEF Advances
    <3> QED
      BY <1>1, <1>2, <3>1 DEF RowStep
  <2>5. CASE Transition("running", a, "done") /\ Returns(r, a) /\ Redone(a)
    <3>1. Finishes(r, a)
      BY <2>1, <2>5, TransitionSets DEF Returns, Finishes, FinishesAs
    <3> QED
      BY <1>1, <1>2, <3>1 DEF RowStep
  <2> QED
    BY <1>6, <2>2, <2>3, <2>4, <2>5 DEF ExecutorSucceeds
<1>7. CASE ChildReturns(r, a)
  <2>1. Working(r) /\ stage[r][a] = "child"
    BY <1>7 DEF ChildReturns
  <2>2. CASE Transition("running", a, "done") /\ Returns(r, a) /\ Redone(a)
    <3>1. Finishes(r, a)
      BY <2>1, <2>2, TransitionSets DEF Returns, Finishes, FinishesAs
    <3> QED
      BY <1>1, <1>2, <3>1 DEF RowStep
  <2>3. CASE RetryOrFail(r, a) /\ UNCHANGED owed
    BY <1>1, <1>2, <2>1, <2>3, RetryFinishes DEF RowStep
  <2>4. CASE Transition("running", a, "failed") /\ ReturnsError(r, a) /\ UNCHANGED owed
    <3>1. Finishes(r, a)
      BY <2>1, <2>4, TransitionSets DEF ReturnsError, Finishes, FinishesAs
    <3> QED
      BY <1>1, <1>2, <3>1 DEF RowStep
  <2> QED
    BY <1>7, <2>2, <2>3, <2>4 DEF ChildReturns
<1>8. CASE Evaluate(r, a)
  <2>1. /\ Working(r) /\ stage[r][a] = "evaluate"
        /\ UNCHANGED <<item, status, owed>>
    BY <1>8 DEF Evaluate
  <2>2. \/ Passes(r, a)
        \/ \E S \in SUBSET ResetTargets(a) : Rejects(r, a, S)
    BY <1>8 DEF Evaluate, ResetTargets
  <2>3. Advances(r, a)
    BY <2>1, <2>2 DEF Passes, Rejects, Advances
  <2> QED
    BY <1>1, <1>2, <2>3 DEF RowStep
<1>9. CASE Merge(r, a)
  <2>1. Working(r) /\ stage[r][a] = "merge"
    BY <1>9 DEF Merge
  <2>2. CASE Transition("running", a, "done") /\ Redone(a) /\ Returns(r, a)
    <3>1. Finishes(r, a)
      BY <2>1, <2>2, TransitionSets DEF Returns, Finishes, FinishesAs
    <3> QED
      BY <1>1, <1>2, <3>1 DEF RowStep
  <2>3. CASE Transition("running", a, "blocked") /\ Returns(r, a) /\ UNCHANGED owed
    <3>1. Finishes(r, a)
      BY <2>1, <2>3, TransitionSets DEF Returns, Finishes, FinishesAs
    <3> QED
      BY <1>1, <1>2, <3>1 DEF RowStep
  <2>4. CASE /\ Rejects(r, a, DefaultResetTargets(a))
             /\ UNCHANGED <<item, status, owed>>
    <3>1. DefaultResetTargets(a) \in SUBSET ResetTargets(a)
      BY DEF ResetTargets
    <3>2. Advances(r, a)
      BY <2>1, <2>4, <3>1 DEF Rejects, Advances
    <3> QED
      BY <1>1, <1>2, <3>2 DEF RowStep
  <2> QED
    BY <1>9, <2>2, <2>3, <2>4 DEF Merge
<1>10. CASE RejectAtLimit(r, a)
  <2>1. Finishes(r, a)
    BY <1>10, TransitionSets
    DEF RejectAtLimit, BlockGate, Returns, Finishes, FinishesAs
  <2> QED
    BY <1>1, <1>2, <2>1 DEF RowStep
<1>11. CASE RecordReject(r, a)
  <2>1. Records(r, a)
    BY <1>11 DEF RecordReject, Records
  <2> QED
    BY <1>1, <1>2, <2>1 DEF RowStep
<1>12. CASE ResetUpstream(r, a)
  <2> DEFINE t == Min(todo[r][a])
  <2>1. Working(r) /\ stage[r][a] = "reset" /\ todo[r][a] # {} /\ UNCHANGED owed
    BY <1>12 DEF ResetUpstream
  <2>2. t \in todo[r][a]
    <3>1. todo[r][a] \in SUBSET Actions
      BY DEF TypeOK
    <3> QED
      BY <2>1, <3>1, MinOfActions
  <2>3. CASE BudgetSpent(t)
    <3>1. BlockGate(r, a)
      BY <1>12, <2>3 DEF ResetUpstream
    <3>2. Finishes(r, a)
      BY <2>1, <3>1, TransitionSets DEF BlockGate, Returns, Finishes, FinishesAs
    <3> QED
      BY <1>1, <1>2, <3>2 DEF RowStep
  <2>4. CASE ~BudgetSpent(t)
    <3>1. /\ SetStatus(t, "pending")
          /\ todo' = [todo EXCEPT ![r][a] = @ \ {t}]
          /\ UNCHANGED <<item, stage>>
      BY <1>12, <2>4 DEF ResetUpstream
    <3> HIDE DEF t
    <3>2. Resets(r, a)
      BY <2>1, <2>2, <3>1 DEF Resets
    <3> QED
      BY <1>1, <1>2, <3>2 DEF RowStep
  <2> QED
    BY <2>3, <2>4
<1>13. CASE FinishReject(r, a)
  <2>1. Finishes(r, a)
    BY <1>13 DEF FinishReject, Returns, Finishes, FinishesAs
  <2> QED
    BY <1>1, <1>2, <2>1 DEF RowStep
<1> QED
  BY <1>3, <1>4, <1>5, <1>6, <1>7, <1>8, <1>9, <1>10, <1>11, <1>12, <1>13
  DEF GoroutineStep

-----------------------------------------------------------------------------
(* Loops and goroutines, whatever the rows say.  Behind a barrier there is   *)
(* no goroutine; one that outlives its loop, or its loop's last error, is of *)
(* a cancelled loop; the batch only holds actions not yet started.           *)
LoopInv ==
  /\ \A r \in Engines, a \in Actions : stage[r][a] # "none" =>
       /\ up
       /\ pc[r] \notin {"list", "succeed"}
       /\ pc[r] \in {"idle", "fail"} => r \in cancelled
       /\ a \notin batch[r]
  /\ \A r \in Engines :
       /\ batch[r] # {} => pc[r] \in {"dispatch", "acquire"}
       /\ pc[r] # "idle" => up
  /\ \A r \in Engines, a \in Actions : todo[r][a] \subseteq ResetTargets(a)
  /\ registered # None => pc[registered] # "idle"

LEMMA LoopGoroutine ==
  ASSUME TypeOK, LoopInv, NEW r \in Engines, NEW a \in Actions, GoroutineStep(r, a)
  PROVE  LoopInv'
<1>1. /\ RowStep(r, a) /\ stage[r][a] # "none"
      /\ UNCHANGED <<up, registered, cancelled, pc, batch>>
  BY GoroutineRows
<1>2. \E s : stage' = [stage EXCEPT ![r][a] = s]
  <2>1. CASE Resets(r, a)
    BY <2>1 DEF Resets, TypeOK
  <2>2. CASE ~Resets(r, a)
    BY <1>1, <2>2 DEF RowStep, GivesUp, Advances, Finishes, Records, Ends
  <2> QED
    BY <2>1, <2>2
<1>3. \A q \in Engines, b \in Actions : stage'[q][b] # "none" => stage[q][b] # "none"
  BY <1>1, <1>2 DEF TypeOK
<1>4. \E S \in SUBSET ResetTargets(a) : todo' = [todo EXCEPT ![r][a] = S]
  <2>1. todo = [todo EXCEPT ![r][a] = todo[r][a]] /\ todo[r][a] \subseteq ResetTargets(a)
    BY DEF TypeOK, LoopInv
  <2>2. CASE GivesUp(r, a) \/ Finishes(r, a)
    BY <2>2 DEF GivesUp, Finishes, Ends
  <2>3. CASE Advances(r, a) \/ Records(r, a)
    BY <2>1, <2>3 DEF Advances, Records
  <2>4. CASE Resets(r, a)
    <3>1. PICK t \in todo[r][a] : todo' = [todo EXCEPT ![r][a] = @ \ {t}]
      BY <2>4 DEF Resets
    <3>2. todo' = [todo EXCEPT ![r][a] = todo[r][a] \ {t}]
      BY <3>1
    <3> QED
      BY <2>1, <3>2
  <2> QED
    BY <1>1, <2>2, <2>3, <2>4 DEF RowStep
<1>5. \A q \in Engines, b \in Actions : todo'[q][b] \subseteq ResetTargets(b)
  BY <1>4 DEF TypeOK, LoopInv
<1> QED
  BY <1>1, <1>3, <1>5 DEF LoopInv, ResetTargets, DefaultResetTargets

LEMMA MinOfBatch ==
  ASSUME TypeOK, NEW r \in Engines, batch[r] # {}
  PROVE  Min(batch[r]) \in batch[r] /\ Min(batch[r]) \in Actions
<1>1. batch[r] \in SUBSET Actions
  BY DEF TypeOK
<1> QED
  BY <1>1, MinOfActions

LEMMA LoopLoop ==
  ASSUME TypeOK, LoopInv, NEW r \in Engines, LoopStep(r)
  PROVE  LoopInv'
<1> USE DEF TypeOK, LoopInv, ResetTargets, DefaultResetTargets
<1>1. CASE Launch(r)
  <2>1. \A a \in Actions : stage[r][a] = "none"
    BY <1>1 DEF Launch, Goroutines
  <2> QED
    BY <1>1, <2>1 DEF Launch
<1>2. CASE LaunchRefused(r)
  BY <1>2 DEF LaunchRefused
<1>3. CASE LoopEnds(r)
  BY <1>3 DEF LoopEnds, Working
<1>4. CASE LoopPromotes(r)
  BY <1>4 DEF LoopPromotes, Working
<1>5. CASE Dispatch(r)
  <2> DEFINE a == Min(batch[r])
  <2>1. a \in batch[r] /\ a \in Actions /\ pc[r] = "dispatch" /\ up
    BY <1>5, MinOfBatch DEF Dispatch, Working
  <2>2. /\ \/ SetStage(r, a, "child") /\ batch' = [batch EXCEPT ![r] = @ \ {a}] /\ UNCHANGED pc
           \/ pc' = [pc EXCEPT ![r] = "acquire"] /\ UNCHANGED <<stage, batch>>
        /\ UNCHANGED <<up, registered, cancelled, todo>>
    BY <1>5 DEF Dispatch
  <2> HIDE DEF a
  <2>3. CASE /\ SetStage(r, a, "child") /\ UNCHANGED pc
             /\ batch' = [batch EXCEPT ![r] = @ \ {a}]
    BY <2>1, <2>2, <2>3
  <2>4. CASE pc' = [pc EXCEPT ![r] = "acquire"] /\ UNCHANGED <<stage, batch>>
    BY <2>1, <2>2, <2>4
  <2> QED
    BY <2>2, <2>3, <2>4
<1>6. CASE Acquire(r)
  <2> DEFINE a == Min(batch[r])
  <2>1. a \in batch[r] /\ a \in Actions /\ pc[r] = "acquire" /\ up
    BY <1>6, MinOfBatch DEF Acquire
  <2>2. /\ SetStage(r, a, "prepare")
        /\ batch' = [batch EXCEPT ![r] = @ \ {a}]
        /\ pc' = [pc EXCEPT ![r] = "dispatch"]
        /\ UNCHANGED <<up, registered, cancelled, todo>>
    BY <1>6 DEF Acquire
  <2> HIDE DEF a
  <2> QED
    BY <2>1, <2>2
<1>7. CASE Barrier(r)
  BY <1>7 DEF Barrier, Goroutines
<1>8. CASE LoopAborts(r)
  BY <1>8 DEF LoopAborts
<1>9. CASE RunReturns(r)
  BY <1>9 DEF RunReturns
<1> QED
  BY <1>1, <1>2, <1>3, <1>4, <1>5, <1>6, <1>7, <1>8, <1>9 DEF LoopStep

LEMMA LoopOutside ==
  ASSUME TypeOK, LoopInv,
         RequestStep \/ Cancel \/ Crash \/ Recover
  PROVE  LoopInv'
<1> USE DEF LoopInv, ResetTargets, DefaultResetTargets
<1>1. CASE RequestStep
  <2>1. UNCHANGED <<up, memVars>>
    BY <1>1, RequestRows
  <2> QED
    BY <2>1
<1>2. CASE Cancel
  BY <1>2 DEF Cancel, TypeOK
<1>3. CASE Crash
  BY <1>3 DEF Crash, NoMemory
<1>4. CASE Recover
  BY <1>4 DEF Recover
<1> QED
  BY <1>1, <1>2, <1>3, <1>4

LEMMA LoopStepInv == TypeOK /\ LoopInv /\ [Next]_vars => LoopInv'
<1>1. LoopInv /\ UNCHANGED vars => LoopInv'
  BY DEF LoopInv, vars, ResetTargets, DefaultResetTargets
<1> QED
  BY <1>1, LoopGoroutine, LoopLoop, LoopOutside DEF Next

(* Whatever crashes, cancellations and failures interleave, a goroutine      *)
(* never survives the barrier of its loop, and a loop that is over has left  *)
(* one behind only when it was cancelled (scheduleLoop's wg.Wait and early   *)
(* return).                                                                  *)
THEOREM LoopsCorrect == Spec => []LoopInv
<1>1. Init => LoopInv
  BY DEF Init, LoopInv
<1> QED
  BY <1>1, LoopStepInv, EngineTypeCorrect, PTL DEF Spec

-----------------------------------------------------------------------------
(* The order of the actions, for one loop at a time: the scheduler never     *)
(* runs a work item twice at once (that it can is a finding of its own), and *)
(* what a gate sends back is either everything before it in a list, or feeds *)
(* that gate only.                                                           *)
OneLoop == \E r : Engines = {r}
FeedsOnly(g) ==
  \A t \in ResetTargets(g), a \in Actions : t \in Predecessors(a) <=> a = g
OrderSafe == ~DagMode \/ \A g \in Gates : FeedsOnly(g)

(* An action that a turn of the loop would start, or has in its batch.       *)
Due(r, a) == status[a] = "ready" \/ a \in batch[r]
WorkedRunning(r) == \A a \in Actions : stage[r][a] # "none" => status[a] = "running"
BatchStatus(r) ==
  \A a \in batch[r] :
    status[a] = IF pc[r] = "acquire" /\ a = Min(batch[r]) THEN "running" ELSE "ready"
BuildsOnDone(r) ==
  \A a \in Actions :
    Due(r, a) \/ stage[r][a] \notin {"none", "reset"}
      => \A b \in Predecessors(a) : status[b] = "done"
(* A gate that resets a list has it to itself.                               *)
ResetsAlone(r) ==
  ~DagMode => \A g \in Actions : stage[r][g] = "reset" =>
    \A a \in Actions \ {g} : ~Due(r, a) /\ stage[r][a] = "none"
TodoDone(r) ==
  \A g \in Actions : stage[r][g] = "reset" => \A t \in todo[r][g] : status[t] = "done"
InOrderOf(r) ==
  /\ WorkedRunning(r)
  /\ BatchStatus(r)
  /\ BuildsOnDone(r)
  /\ ResetsAlone(r)
  /\ TodoDone(r)
InOrder == \A r \in Engines : InOrderOf(r)

(* What the end of a goroutine writes, action by action.                     *)
LEMMA EndsOf ==
  ASSUME TypeOK, NEW r \in Engines, NEW a \in Actions, Ends(r, a)
  PROVE  /\ \A b \in Actions : stage'[r][b] = IF b = a THEN "none" ELSE stage[r][b]
         /\ \A b \in Actions : todo'[r][b] = IF b = a THEN {} ELSE todo[r][b]
BY DEF Ends, TypeOK

LEMMA DirectTargets ==
  ASSUME OrderSafe, NEW g \in Gates
  PROVE  ResetTargets(g) \subseteq Predecessors(g)
<1>1. g \in Actions
  BY EngineAssumption
<1>2. CASE ~DagMode
  BY <1>1, <1>2, LinearTargets
<1>3. CASE FeedsOnly(g)
  BY <1>1, <1>3 DEF FeedsOnly
<1> QED
  BY <1>2, <1>3 DEF OrderSafe

LEMMA OrderGoroutine ==
  ASSUME TypeOK, LoopInv, OneLoop, OrderSafe,
         NEW r \in Engines, NEW a \in Actions, InOrderOf(r), GoroutineStep(r, a)
  PROVE  InOrderOf(r)'
<1>1. /\ RowStep(r, a) /\ stage[r][a] # "none"
      /\ UNCHANGED <<up, cancelled, pc, batch>>
  BY GoroutineRows
<1>2. status[a] = "running" /\ a \notin batch[r] /\ batch[r] \subseteq Actions
  BY <1>1 DEF InOrderOf, WorkedRunning, LoopInv, TypeOK
<1>3. \A b \in Actions : Predecessors(b) \subseteq Actions
  BY PredecessorsAreActions
<1>4. \A b \in Actions : todo[r][b] \subseteq Actions
  BY DEF TypeOK
<1> USE DEF InOrderOf, WorkedRunning, BatchStatus, BuildsOnDone, ResetsAlone, TodoDone, Due
<1>5. CASE GivesUp(r, a)
  <2>1. /\ UNCHANGED status
        /\ \A b \in Actions : stage'[r][b] = IF b = a THEN "none" ELSE stage[r][b]
        /\ \A b \in Actions : todo'[r][b] = IF b = a THEN {} ELSE todo[r][b]
    BY <1>5, EndsOf DEF GivesUp
  <2> QED
    BY <1>1, <1>2, <2>1
<1>6. CASE Advances(r, a)
  <2>1. PICK s \in {"execute", "evaluate", "merge", "reject"} : SetStage(r, a, s)
    BY <1>6 DEF Advances
  <2>2. \A b \in Actions : stage'[r][b] = IF b = a THEN s ELSE stage[r][b]
    BY <2>1 DEF TypeOK
  <2>3. /\ UNCHANGED status
        /\ stage[r][a] \in {"prepare", "execute", "evaluate", "merge"}
        /\ \A b \in Actions : b # a => todo'[r][b] = todo[r][b]
    BY <1>6 DEF Advances, TypeOK
  <2>4. WorkedRunning(r)'
    BY <1>1, <1>2, <1>3, <1>4, <2>2, <2>3
  <2>5. BatchStatus(r)'
    BY <1>1, <1>2, <1>3, <1>4, <2>2, <2>3
  <2>6. BuildsOnDone(r)'
    BY <1>1, <1>2, <1>3, <1>4, <2>2, <2>3
  <2>7. ResetsAlone(r)'
    BY <1>1, <1>2, <1>3, <1>4, <2>2, <2>3
  <2>8. TodoDone(r)'
    BY <1>1, <1>2, <1>3, <1>4, <2>2, <2>3
  <2> QED
    BY <2>4, <2>5, <2>6, <2>7, <2>8
<1>7. CASE Finishes(r, a)
  <2>1. PICK s \in {"pending", "failed", "blocked", "done"} : SetStatus(a, s)
    BY <1>7 DEF Finishes, FinishesAs
  <2>2. /\ \A b \in Actions : stage'[r][b] = IF b = a THEN "none" ELSE stage[r][b]
        /\ \A b \in Actions : todo'[r][b] = IF b = a THEN {} ELSE todo[r][b]
        /\ \A b \in Actions : status'[b] = IF b = a THEN s ELSE status[b]
    <3>1. \A b \in Actions : status'[b] = IF b = a THEN s ELSE status[b]
      BY <2>1 DEF TypeOK
    <3> QED
      BY <1>7, <3>1, EndsOf DEF Finishes
  <2>3. WorkedRunning(r)'
    BY <1>1, <1>2, <1>3, <1>4, <2>2
  <2>4. BatchStatus(r)'
    BY <1>1, <1>2, <1>3, <1>4, <2>2
  <2>5. BuildsOnDone(r)'
    BY <1>1, <1>2, <1>3, <1>4, <2>2
  <2>6. ResetsAlone(r)'
    BY <1>1, <1>2, <1>3, <1>4, <2>2
  <2>7. TodoDone(r)'
    BY <1>1, <1>2, <1>3, <1>4, <2>2
  <2> QED
    BY <2>3, <2>4, <2>5, <2>6, <2>7
<1>8. CASE Records(r, a)
  <2>1. /\ \A b \in Actions : stage'[r][b] = IF b = a THEN "reset" ELSE stage[r][b]
        /\ UNCHANGED <<status, todo>> /\ stage[r][a] = "reject"
    BY <1>8 DEF Records, TypeOK
  <2>2. a \in Gates
    BY <2>1 DEF TypeOK
  <2>3. \A b \in Predecessors(a) : status[b] = "done"
    BY <2>1
  <2>4. \A t \in todo[r][a] : status[t] = "done"
    BY <2>2, <2>3, DirectTargets DEF LoopInv
  <2>5. ASSUME ~DagMode, NEW b \in Actions \ {a}
        PROVE  status[b] # "ready" /\ b \notin batch[r] /\ stage[r][b] = "none"
    <3>1. a \in Nat /\ b \in Nat
      BY ActionsAssumption
    <3>2. CASE b < a
      <4>1. status[b] = "done"
        BY <2>3, <2>5, <3>2 DEF Predecessors
      <4> QED
        BY <4>1
    <3>3. CASE a < b
      <4>1. a \in Predecessors(b)
        BY <2>5, <3>3 DEF Predecessors
      <4>2. /\ status[b] # "ready" /\ b \notin batch[r]
            /\ stage[r][b] \in {"none", "reset"}
        BY <1>2, <4>1
      <4>3. stage[r][b] # "reset"
        BY <1>1, <2>5
      <4> QED
        BY <4>2, <4>3
    <3> QED
      BY <2>5, <3>1, <3>2, <3>3
  <2>6. WorkedRunning(r)'
    BY <1>1, <1>2, <1>3, <1>4, <2>1, <2>4, <2>5
  <2>7. BatchStatus(r)'
    BY <1>1, <1>2, <1>3, <1>4, <2>1, <2>4, <2>5
  <2>8. BuildsOnDone(r)'
    BY <1>1, <1>2, <1>3, <1>4, <2>1, <2>4, <2>5
  <2>9. ResetsAlone(r)'
    BY <1>1, <1>2, <1>3, <1>4, <2>1, <2>4, <2>5
  <2>10. TodoDone(r)'
    BY <1>1, <1>2, <1>3, <1>4, <2>1, <2>4, <2>5
  <2> QED
    BY <2>6, <2>7, <2>8, <2>9, <2>10
<1>9. CASE Resets(r, a)
  <2>1. PICK t \in todo[r][a] :
          SetStatus(t, "pending") /\ todo' = [todo EXCEPT ![r][a] = @ \ {t}]
    BY <1>9 DEF Resets
  <2>2. todo' = [todo EXCEPT ![r][a] = todo[r][a] \ {t}]
    BY <2>1
  <2>3. /\ \A b \in Actions : status'[b] = IF b = t THEN "pending" ELSE status[b]
        /\ \A b \in Actions : todo'[r][b] = IF b = a THEN todo[r][a] \ {t} ELSE todo[r][b]
        /\ UNCHANGED stage /\ stage[r][a] = "reset"
    <3>1. \A b \in Actions : status'[b] = IF b = t THEN "pending" ELSE status[b]
      BY <2>1 DEF TypeOK
    <3>2. \A b \in Actions : todo'[r][b] = IF b = a THEN todo[r][a] \ {t} ELSE todo[r][b]
      BY <2>2 DEF TypeOK
    <3> QED
      BY <1>9, <3>1, <3>2 DEF Resets
  <2>4. a \in Gates /\ t \in Actions /\ status[t] = "done" /\ t \in ResetTargets(a)
    BY <1>4, <2>3 DEF TypeOK, LoopInv
  <2>5. ASSUME NEW b \in Actions, t \in Predecessors(b), b # a
        PROVE  status[b] # "ready" /\ b \notin batch[r] /\ stage[r][b] \in {"none", "reset"}
    <3>1. CASE ~DagMode
      BY <2>3, <2>5, <3>1
    <3>2. CASE FeedsOnly(a)
      BY <2>4, <2>5, <3>2 DEF FeedsOnly
    <3> QED
      BY <2>4, <3>1, <3>2 DEF OrderSafe
  <2>6. ASSUME NEW g \in Actions, stage[r][g] = "reset", g # a, t \in todo[r][g]
        PROVE  FALSE
    <3>1. CASE ~DagMode
      BY <2>3, <2>6, <3>1
    <3>2. CASE \A h \in Gates : FeedsOnly(h)
      <4>1. g \in Gates /\ t \in ResetTargets(g)
        BY <2>6 DEF TypeOK, LoopInv
      <4> QED
        BY <2>4, <2>6, <3>2, <4>1 DEF FeedsOnly
    <3> QED
      BY <3>1, <3>2 DEF OrderSafe
  <2>7. \A b \in batch[r] : b # t
    BY <2>4
  <2>8. WorkedRunning(r)'
    BY <1>1, <1>2, <1>3, <1>4, <2>3, <2>4, <2>5, <2>6, <2>7
  <2>9. BatchStatus(r)'
    BY <1>1, <1>2, <1>3, <1>4, <2>3, <2>4, <2>5, <2>6, <2>7
  <2>10. BuildsOnDone(r)'
    BY <1>1, <1>2, <1>3, <1>4, <2>3, <2>4, <2>5, <2>6, <2>7
  <2>11. ResetsAlone(r)'
    BY <1>1, <1>2, <1>3, <1>4, <2>3, <2>4, <2>5, <2>6, <2>7
  <2>12. TodoDone(r)'
    BY <1>1, <1>2, <1>3, <1>4, <2>3, <2>4, <2>5, <2>6, <2>7
  <2> QED
    BY <2>8, <2>9, <2>10, <2>11, <2>12
<1> QED
  BY <1>1, <1>5, <1>6, <1>7, <1>8, <1>9 DEF RowStep

LEMMA OrderLoop ==
  ASSUME TypeOK, LoopInv, OneLoop,
         NEW r \in Engines, InOrderOf(r), LoopStep(r)
  PROVE  InOrderOf(r)'
<1> USE DEF InOrderOf, WorkedRunning, BatchStatus, BuildsOnDone, ResetsAlone, TodoDone, Due
<1>1. \A b \in Actions : Predecessors(b) \subseteq Actions /\ todo[r][b] \subseteq Actions
  BY PredecessorsAreActions DEF TypeOK
<1>2. batch[r] \subseteq Actions
  BY DEF TypeOK
<1>3. CASE Launch(r)
  <2> DEFINE entries == {a \in EntryActions : status[a] = "pending"}
  <2>1. /\ \A a \in Actions : stage[r][a] = "none"
        /\ UNCHANGED <<stage, batch, todo>>
        /\ status' = [a \in Actions |-> IF a \in entries THEN "ready" ELSE status[a]]
        /\ pc[r] = "idle"
    BY <1>3 DEF Launch, Goroutines, MakeReady
  <2>2. batch[r] = {}
    BY <2>1 DEF LoopInv
  <2>3. \A a \in entries : status[a] = "pending" /\ Predecessors(a) = {}
    BY DEF EntryActions
  <2> HIDE DEF entries
  <2>4. \A a \in Actions :
          /\ a \in entries => status'[a] = "ready" /\ status[a] = "pending"
          /\ a \notin entries => status'[a] = status[a]
    BY <2>1, <2>3
  <2>5. WorkedRunning(r)' /\ BatchStatus(r)' /\ ResetsAlone(r)' /\ TodoDone(r)'
    BY <2>1, <2>2
  <2>6. BuildsOnDone(r)'
    BY <1>1, <2>1, <2>2, <2>3, <2>4
  <2> QED
    BY <2>5, <2>6
<1>4. CASE LaunchRefused(r)
  BY <1>4 DEF LaunchRefused
<1>5. CASE LoopEnds(r)
  <2>1. UNCHANGED <<status, stage, batch, todo>> /\ batch[r] = {}
    BY <1>5 DEF LoopEnds, LoopInv
  <2> QED
    BY <2>1
<1>6. CASE LoopPromotes(r)
  <2>1. /\ \A a \in Actions : stage[r][a] = "none"
        /\ batch[r] = {}
    BY <1>6 DEF LoopPromotes, LoopInv
  <2>2. /\ UNCHANGED <<stage, todo>>
        /\ status' = [a \in Actions |->
                        IF a \in PromotableActions THEN "ready" ELSE status[a]]
        /\ pc'[r] = "dispatch" /\ batch'[r] = RunnableActions
    BY <1>6 DEF LoopPromotes, MakeReady, TypeOK
  <2>3. \A a \in Actions :
          /\ a \in RunnableActions =>
               /\ status'[a] = "ready" /\ status[a] \in {"pending", "ready"}
               /\ \A b \in Predecessors(a) : status[b] = "done"
          /\ a \notin RunnableActions => status'[a] = status[a] /\ status[a] # "ready"
    BY <2>2 DEF RunnableActions, PromotableActions
  <2>4. \A a \in Actions : status[a] = "done" => status'[a] = "done"
    BY <2>3
  <2>5. RunnableActions \subseteq Actions
    BY DEF RunnableActions, PromotableActions
  <2>6. WorkedRunning(r)' /\ ResetsAlone(r)' /\ TodoDone(r)'
    BY <2>1, <2>2
  <2>7. BatchStatus(r)'
    BY <2>2, <2>3, <2>5
  <2>8. BuildsOnDone(r)'
    BY <1>1, <2>1, <2>2, <2>3, <2>4
  <2> QED
    BY <2>6, <2>7, <2>8
<1>7. CASE Dispatch(r)
  <2> DEFINE a == Min(batch[r])
  <2>1. a \in batch[r] /\ a \in Actions /\ pc[r] = "dispatch"
    BY <1>7, MinOfBatch DEF Dispatch
  <2>2. /\ \/ SetStage(r, a, "child") /\ batch' = [batch EXCEPT ![r] = @ \ {a}] /\ UNCHANGED pc
           \/ pc' = [pc EXCEPT ![r] = "acquire"] /\ UNCHANGED <<stage, batch>>
        /\ UNCHANGED todo
        /\ SetStatus(a, "running")
    BY <1>7 DEF Dispatch, Transition
  <2>3. status[a] = "ready" /\ stage[r][a] = "none"
    BY <2>1 DEF LoopInv
  <2>4. \A b \in Actions : status'[b] = IF b = a THEN "running" ELSE status[b]
    BY <2>2 DEF TypeOK
  <2>5. ~DagMode => \A g \in Actions : stage[r][g] # "reset"
    BY <2>1, <2>3
  <2>6. CASE /\ SetStage(r, a, "child") /\ UNCHANGED pc
             /\ batch' = [batch EXCEPT ![r] = @ \ {a}]
    <3> HIDE DEF a
    <3>1. /\ \A b \in Actions : stage'[r][b] = IF b = a THEN "child" ELSE stage[r][b]
          /\ batch'[r] = batch[r] \ {a} /\ pc'[r] = "dispatch"
      BY <2>1, <2>6 DEF TypeOK
    <3>2. WorkedRunning(r)' /\ ResetsAlone(r)' /\ TodoDone(r)'
      BY <1>1, <2>1, <2>2, <2>3, <2>4, <2>5, <3>1
    <3>3. BatchStatus(r)'
      BY <1>2, <2>1, <2>4, <3>1
    <3>4. BuildsOnDone(r)'
      BY <1>1, <2>1, <2>3, <2>4, <3>1
    <3> QED
      BY <3>2, <3>3, <3>4
  <2>7. CASE pc' = [pc EXCEPT ![r] = "acquire"] /\ UNCHANGED <<stage, batch>>
    <3>1. pc'[r] = "acquire" /\ a = Min(batch'[r])
      BY <2>7 DEF TypeOK
    <3> HIDE DEF a
    <3>2. WorkedRunning(r)' /\ ResetsAlone(r)' /\ TodoDone(r)'
      BY <1>1, <2>1, <2>2, <2>3, <2>4, <2>5, <2>7
    <3>3. BatchStatus(r)'
      BY <1>2, <2>1, <2>4, <2>7, <3>1
    <3>4. BuildsOnDone(r)'
      BY <1>1, <2>1, <2>3, <2>4, <2>7
    <3> QED
      BY <3>2, <3>3, <3>4
  <2> QED
    BY <2>2, <2>6, <2>7
<1>8. CASE Acquire(r)
  <2> DEFINE a == Min(batch[r])
  <2>1. a \in batch[r] /\ a \in Actions /\ pc[r] = "acquire"
    BY <1>8, MinOfBatch DEF Acquire, TypeOK
  <2>2. status[a] = "running" /\ stage[r][a] = "none"
    BY <2>1 DEF LoopInv
  <2>3. \A b \in batch[r] : b # a => status[b] = "ready"
    OBVIOUS
  <2>4. /\ SetStage(r, a, "prepare")
        /\ batch' = [batch EXCEPT ![r] = @ \ {a}]
        /\ pc' = [pc EXCEPT ![r] = "dispatch"]
        /\ UNCHANGED <<status, todo>>
    BY <1>8 DEF Acquire
  <2> HIDE DEF a
  <2>5. /\ \A b \in Actions : stage'[r][b] = IF b = a THEN "prepare" ELSE stage[r][b]
        /\ batch'[r] = batch[r] \ {a} /\ pc'[r] = "dispatch"
    BY <2>1, <2>4 DEF TypeOK
  <2>6. ~DagMode => \A g \in Actions : stage[r][g] # "reset"
    BY <2>1, <2>2
  <2>7. WorkedRunning(r)' /\ ResetsAlone(r)' /\ TodoDone(r)'
    BY <1>1, <2>1, <2>2, <2>4, <2>5, <2>6
  <2>8. BatchStatus(r)'
    BY <1>2, <2>3, <2>4, <2>5
  <2>9. BuildsOnDone(r)'
    BY <1>1, <2>1, <2>4, <2>5
  <2> QED
    BY <2>7, <2>8, <2>9
<1>9. CASE Barrier(r)
  <2>1. UNCHANGED <<status, stage, batch, todo>> /\ batch[r] = {}
    BY <1>9 DEF Barrier
  <2> QED
    BY <2>1
<1>10. CASE LoopAborts(r)
  <2>1. UNCHANGED <<status, stage, todo>> /\ batch'[r] = {}
    BY <1>10 DEF LoopAborts, TypeOK
  <2> QED
    BY <2>1
<1>11. CASE RunReturns(r)
  <2>1. UNCHANGED <<status, stage, batch, todo>> /\ batch[r] = {}
    BY <1>11 DEF RunReturns, LoopInv
  <2> QED
    BY <2>1
<1> QED
  BY <1>3, <1>4, <1>5, <1>6, <1>7, <1>8, <1>9, <1>10, <1>11 DEF LoopStep

(* What a request writes over a row that has not moved on.                   *)
LEMMA TimelyRequest ==
  ASSUME TypeOK, RequestStep, ~overtaken'
  PROVE  /\ \A b \in Actions :
              \/ status'[b] = status[b]
              \/ status[b] \in {"failed", "blocked"} /\ status'[b] = "pending"
         /\ UNCHANGED <<status, owed>> \/ UNCHANGED item
<1>1. CASE LeavesRows
  BY <1>1 DEF LeavesRows
<1>2. ASSUME NEW c \in Callers, NEW a \in held[c], WritesBack(c, a)
      PROVE  /\ \A b \in Actions :
                  \/ status'[b] = status[b]
                  \/ status[b] \in {"failed", "blocked"} /\ status'[b] = "pending"
             /\ UNCHANGED item
  BY <1>2 DEF WritesBack, TypeOK
<1> QED
  BY <1>1, <1>2, RequestRows

LEMMA OrderOutside ==
  ASSUME TypeOK, LoopInv, NEW r \in Engines, InOrderOf(r), ~overtaken',
         RequestStep \/ Cancel \/ Crash \/ Recover
  PROVE  InOrderOf(r)'
<1> USE DEF InOrderOf, WorkedRunning, BatchStatus, BuildsOnDone, ResetsAlone, TodoDone, Due
<1>1. \A b \in Actions : Predecessors(b) \subseteq Actions /\ todo[r][b] \subseteq Actions
  BY PredecessorsAreActions DEF TypeOK
<1>2. batch[r] \subseteq Actions
  BY DEF TypeOK
<1>3. CASE Cancel
  <2>1. UNCHANGED <<status, stage, batch, todo, pc>>
    BY <1>3 DEF Cancel
  <2> QED
    BY <2>1
<1>4. CASE RequestStep
  <2>1. UNCHANGED <<stage, batch, todo, pc>>
    BY <1>4, RequestRows
  <2>2. \A b \in Actions :
          \/ status'[b] = status[b]
          \/ status[b] \in {"failed", "blocked"} /\ status'[b] = "pending"
    BY <1>4, TimelyRequest
  <2>3. WorkedRunning(r)' /\ BatchStatus(r)'
    BY <1>2, <2>1, <2>2
  <2>4. BuildsOnDone(r)'
    BY <1>1, <2>1, <2>2
  <2>5. ResetsAlone(r)'
    BY <2>1, <2>2
  <2>6. TodoDone(r)'
    BY <1>1, <2>1, <2>2
  <2> QED
    BY <2>3, <2>4, <2>5, <2>6
<1>5. CASE Crash
  <2>1. /\ UNCHANGED status /\ batch'[r] = {}
        /\ \A a \in Actions : stage'[r][a] = "none"
    BY <1>5 DEF Crash, NoMemory
  <2> QED
    BY <2>1
<1>6. CASE Recover
  <2>1. UNCHANGED <<stage, batch, todo, pc>> /\ ~up
    BY <1>6 DEF Recover
  <2>2. batch[r] = {} /\ \A a \in Actions : stage[r][a] = "none"
    BY <2>1 DEF LoopInv
  <2>3. \A b \in Actions :
          \/ status'[b] = status[b]
          \/ status[b] # "done" /\ status'[b] = "pending"
    <3>1. \/ UNCHANGED status
          \/ status' = [a \in Actions |->
                           IF status[a] \in {"ready", "running", "waiting_gate"}
                             THEN "pending" ELSE status[a]]
      BY <1>6 DEF Recover
    <3> QED
      BY <3>1
  <2>4. BuildsOnDone(r)'
    BY <1>1, <2>1, <2>2, <2>3
  <2> QED
    BY <2>1, <2>2, <2>4
<1> QED
  BY <1>3, <1>4, <1>5, <1>6

LEMMA OvertakenStays == TypeOK /\ [Next]_vars => (overtaken => overtaken')
<1> SUFFICES ASSUME TypeOK, [Next]_vars
             PROVE  overtaken => overtaken'
  OBVIOUS
<1>1. ASSUME NEW r \in Engines, LoopStep(r) PROVE UNCHANGED overtaken
  BY <1>1 DEF LoopStep, Launch, LaunchRefused, LoopEnds, LoopPromotes, Dispatch,
     Acquire, Barrier, LoopAborts, RunReturns
<1>2. ASSUME NEW r \in Engines, NEW a \in Actions, GoroutineStep(r, a)
      PROVE  UNCHANGED overtaken
  BY <1>2, GoroutineRows
<1>3. CASE RequestStep
  BY <1>3, RequestRows DEF LeavesRows, WritesBack
<1>4. CASE Cancel \/ Crash \/ Recover \/ UNCHANGED vars
  BY <1>4 DEF Cancel, Crash, Recover, vars
<1> QED
  BY <1>1, <1>2, <1>3, <1>4 DEF Next

OrderInv == overtaken \/ InOrder

LEMMA OrderStep ==
  ASSUME OneLoop, OrderSafe
  PROVE  TypeOK /\ LoopInv /\ OrderInv /\ [Next]_vars => OrderInv'
<1> SUFFICES ASSUME TypeOK, LoopInv, OrderInv, [Next]_vars, ~overtaken',
                    NEW r \in Engines
             PROVE  InOrderOf(r)'
  BY DEF OrderInv, InOrder
<1>1. InOrderOf(r) /\ \A q \in Engines : q = r
  BY OvertakenStays DEF OrderInv, InOrder, OneLoop
<1>2. CASE UNCHANGED vars
  BY <1>1, <1>2 DEF vars, InOrderOf, WorkedRunning, BatchStatus, BuildsOnDone,
     ResetsAlone, TodoDone, Due
<1> QED
  BY <1>1, <1>2, OrderGoroutine, OrderLoop, OrderOutside DEF Next

(* One loop over a list of actions, or over a graph in which what each gate  *)
(* sends back feeds that gate only, works on an action or judges a gate only *)
(* while everything it depends on is done - with every failure, cancellation,*)
(* crash and recovery (scheduleLoop's promotion against ProcessGate's        *)
(* resets), until a request writes back a row that has moved on.  Without    *)
(* the condition on the graph it does not: a side branch can be at work when *)
(* a gate resets what it was built on.                                       *)
THEOREM UpstreamDoneCorrect ==
  ASSUME OneLoop, OrderSafe
  PROVE  Spec => []UpstreamDone
<1>1. Init => OrderInv
  BY DEF Init, OrderInv, InOrder, InOrderOf, WorkedRunning, BatchStatus, BuildsOnDone,
     ResetsAlone, TodoDone, Due
<1>2. OrderInv => UpstreamDone
  BY DEF OrderInv, InOrder, InOrderOf, BuildsOnDone, UpstreamDone, AtWork
<1>3. TypeOK /\ LoopInv /\ OrderInv /\ [Next]_vars => OrderInv'
  BY OrderStep
<1> QED
  BY <1>1, <1>2, <1>3, EngineTypeCorrect, LoopsCorrect, PTL DEF Spec

-----------------------------------------------------------------------------
(* Cancellation.  A cancelled loop only winds down: its goroutines abort, it *)
(* returns an error, and its work item is marked cancelled, which no other   *)
(* step undoes - when no second loop of the work item runs.                  *)
NoCrashYet == used["crash"] = 0
Serial == OneLoop \/ used["cancel"] = 0
ProcessInv ==
  /\ NoCrashYet => up
  /\ used["cancel"] = 0 => cancelled = {}
Abandoned(r) ==
  /\ r \in cancelled
  /\ IF pc[r] = "idle" THEN item = "cancelled" ELSE pc[r] # "succeed"
AbandonInv ==
  \A r \in Engines :
    r \in cancelled /\ (\E a \in Actions : stage[r][a] # "none") => Abandoned(r)

LEMMA LoopKeepsProcess ==
  ASSUME NEW r \in Engines, LoopStep(r)
  PROVE  UNCHANGED <<up, apiVars>> /\ cancelled' \subseteq cancelled
BY DEF LoopStep, Launch, LaunchRefused, LoopEnds, LoopPromotes, Dispatch, Acquire,
   Barrier, LoopAborts, RunReturns

(* Once something has happened it has happened.                              *)
LEMMA UsedStays ==
  ASSUME TypeOK, [Next]_vars
  PROVE  /\ NoCrashYet' => NoCrashYet /\ ~Crash
         /\ used'["cancel"] = 0 => used["cancel"] = 0 /\ ~Cancel
         /\ Serial' => Serial
<1>1. used \in [Events -> Nat] /\ {"crash", "cancel"} \subseteq Events
  BY DEF TypeOK, Events
<1>2. ASSUME NEW e \in Events, NEW n \in Nat, Use(e, n)
      PROVE  \A f \in Events : used'[f] = IF f = e THEN used[e] + 1 ELSE used[f]
  BY <1>1, <1>2 DEF Use
<1>3. CASE Crash
  <2>1. Use("crash", MaxCrashes) /\ MaxCrashes \in Nat
    BY <1>3, EngineAssumption DEF Crash
  <2>2. ~Cancel
    BY <1>3 DEF Crash, Cancel
  <2> QED
    BY <1>1, <1>2, <2>1, <2>2 DEF NoCrashYet, Serial
<1>4. CASE Cancel
  <2>1. Use("cancel", MaxCancels) /\ MaxCancels \in Nat
    BY <1>4, EngineAssumption DEF Cancel
  <2>2. ~Crash
    BY <1>4 DEF Crash, Cancel
  <2> QED
    BY <1>1, <1>2, <2>1, <2>2 DEF NoCrashYet, Serial
<1>5. CASE ~(Crash \/ Cancel)
  <2>1. ASSUME NEW r \in Engines, LoopStep(r) PROVE UNCHANGED used
    BY <2>1, LoopKeepsProcess
  <2>2. ASSUME NEW r \in Engines, NEW a \in Actions, GoroutineStep(r, a)
        PROVE  UNCHANGED used
    BY <2>2, GoroutineRows
  <2>3. Recover \/ UNCHANGED vars => UNCHANGED used
    BY DEF Recover, vars
  <2>4. used'["crash"] = used["crash"] /\ used'["cancel"] = used["cancel"]
    BY <1>5, <2>1, <2>2, <2>3, RequestRows DEF Next
  <2> QED
    BY <1>5, <2>4 DEF NoCrashYet, Serial
<1> QED
  BY <1>3, <1>4, <1>5

LEMMA ProcessStep == TypeOK /\ ProcessInv /\ [Next]_vars => ProcessInv'
<1> SUFFICES ASSUME TypeOK, ProcessInv, [Next]_vars PROVE ProcessInv'
  OBVIOUS
<1> USE DEF ProcessInv, NoCrashYet
<1>1. /\ NoCrashYet' => NoCrashYet /\ ~Crash
      /\ used'["cancel"] = 0 => used["cancel"] = 0 /\ ~Cancel
  BY UsedStays
<1>2. ASSUME NEW r \in Engines, LoopStep(r) PROVE ProcessInv'
  BY <1>2, LoopKeepsProcess
<1>3. ASSUME NEW r \in Engines, NEW a \in Actions, GoroutineStep(r, a) PROVE ProcessInv'
  BY <1>3, GoroutineRows
<1>4. CASE RequestStep
  <2>1. UNCHANGED <<up, cancelled>>
    BY <1>4, RequestRows
  <2> QED
    BY <1>1, <2>1
<1>5. CASE Cancel
  <2>1. UNCHANGED up
    BY <1>5 DEF Cancel
  <2> QED
    BY <1>1, <1>5, <2>1
<1>6. CASE Crash
  <2>1. cancelled' = {}
    BY <1>6 DEF Crash, NoMemory
  <2> QED
    BY <1>1, <1>6, <2>1
<1>7. CASE Recover
  BY <1>7 DEF Recover
<1>8. CASE UNCHANGED vars
  BY <1>8 DEF vars
<1> QED
  BY <1>2, <1>3, <1>4, <1>5, <1>6, <1>7, <1>8 DEF Next

LEMMA ProcessCorrect == Spec => []ProcessInv
<1>1. Init => ProcessInv
  BY DEF Init, ProcessInv
<1> QED
  BY <1>1, ProcessStep, EngineTypeCorrect, PTL DEF Spec

LEMMA AbandonedStays ==
  ASSUME TypeOK, LoopInv, ProcessInv, Serial, [Next]_vars, up',
         NEW r \in Engines, Abandoned(r)
  PROVE  Abandoned(r)'
<1> USE DEF Abandoned
<1>1. \A q \in Engines : q = r
  BY DEF Serial, OneLoop, ProcessInv
<1>2. CASE LoopStep(r)
  <2> USE <1>2 DEF TypeOK
  <2>1. CASE Launch(r)
    BY <2>1 DEF Launch, Runnable
  <2>2. CASE LaunchRefused(r)
    BY <2>2 DEF LaunchRefused
  <2>3. CASE LoopEnds(r) \/ LoopPromotes(r) \/ Dispatch(r)
    BY <2>3 DEF LoopEnds, LoopPromotes, Dispatch, Working
  <2>4. CASE Acquire(r) \/ Barrier(r)
    BY <2>4 DEF Acquire, Barrier
  <2>5. CASE LoopAborts(r)
    BY <2>5 DEF LoopAborts
  <2>6. CASE RunReturns(r)
    BY <2>6 DEF RunReturns
  <2> QED
    BY <2>1, <2>2, <2>3, <2>4, <2>5, <2>6 DEF LoopStep
<1>3. ASSUME NEW a \in Actions, GoroutineStep(r, a) PROVE Abandoned(r)'
  <2>1. RowStep(r, a) /\ UNCHANGED <<cancelled, pc>>
    BY <1>3, GoroutineRows
  <2>2. UNCHANGED item
    BY <2>1 DEF RowStep, GivesUp, Advances, Finishes, Records, Resets, Working
  <2> QED
    BY <2>1, <2>2
<1>4. ASSUME RequestStep PROVE Abandoned(r)'
  <2>1. UNCHANGED <<cancelled, pc>>
    BY <1>4, RequestRows
  <2>2. UNCHANGED item \/ item \in Preparable
    BY <1>4, RequestRows DEF LeavesRows, WritesBack
  <2> QED
    BY <2>1, <2>2 DEF Preparable
<1>6. CASE Cancel
  BY <1>6 DEF Cancel
<1>7. CASE Crash
  BY <1>7 DEF Crash
<1>8. CASE Recover
  BY <1>8 DEF Recover
<1>9. CASE UNCHANGED vars
  BY <1>9 DEF vars
<1> QED
  BY <1>1, <1>2, <1>3, <1>4, <1>6, <1>7, <1>8, <1>9 DEF Next

LEMMA AbandonStep ==
  ASSUME TypeOK, LoopInv, ProcessInv, ProcessInv', Serial, Serial', AbandonInv,
         [Next]_vars
  PROVE  AbandonInv'
<1> SUFFICES ASSUME NEW r \in Engines, NEW a \in Actions,
                    r \in cancelled', stage'[r][a] # "none"
             PROVE  Abandoned(r)'
  BY DEF AbandonInv
<1>1. \A q \in Engines : q = r
  BY DEF Serial, OneLoop, ProcessInv
<1>2. CASE up' /\ Abandoned(r)
  BY <1>2, AbandonedStays
<1>3. ASSUME r \in cancelled, stage[r][a] # "none" PROVE up /\ Abandoned(r)
  BY <1>3 DEF AbandonInv, LoopInv
<1>4. CASE LoopStep(r)
  <2>1. r \in cancelled /\ UNCHANGED up
    BY <1>4, LoopKeepsProcess
  <2>2. CASE Acquire(r)
    BY <2>1, <2>2 DEF Acquire, Abandoned, TypeOK
  <2>3. CASE ~Acquire(r)
    <3>1. UNCHANGED stage
      BY <1>4, <2>1, <2>3
      DEF LoopStep, Launch, LaunchRefused, LoopEnds, LoopPromotes, Dispatch,
          Barrier, LoopAborts, RunReturns, Working
    <3> QED
      BY <1>2, <1>3, <2>1, <3>1
  <2> QED
    BY <2>2, <2>3
<1>5. ASSUME NEW b \in Actions, GoroutineStep(r, b) PROVE Abandoned(r)'
  <2>1. RowStep(r, b) /\ stage[r][b] # "none" /\ UNCHANGED <<up, cancelled>>
    BY <1>5, GoroutineRows
  <2> QED
    BY <1>2, <2>1 DEF AbandonInv, LoopInv
<1>6. CASE RequestStep
  <2>1. UNCHANGED <<up, stage, cancelled>>
    BY <1>6, RequestRows
  <2> QED
    BY <1>2, <1>3, <2>1
<1>7. CASE Cancel
  <2>1. UNCHANGED <<up, stage, pc, registered>> /\ up
    BY <1>7 DEF Cancel
  <2>2. CASE r \in cancelled
    BY <1>2, <1>3, <2>1, <2>2
  <2>3. CASE r \notin cancelled
    <3>1. registered = r
      BY <1>7, <2>3 DEF Cancel
    <3>2. pc[r] # "idle" /\ pc[r] # "succeed"
      BY <2>1, <3>1, EngineAssumption DEF LoopInv
    <3> QED
      BY <2>1, <3>2 DEF Abandoned
  <2> QED
    BY <2>2, <2>3
<1>8. CASE Crash
  BY <1>8 DEF Crash, NoMemory
<1>9. CASE Recover
  <2>1. UNCHANGED <<stage, cancelled>> /\ ~up
    BY <1>9 DEF Recover
  <2> QED
    BY <2>1 DEF LoopInv
<1>10. CASE UNCHANGED vars
  <2>1. UNCHANGED <<up, stage, cancelled>>
    BY <1>10 DEF vars
  <2> QED
    BY <1>2, <1>3, <2>1
<1> QED
  BY <1>1, <1>4, <1>5, <1>6, <1>7, <1>8, <1>9, <1>10 DEF Next

-----------------------------------------------------------------------------
(* A row that says running.                                                  *)
NoStoreFaults == Faults \cap {"prepare", "persist"} = {}
RunningInv ==
  \A a \in Actions :
    status[a] = "running" => \E r \in Engines : Started(r, a) \/ Abandoned(r)

(* Only the dispatch of an action writes that it is running.                 *)
LEMMA RunningWritten ==
  ASSUME TypeOK, [Next]_vars, NEW a \in Actions,
         status'[a] = "running", status[a] # "running"
  PROVE  \E r \in Engines : Dispatch(r) /\ a = Min(batch[r])
<1>1. ASSUME NEW r \in Engines, LoopStep(r)
      PROVE  Dispatch(r) /\ a = Min(batch[r])
  <2>1. CASE Dispatch(r)
    BY <2>1 DEF Dispatch, Transition, TypeOK
  <2>2. CASE Launch(r) \/ LoopPromotes(r)
    BY <2>2 DEF Launch, LoopPromotes, MakeReady
  <2>3. CASE ~(Launch(r) \/ LoopPromotes(r) \/ Dispatch(r))
    <3>1. UNCHANGED status
      BY <1>1, <2>3
      DEF LoopStep, LaunchRefused, LoopEnds, Acquire, Barrier, LoopAborts, RunReturns
    <3> QED
      BY <3>1
  <2> QED
    BY <2>1, <2>2, <2>3
<1>2. ASSUME NEW r \in Engines, NEW b \in Actions, GoroutineStep(r, b)
      PROVE  FALSE
  <2>1. RowStep(r, b)
    BY <1>2, GoroutineRows
  <2>2. CASE GivesUp(r, b) \/ Advances(r, b) \/ Records(r, b)
    BY <2>2 DEF GivesUp, Advances, Records
  <2>3. CASE Finishes(r, b)
    BY <2>3 DEF Finishes, FinishesAs, TypeOK
  <2>4. CASE Resets(r, b)
    BY <2>4 DEF Resets, TypeOK
  <2> QED
    BY <2>1, <2>2, <2>3, <2>4 DEF RowStep
<1>3. CASE Cancel \/ Crash \/ UNCHANGED vars
  BY <1>3 DEF Cancel, Crash, vars
<1>4. CASE RequestStep
  BY <1>4, RequestRows DEF LeavesRows, WritesBack, TypeOK
<1>5. CASE Recover
  BY <1>5 DEF Recover
<1> QED
  BY <1>1, <1>2, <1>3, <1>4, <1>5 DEF Next

LEMMA RunningStep ==
  ASSUME NoStoreFaults, Serial, TypeOK, LoopInv, ProcessInv, AbandonInv,
         up, up', RunningInv, [Next]_vars
  PROVE  RunningInv'
<1> SUFFICES ASSUME NEW a \in Actions, status'[a] = "running"
             PROVE  \E r \in Engines : Started(r, a)' \/ Abandoned(r)'
  BY DEF RunningInv
<1>1. ASSUME status[a] # "running" PROVE \E r \in Engines : Started(r, a)'
  <2>1. PICK r \in Engines : Dispatch(r) /\ a = Min(batch[r])
    BY <1>1, RunningWritten
  <2>2. CASE a \in Plans
    BY <2>1, <2>2 DEF Dispatch, Started, TypeOK
  <2>3. CASE a \notin Plans
    BY <2>1, <2>3 DEF Dispatch, Started, TypeOK
  <2> QED
    BY <2>2, <2>3
<1>2. ASSUME NEW q \in Engines, Abandoned(q) PROVE Abandoned(q)'
  BY <1>2, AbandonedStays
<1>3. ASSUME NEW q \in Engines, Started(q, a)
      PROVE  Started(q, a)' \/ \E r \in Engines : Abandoned(r)'
  <2>1. ASSUME NEW r \in Engines, LoopStep(r) PROVE Started(q, a)'
    <3> USE <1>3 DEF Started, TypeOK
    <3>1. CASE Acquire(r)
      BY <3>1 DEF Acquire
    <3>2. CASE Dispatch(r)
      <4>1. /\ pc[r] = "dispatch"
            /\ \A p \in Engines : p # r =>
                 pc'[p] = pc[p] /\ batch'[p] = batch[p] /\ stage'[p] = stage[p]
            /\ stage[r][a] # "none" => stage'[r][a] # "none"
        BY <3>2 DEF Dispatch
      <4> QED
        BY <4>1
    <3>3. CASE Launch(r)
      BY <3>3 DEF Launch, Goroutines
    <3>4. CASE LaunchRefused(r)
      BY <3>4 DEF LaunchRefused
    <3>5. CASE LoopEnds(r) \/ LoopPromotes(r) \/ Barrier(r)
      BY <3>5 DEF LoopEnds, LoopPromotes, Barrier
    <3>6. CASE LoopAborts(r) \/ RunReturns(r)
      BY <3>6 DEF LoopAborts, RunReturns
    <3> QED
      BY <2>1, <3>1, <3>2, <3>3, <3>4, <3>5, <3>6 DEF LoopStep
  <2>2. ASSUME NEW r \in Engines, NEW b \in Actions, GoroutineStep(r, b)
        PROVE  Started(q, a)' \/ Abandoned(r)'
    <3>1. RowStep(r, b) /\ stage[r][b] # "none" /\ UNCHANGED <<pc, batch>>
      BY <2>2, GoroutineRows
    <3>2. CASE GivesUp(r, b)
      <4>1. CASE r \in cancelled
        BY <1>2, <3>1, <4>1 DEF AbandonInv
      <4>2. CASE r \notin cancelled
        BY <3>2, <4>2 DEF GivesUp, NoStoreFaults
      <4> QED
        BY <4>1, <4>2
    <3>3. CASE Advances(r, b)
      BY <1>3, <3>1, <3>3 DEF Advances, Started, TypeOK
    <3>4. CASE Finishes(r, b)
      <4>1. a # b
        BY <3>4 DEF Finishes, FinishesAs, TypeOK
      <4>2. stage'[q][a] = stage[q][a]
        BY <3>4, <4>1 DEF Finishes, Ends, TypeOK
      <4> QED
        BY <1>3, <3>1, <4>2 DEF Started
    <3>5. CASE Records(r, b)
      BY <1>3, <3>1, <3>5 DEF Records, Started, TypeOK
    <3>6. CASE Resets(r, b)
      BY <1>3, <3>1, <3>6 DEF Resets, Started
    <3> QED
      BY <3>1, <3>2, <3>3, <3>4, <3>5, <3>6 DEF RowStep
  <2>3. CASE RequestStep \/ Cancel \/ Recover \/ UNCHANGED vars
    <3>1. UNCHANGED <<stage, pc, batch>>
      BY <2>3, RequestRows DEF Cancel, Recover, vars
    <3> QED
      BY <1>3, <3>1 DEF Started
  <2>4. ~Crash
    BY DEF Crash
  <2> QED
    BY <2>1, <2>2, <2>3, <2>4 DEF Next
<1> QED
  BY <1>1, <1>2, <1>3 DEF RunningInv

(* A row says running only while a goroutine works on the action or waits    *)
(* for its slot: for one loop that may be cancelled, or any number of loops  *)
(* none of which was, until the process first dies, when no store call of    *)
(* the preparation or the result fails.  Each of those leaves such a row     *)
(* behind, and later loops wait for it (waitForWorkItemProgress).            *)
THEOREM RunningIsStartedCorrect ==
  ASSUME NoStoreFaults
  PROVE  Spec => [](NoCrashYet /\ Serial => RunningIsStarted)
<1> DEFINE IInv == NoCrashYet /\ Serial => AbandonInv /\ RunningInv
<1>1. Init => IInv
  BY DEF Init, AbandonInv, RunningInv
<1>2. /\ TypeOK /\ LoopInv /\ ProcessInv /\ ProcessInv' /\ IInv /\ [Next]_vars
      => IInv'
  BY AbandonStep, RunningStep, UsedStays DEF ProcessInv
<1>3. IInv => (NoCrashYet /\ Serial => RunningIsStarted)
  BY DEF RunningInv, RunningIsStarted, Abandoned
<1> QED
  BY <1>1, <1>2, <1>3, EngineTypeCorrect, LoopsCorrect, ProcessCorrect, PTL DEF Spec

-----------------------------------------------------------------------------
(* What a run leaves behind.                                                 *)
NoneBlocked == \A a \in Actions : status[a] # "blocked"
SucceedInv == \A r \in Engines : pc[r] = "succeed" => NoneBlocked
EscalatedInv ==
  \A r \in Engines, a \in Actions :
    pc[r] = "idle" /\ status[a] = "blocked"
    => item \in {"escalated", "queued", "cancelled"}

LEMMA SucceedStep ==
  ASSUME OneLoop, TypeOK, LoopInv, SucceedInv, [Next]_vars
  PROVE  SucceedInv'
<1> SUFFICES ASSUME NEW r \in Engines, pc'[r] = "succeed" PROVE NoneBlocked'
  BY DEF SucceedInv
<1>1. \A q \in Engines : q = r
  BY DEF OneLoop
<1>2. ASSUME pc[r] = "succeed"
      PROVE  NoneBlocked /\ \A a \in Actions : stage[r][a] = "none"
  BY <1>2 DEF SucceedInv, LoopInv
<1>3. NoneBlocked /\ UNCHANGED status => NoneBlocked'
  BY DEF NoneBlocked
<1>4. CASE LoopStep(r)
  <2>1. LoopEnds(r)
    BY <1>4 DEF LoopStep, Launch, LaunchRefused, LoopEnds, LoopPromotes, Dispatch,
       Acquire, Barrier, LoopAborts, RunReturns, TypeOK
  <2> QED
    BY <1>3, <2>1 DEF LoopEnds, AllFinished, NoneBlocked, TypeOK
<1>5. ASSUME NEW a \in Actions, GoroutineStep(r, a) PROVE FALSE
  BY <1>2, <1>5, GoroutineRows
<1>6. CASE Cancel \/ UNCHANGED vars
  BY <1>2, <1>3, <1>6 DEF Cancel, vars
<1>7. CASE RequestStep
  <2>1. UNCHANGED pc
    BY <1>7, RequestRows
  <2>2. UNCHANGED status \/ \E a \in Actions : SetStatus(a, "pending")
    BY <1>7, RequestRows DEF LeavesRows, WritesBack, TypeOK
  <2> QED
    BY <1>2, <1>3, <2>1, <2>2 DEF NoneBlocked, TypeOK
<1>9. CASE Crash
  BY <1>9 DEF Crash, NoMemory
<1>10. CASE Recover
  BY <1>10 DEF Recover, LoopInv
<1> QED
  BY <1>1, <1>4, <1>5, <1>6, <1>7, <1>9, <1>10 DEF Next

LEMMA EscalatedStep ==
  ASSUME OneLoop, TypeOK, LoopInv, SucceedInv, EscalatedInv, up, up', [Next]_vars
  PROVE  EscalatedInv'
<1> SUFFICES ASSUME NEW r \in Engines, NEW a \in Actions,
                    pc'[r] = "idle", status'[a] = "blocked"
             PROVE  item' \in {"escalated", "queued", "cancelled"}
  BY DEF EscalatedInv
<1>1. \A q \in Engines : q = r
  BY DEF OneLoop
<1>2. ASSUME pc[r] = "idle", status[a] = "blocked"
      PROVE  item \in {"escalated", "queued", "cancelled"}
  BY <1>2 DEF EscalatedInv
<1>3. CASE LoopStep(r)
  <2>1. CASE RunReturns(r)
    <3>1. status[a] = "blocked" /\ pc[r] = "fail"
      BY <2>1 DEF RunReturns, SucceedInv, NoneBlocked
    <3> QED
      BY <2>1, <3>1 DEF RunReturns, TerminalFailureState
  <2>2. CASE LaunchRefused(r)
    BY <1>2, <2>2 DEF LaunchRefused
  <2>3. CASE ~(RunReturns(r) \/ LaunchRefused(r))
    BY <1>3, <2>3 DEF LoopStep, Launch, LoopEnds, LoopPromotes, Dispatch, Acquire,
       Barrier, LoopAborts, TypeOK
  <2> QED
    BY <2>1, <2>2, <2>3
<1>4. ASSUME NEW b \in Actions, GoroutineStep(r, b)
      PROVE  UNCHANGED <<item, status, pc>>
  <2>1. RowStep(r, b) /\ stage[r][b] # "none" /\ UNCHANGED <<cancelled, pc>>
    BY <1>4, GoroutineRows
  <2>2. r \in cancelled
    BY <2>1 DEF LoopInv
  <2> QED
    BY <2>1, <2>2
    DEF RowStep, GivesUp, Advances, Finishes, Records, Resets, Working
<1>5. CASE UNCHANGED vars
  BY <1>2, <1>5 DEF vars
<1>6. CASE Cancel
  BY <1>2, <1>6 DEF Cancel
<1>7. CASE RequestStep
  <2>1. UNCHANGED pc /\ (UNCHANGED item \/ item' = "queued")
    BY <1>7, RequestRows DEF LeavesRows, WritesBack
  <2>2. status[a] = "blocked"
    BY <1>7, RequestRows DEF LeavesRows, WritesBack, TypeOK
  <2> QED
    BY <1>2, <2>1, <2>2
<1>9. ~Crash /\ ~Recover
  BY DEF Crash, Recover
<1> QED
  BY <1>1, <1>2, <1>3, <1>4, <1>5, <1>6, <1>7, <1>9 DEF Next

(* When no loop runs, a blocked action has put its work item where people    *)
(* look for it, or the work item was cancelled (Run's last write,            *)
(* terminalFailureState), however gates, failures, reruns and cancellations  *)
(* interleave with the one loop, until the process first dies.               *)
THEOREM BlockedIsEscalatedCorrect ==
  ASSUME OneLoop
  PROVE  Spec => [](NoCrashYet => BlockedIsEscalated)
<1> DEFINE IInv == NoCrashYet => SucceedInv /\ EscalatedInv
<1>1. Init => IInv
  BY DEF Init, SucceedInv, EscalatedInv
<1>2. /\ TypeOK /\ LoopInv /\ ProcessInv /\ ProcessInv' /\ IInv /\ [Next]_vars
      => IInv'
  BY SucceedStep, EscalatedStep, UsedStays DEF ProcessInv
<1>3. IInv => (NoCrashYet => BlockedIsEscalated)
  <2> SUFFICES ASSUME IInv, NoCrashYet, NEW a \in Actions, status[a] = "blocked",
                      \A r \in Engines : pc[r] = "idle"
               PROVE  item \in {"escalated", "queued", "cancelled"}
    BY DEF BlockedIsEscalated
  <2> QED
    BY DEF EscalatedInv, OneLoop
<1> QED
  BY <1>1, <1>2, <1>3, EngineTypeCorrect, LoopsCorrect, ProcessCorrect, PTL DEF Spec

-----------------------------------------------------------------------------
(* Rework, for gates that send back nothing but what they wait for: every    *)
(* list, and every graph without reset_upstream_closure.                     *)
SendsBackDirect == \A g \in Gates : ResetTargets(g) \subseteq Predecessors(g)

BusyRow(r) ==
  /\ \A a \in Actions : stage[r][a] # "none" => status[a] \in {"running", "pending"}
  /\ pc[r] = "acquire" => status[Min(batch[r])] \in {"running", "pending"}
(* Nothing that a started action waits for is started before the barrier.    *)
UpstreamQuiet(r) ==
  \A a \in Actions : stage[r][a] # "none" \/ a \in batch[r] =>
    \A p \in Predecessors(a) :
      /\ p \notin batch[r] /\ stage[r][p] = "none"
      /\ status[p] \in {"done", "pending"}
ReadyRow(r) ==
  \A a \in Actions : status[a] = "ready" =>
    Predecessors(a) = {} \/ a \in batch[r] \/ Abandoned(r)
OwedGate(r) ==
  \A o \in owed :
    /\ o[2] \in Predecessors(o[1])
    /\ status[o[1]] \notin {"done", "ready"}
    /\ o[1] \notin batch[r] /\ stage[r][o[1]] \in {"none", "reset"}
(* What is owed is not done, or about to be reset, or the gate is blocked.   *)
OwedTarget(r) ==
  \A o \in owed :
    \/ status[o[2]] # "done"
    \/ status[o[1]] = "blocked"
    \/ stage[r][o[1]] = "reset" /\ o[2] \in todo[r][o[1]]
    \/ Abandoned(r)
ReworkOf(r) ==
  BusyRow(r) /\ UpstreamQuiet(r) /\ ReadyRow(r) /\ OwedGate(r) /\ OwedTarget(r)
ReworkInv == \A r \in Engines : ReworkOf(r)

LEMMA ReworkGoroutine ==
  ASSUME SendsBackDirect, TypeOK, LoopInv, AbandonInv,
         NEW r \in Engines, NEW a \in Actions, ReworkOf(r), GoroutineStep(r, a),
         Abandoned(r) => Abandoned(r)'
  PROVE  ReworkOf(r)'
<1> USE DEF ReworkOf, BusyRow, UpstreamQuiet, ReadyRow, OwedGate, OwedTarget
<1>1. /\ RowStep(r, a) /\ stage[r][a] # "none"
      /\ UNCHANGED <<up, cancelled, pc, batch>>
  BY GoroutineRows
<1>2. status[a] \in {"running", "pending"} /\ a \notin batch[r] /\ batch[r] \subseteq Actions
  BY <1>1 DEF LoopInv, TypeOK
<1>3. \A b \in Actions :
        /\ Predecessors(b) \subseteq Actions /\ b \notin Predecessors(b)
        /\ todo[r][b] \subseteq Actions
  BY PredecessorsAreActions, NotOwnPredecessor DEF TypeOK
<1>4. owed \subseteq Actions \X Actions
  BY EngineAssumption DEF TypeOK
<1>5. pc[r] = "acquire" => Min(batch[r]) \in batch[r] /\ Min(batch[r]) \in Actions
  BY MinOfBatch DEF TypeOK
<1>6. Working(r) => ~Abandoned(r)
  BY DEF Working, Abandoned
<1>7. UNCHANGED Min(batch[r])
  BY <1>1
<1>8. CASE GivesUp(r, a)
  <2>1. /\ UNCHANGED <<status, owed>>
        /\ \A b \in Actions : stage'[r][b] = IF b = a THEN "none" ELSE stage[r][b]
        /\ \A b \in Actions : todo'[r][b] = IF b = a THEN {} ELSE todo[r][b]
    BY <1>8, EndsOf DEF GivesUp
  <2>2. stage[r][a] = "reset" => Abandoned(r)
    BY <1>1, <1>8 DEF GivesUp, AbandonInv
  <2>3. BusyRow(r)' /\ ReadyRow(r)'
    BY <1>1, <2>1
  <2>4. UpstreamQuiet(r)'
    BY <1>1, <1>3, <2>1
  <2>5. OwedGate(r)' /\ OwedTarget(r)'
    BY <1>1, <1>4, <2>1, <2>2
  <2> QED
    BY <2>3, <2>4, <2>5
<1>9. CASE Advances(r, a)
  <2>1. PICK s \in {"execute", "evaluate", "merge", "reject"} : SetStage(r, a, s)
    BY <1>9 DEF Advances
  <2>2. \A b \in Actions : stage'[r][b] = IF b = a THEN s ELSE stage[r][b]
    BY <2>1 DEF TypeOK
  <2>3. /\ UNCHANGED <<status, owed>>
        /\ stage[r][a] \in {"prepare", "execute", "evaluate", "merge"}
        /\ \A b \in Actions : b # a => todo'[r][b] = todo[r][b]
    BY <1>9 DEF Advances, TypeOK
  <2>4. BusyRow(r)' /\ ReadyRow(r)'
    BY <1>1, <1>2, <2>2, <2>3
  <2>5. UpstreamQuiet(r)'
    BY <1>1, <1>3, <2>2, <2>3
  <2>6. OwedGate(r)' /\ OwedTarget(r)'
    BY <1>1, <1>4, <2>2, <2>3
  <2> QED
    BY <2>4, <2>5, <2>6
<1>10. CASE Finishes(r, a)
  <2>1. PICK s \in {"pending", "failed", "blocked", "done"} :
          /\ FinishesAs(r, a, s)
          /\ stage[r][a] = "reset" => s \in {"pending", "blocked"}
    BY <1>10 DEF Finishes
  <2>2. \A b \in Actions : status'[b] = IF b = a THEN s ELSE status[b]
    BY <2>1 DEF FinishesAs, TypeOK
  <2>3. /\ \A b \in Actions : stage'[r][b] = IF b = a THEN "none" ELSE stage[r][b]
        /\ \A b \in Actions : todo'[r][b] = IF b = a THEN {} ELSE todo[r][b]
        /\ Working(r)
    BY <1>10, EndsOf DEF Finishes
  <2>4. BusyRow(r)'
    BY <1>1, <1>2, <1>5, <1>7, <2>2, <2>3
  <2>5. ReadyRow(r)'
    BY <1>1, <2>2, <2>3
  <2>6. UpstreamQuiet(r)'
    BY <1>1, <1>3, <2>2, <2>3
  <2>7. CASE s = "done"
    <3>1. /\ owed' = {o \in owed : o[2] # a}
          /\ stage[r][a] \in {"execute", "child", "merge"}
      BY <2>1, <2>7 DEF FinishesAs, Redone
    <3>2. \A o \in owed' : o \in owed /\ o[1] # a /\ o[2] # a
      BY <3>1
    <3>3. OwedGate(r)' /\ OwedTarget(r)'
      BY <1>1, <1>4, <1>6, <2>2, <2>3, <3>2
    <3> QED
      BY <2>4, <2>5, <2>6, <3>3
  <2>8. CASE s # "done"
    <3>1. /\ UNCHANGED owed
          /\ stage[r][a] = "reset" /\ s = "pending" => todo[r][a] = {}
      BY <2>1, <2>8 DEF FinishesAs
    <3>2. OwedGate(r)'
      BY <1>1, <1>4, <2>1, <2>2, <2>3, <2>8, <3>1
    <3>3. OwedTarget(r)'
      <4> SUFFICES ASSUME NEW o \in owed
                   PROVE  \/ status'[o[2]] # "done"
                          \/ status'[o[1]] = "blocked"
                          \/ stage'[r][o[1]] = "reset" /\ o[2] \in todo'[r][o[1]]
        BY <3>1
      <4>1. o[1] \in Actions /\ o[2] \in Actions /\ o[2] # o[1]
        BY <1>3, <1>4
      <4>2. CASE o[1] = a
        <5>1. stage[r][a] = "reset" /\ s \in {"pending", "blocked"}
          BY <1>1, <2>1, <4>2
        <5> QED
          BY <1>2, <1>6, <2>2, <2>3, <3>1, <4>1, <4>2, <5>1
      <4>3. CASE o[1] # a
        BY <1>6, <2>2, <2>3, <2>8, <4>1, <4>3
      <4> QED
        BY <4>2, <4>3
    <3> QED
      BY <2>4, <2>5, <2>6, <3>2, <3>3
  <2> QED
    BY <2>7, <2>8
<1>11. CASE Records(r, a)
  <2>1. /\ \A b \in Actions : stage'[r][b] = IF b = a THEN "reset" ELSE stage[r][b]
        /\ UNCHANGED <<status, todo>> /\ stage[r][a] = "reject"
        /\ owed' = owed \cup ({a} \X todo[r][a])
    BY <1>11 DEF Records, TypeOK
  <2>2. todo[r][a] \subseteq Predecessors(a)
    BY <2>1 DEF TypeOK, LoopInv, SendsBackDirect
  <2>3. \A o \in owed' : o \in owed \/ (o[1] = a /\ o[2] \in todo[r][a])
    BY <2>1
  <2>4. BusyRow(r)' /\ ReadyRow(r)'
    BY <1>1, <1>2, <2>1
  <2>5. UpstreamQuiet(r)'
    BY <1>1, <1>3, <2>1
  <2>6. OwedGate(r)'
    BY <1>1, <1>2, <1>4, <2>1, <2>2, <2>3
  <2>7. OwedTarget(r)'
    BY <1>1, <1>4, <2>1, <2>3
  <2> QED
    BY <2>4, <2>5, <2>6, <2>7
<1>12. CASE Resets(r, a)
  <2>1. PICK t \in todo[r][a] :
          SetStatus(t, "pending") /\ todo' = [todo EXCEPT ![r][a] = @ \ {t}]
    BY <1>12 DEF Resets
  <2>2. todo' = [todo EXCEPT ![r][a] = todo[r][a] \ {t}]
    BY <2>1
  <2>3. /\ UNCHANGED <<stage, owed>> /\ stage[r][a] = "reset" /\ Working(r)
        /\ t \in Actions
    BY <1>3, <1>12 DEF Resets
  <2>4. \A b \in Actions : status'[b] = IF b = t THEN "pending" ELSE status[b]
    BY <2>1 DEF TypeOK
  <2>5. \A b \in Actions : todo'[r][b] = IF b = a THEN todo[r][a] \ {t} ELSE todo[r][b]
    BY <2>2 DEF TypeOK
  <2>6. t \in Predecessors(a)
    BY <2>3 DEF TypeOK, LoopInv, SendsBackDirect
  <2>7. status[t] \in {"done", "pending"} /\ stage[r][t] = "none"
    BY <1>1, <2>6
  <2>8. BusyRow(r)'
    BY <1>1, <1>5, <1>7, <2>3, <2>4
  <2>9. ReadyRow(r)'
    BY <1>1, <2>4
  <2>10. UpstreamQuiet(r)'
    BY <1>1, <1>3, <2>3, <2>4
  <2>11. OwedGate(r)'
    BY <1>1, <1>4, <2>3, <2>4
  <2>12. OwedTarget(r)'
    BY <1>4, <1>6, <2>3, <2>4, <2>5, <2>7
  <2> QED
    BY <2>8, <2>9, <2>10, <2>11, <2>12
<1> QED
  BY <1>1, <1>8, <1>9, <1>10, <1>11, <1>12 DEF RowStep

LEMMA ReworkLoop ==
  ASSUME TypeOK, LoopInv, NEW r \in Engines, ReworkOf(r), LoopStep(r),
         Abandoned(r) => Abandoned(r)'
  PROVE  ReworkOf(r)'
<1> USE DEF ReworkOf, BusyRow, UpstreamQuiet, ReadyRow, OwedGate, OwedTarget
<1>1. \A b \in Actions :
        Predecessors(b) \subseteq Actions /\ b \notin Predecessors(b)
  BY PredecessorsAreActions, NotOwnPredecessor
<1>2. owed \subseteq Actions \X Actions
  BY EngineAssumption DEF TypeOK
<1>3. Working(r) => ~Abandoned(r)
  BY DEF Working, Abandoned
<1>4. CASE Launch(r)
  <2> DEFINE S == {a \in EntryActions : status[a] = "pending"}
  <2>1. /\ \A b \in Actions : status'[b] = IF b \in S THEN "ready" ELSE status[b]
        /\ UNCHANGED <<owed, batch, stage, todo>>
        /\ pc' = [pc EXCEPT ![r] = "list"] /\ pc[r] = "idle"
        /\ Goroutines(r) = {} /\ item \in Runnable
    BY <1>4 DEF Launch, MakeReady
  <2>2. /\ \A b \in Actions : stage[r][b] = "none"
        /\ ~Abandoned(r) /\ batch[r] = {} /\ pc'[r] = "list"
    BY <2>1 DEF Goroutines, Abandoned, Runnable, LoopInv, TypeOK
  <2>3. \A b \in S : status[b] = "pending" /\ Predecessors(b) = {}
    BY DEF EntryActions
  <2> HIDE DEF S
  <2>4. BusyRow(r)' /\ UpstreamQuiet(r)'
    BY <2>1, <2>2
  <2>5. ReadyRow(r)'
    BY <2>1, <2>2, <2>3
  <2>6. OwedGate(r)'
    BY <1>2, <2>1, <2>2, <2>3
  <2>7. OwedTarget(r)'
    BY <1>2, <2>1, <2>2, <2>3
  <2> QED
    BY <2>4, <2>5, <2>6, <2>7
<1>5. CASE LaunchRefused(r) \/ LoopEnds(r) \/ Barrier(r) \/ RunReturns(r)
  <2>1. /\ UNCHANGED <<status, owed, batch, stage, todo>>
        /\ pc'[r] = "acquire" => pc[r] = "acquire"
    BY <1>5 DEF LaunchRefused, LoopEnds, Barrier, RunReturns, TypeOK
  <2>2. UNCHANGED Min(batch[r])
    BY <2>1
  <2>3. BusyRow(r)' /\ UpstreamQuiet(r)' /\ ReadyRow(r)'
    BY <2>1, <2>2
  <2>4. OwedGate(r)' /\ OwedTarget(r)'
    BY <2>1
  <2> QED
    BY <2>3, <2>4
<1>6. CASE LoopPromotes(r)
  <2>1. /\ \A b \in Actions :
             status'[b] = IF b \in PromotableActions THEN "ready" ELSE status[b]
        /\ batch'[r] = RunnableActions /\ pc'[r] = "dispatch"
        /\ UNCHANGED <<owed, stage, todo>>
        /\ Working(r) /\ pc[r] = "list"
    BY <1>6 DEF LoopPromotes, MakeReady, TypeOK
  <2>2. /\ \A b \in Actions : stage[r][b] = "none"
        /\ ~Abandoned(r) /\ batch[r] = {}
    BY <1>3, <2>1 DEF LoopInv
  <2>3. \A b \in PromotableActions :
          status[b] = "pending" /\ \A p \in Predecessors(b) : status[p] = "done"
    BY DEF PromotableActions
  <2>4. \A b \in Actions :
          b \in RunnableActions <=> status[b] = "ready" \/ b \in PromotableActions
    BY DEF RunnableActions
  <2>5. BusyRow(r)'
    BY <2>1, <2>2
  <2>6. UpstreamQuiet(r)'
    <3> SUFFICES ASSUME NEW a \in Actions, a \in RunnableActions,
                        NEW p \in Predecessors(a)
                 PROVE  /\ p \notin RunnableActions /\ stage'[r][p] = "none"
                        /\ status'[p] \in {"done", "pending"}
      BY <2>1, <2>2
    <3>1. p \in Actions
      BY <1>1
    <3>2. a \in PromotableActions
      BY <2>2, <2>4
    <3>3. status[p] = "done" /\ p \notin PromotableActions
      BY <2>3, <3>2
    <3> QED
      BY <2>1, <2>2, <2>4, <3>1, <3>3
  <2>7. ReadyRow(r)'
    BY <2>1, <2>4
  <2>8. OwedGate(r)'
    BY <1>2, <2>1, <2>2, <2>3, <2>4
  <2>9. OwedTarget(r)'
    BY <1>2, <2>1, <2>2, <2>3
  <2> QED
    BY <2>5, <2>6, <2>7, <2>8, <2>9
<1>7. CASE Dispatch(r)
  <2> DEFINE a == Min(batch[r])
  <2>1. a \in batch[r] /\ a \in Actions /\ Working(r) /\ ~Abandoned(r)
    BY <1>3, <1>7, MinOfBatch DEF Dispatch
  <2>2. \A b \in Actions : status'[b] = IF b = a THEN "running" ELSE status[b]
    BY <1>7 DEF Dispatch, Transition, TypeOK
  <2>3. /\ UNCHANGED <<owed, todo>> /\ pc[r] = "dispatch"
        /\ \/ /\ SetStage(r, a, "child")
              /\ batch' = [batch EXCEPT ![r] = @ \ {a}] /\ UNCHANGED pc
           \/ pc' = [pc EXCEPT ![r] = "acquire"] /\ UNCHANGED <<stage, batch>>
    BY <1>7 DEF Dispatch
  <2>4. batch'[r] = batch[r] => Min(batch[r])' = a
    OBVIOUS
  <2> HIDE DEF a
  <2>5. CASE /\ SetStage(r, a, "child")
             /\ batch' = [batch EXCEPT ![r] = @ \ {a}] /\ UNCHANGED pc
    <3>1. /\ \A b \in Actions : stage'[r][b] = IF b = a THEN "child" ELSE stage[r][b]
          /\ batch'[r] = batch[r] \ {a} /\ pc'[r] = "dispatch"
      BY <2>1, <2>3, <2>5 DEF TypeOK
    <3>2. BusyRow(r)' /\ ReadyRow(r)'
      BY <2>1, <2>2, <2>3, <3>1
    <3>3. UpstreamQuiet(r)'
      BY <1>1, <2>1, <2>2, <3>1
    <3>4. OwedGate(r)'
      BY <1>2, <2>1, <2>2, <2>3, <3>1
    <3>5. OwedTarget(r)'
      BY <1>2, <2>1, <2>2, <2>3, <3>1
    <3> QED
      BY <3>2, <3>3, <3>4, <3>5
  <2>6. CASE pc' = [pc EXCEPT ![r] = "acquire"] /\ UNCHANGED <<stage, batch>>
    <3>1. UNCHANGED <<stage, batch>> /\ Min(batch[r])' = a
      BY <2>4, <2>6
    <3>2. BusyRow(r)' /\ ReadyRow(r)'
      BY <2>1, <2>2, <3>1
    <3>3. UpstreamQuiet(r)'
      BY <1>1, <2>1, <2>2, <3>1
    <3>4. OwedGate(r)'
      BY <1>2, <2>1, <2>2, <2>3, <3>1
    <3>5. OwedTarget(r)'
      BY <1>2, <2>1, <2>2, <2>3, <3>1
    <3> QED
      BY <3>2, <3>3, <3>4, <3>5
  <2> QED
    BY <2>3, <2>5, <2>6
<1>8. CASE Acquire(r)
  <2> DEFINE a == Min(batch[r])
  <2>1. a \in batch[r] /\ a \in Actions /\ status[a] \in {"running", "pending"}
    BY <1>8, MinOfBatch DEF Acquire, TypeOK
  <2>2. /\ \A b \in Actions : stage'[r][b] = IF b = a THEN "prepare" ELSE stage[r][b]
        /\ batch'[r] = batch[r] \ {a} /\ pc'[r] = "dispatch"
        /\ UNCHANGED <<status, owed, todo>>
    BY <1>8, <2>1 DEF Acquire, TypeOK
  <2> HIDE DEF a
  <2>3. BusyRow(r)' /\ ReadyRow(r)'
    BY <2>1, <2>2
  <2>4. UpstreamQuiet(r)'
    BY <1>1, <2>1, <2>2
  <2>5. OwedGate(r)' /\ OwedTarget(r)'
    BY <1>2, <2>1, <2>2
  <2> QED
    BY <2>3, <2>4, <2>5
<1>9. CASE LoopAborts(r)
  <2>1. /\ UNCHANGED <<status, owed, stage, todo>>
        /\ batch'[r] = {} /\ pc'[r] = "fail" /\ Abandoned(r)'
    BY <1>9 DEF LoopAborts, Abandoned, TypeOK
  <2>2. BusyRow(r)' /\ UpstreamQuiet(r)' /\ ReadyRow(r)'
    BY <1>1, <2>1
  <2>3. OwedGate(r)' /\ OwedTarget(r)'
    BY <1>2, <2>1
  <2> QED
    BY <2>2, <2>3
<1> QED
  BY <1>4, <1>5, <1>6, <1>7, <1>8, <1>9 DEF LoopStep

LEMMA ReworkOutside ==
  ASSUME TypeOK, NEW r \in Engines, ReworkOf(r), Abandoned(r) => Abandoned(r)',
         ~overtaken', RequestStep \/ Cancel \/ UNCHANGED vars
  PROVE  ReworkOf(r)'
<1> USE DEF ReworkOf, BusyRow, UpstreamQuiet, ReadyRow, OwedGate, OwedTarget
<1>1. owed \subseteq Actions \X Actions
  BY EngineAssumption DEF TypeOK
<1>2. \A b \in Actions : Predecessors(b) \subseteq Actions
  BY PredecessorsAreActions
<1>3. UNCHANGED <<pc, batch, stage, todo>>
  BY RequestRows DEF Cancel, vars
<1>4. UNCHANGED Min(batch[r])
  BY <1>3
<1>5. pc[r] = "acquire" => Min(batch[r]) \in Actions
  BY MinOfBatch DEF TypeOK
(* A blocked or failed row is written pending, and its debt is waived.       *)
<1>6. \E S \in SUBSET {a \in Actions : status[a] \in {"failed", "blocked"}} :
        /\ \A a \in Actions : status'[a] = IF a \in S THEN "pending" ELSE status[a]
        /\ \A o \in owed' : o \in owed /\ o[1] \notin S
  <2>1. CASE UNCHANGED <<status, owed>>
    <3> WITNESS {} \in SUBSET {a \in Actions : status[a] \in {"failed", "blocked"}}
    <3> QED
      BY <2>1
  <2>2. ASSUME NEW c \in Callers, NEW a \in held[c], WritesBack(c, a)
        PROVE  /\ a \in Actions /\ status[a] \in {"failed", "blocked"}
               /\ \A b \in Actions : status'[b] = IF b \in {a} THEN "pending" ELSE status[b]
               /\ \A o \in owed' : o \in owed /\ o[1] \notin {a}
    BY <2>2 DEF WritesBack, TypeOK
  <2>3. CASE \E c \in Callers : \E a \in held[c] : WritesBack(c, a)
    <3>1. PICK c \in Callers : \E a \in held[c] : WritesBack(c, a)
      BY <2>3
    <3>2. PICK a \in held[c] : WritesBack(c, a)
      BY <3>1
    <3>3. {a} \in SUBSET {b \in Actions : status[b] \in {"failed", "blocked"}}
      BY <2>2, <3>2
    <3> QED
      BY <2>2, <3>2, <3>3
  <2> QED
    BY <2>1, <2>3, RequestRows DEF LeavesRows, Cancel, vars
<1>7. PICK S \in SUBSET {a \in Actions : status[a] \in {"failed", "blocked"}} :
        /\ \A a \in Actions : status'[a] = IF a \in S THEN "pending" ELSE status[a]
        /\ \A o \in owed' : o \in owed /\ o[1] \notin S
  BY <1>6
<1>8. BusyRow(r)' /\ ReadyRow(r)'
  BY <1>3, <1>4, <1>5, <1>7
<1>9. UpstreamQuiet(r)'
  BY <1>2, <1>3, <1>7
<1>10. OwedGate(r)' /\ OwedTarget(r)'
  BY <1>1, <1>3, <1>7
<1> QED
  BY <1>8, <1>9, <1>10

LEMMA ReworkStep ==
  ASSUME OneLoop, SendsBackDirect, TypeOK, LoopInv, ProcessInv, AbandonInv,
         up, up', ~overtaken', ReworkInv, [Next]_vars
  PROVE  ReworkInv'
<1> SUFFICES ASSUME NEW r \in Engines PROVE ReworkOf(r)'
  BY DEF ReworkInv
<1>1. ReworkOf(r) /\ \A q \in Engines : q = r
  BY DEF ReworkInv, OneLoop
<1>2. Abandoned(r) => Abandoned(r)'
  BY AbandonedStays DEF Serial
<1>3. CASE LoopStep(r)
  BY <1>1, <1>2, <1>3, ReworkLoop
<1>4. ASSUME NEW a \in Actions, GoroutineStep(r, a) PROVE ReworkOf(r)'
  BY <1>1, <1>2, <1>4, ReworkGoroutine
<1>5. CASE RequestStep \/ Cancel \/ UNCHANGED vars
  BY <1>1, <1>2, <1>5, ReworkOutside
<1>6. ~Crash /\ ~Recover
  BY DEF Crash, Recover
<1> QED
  BY <1>1, <1>3, <1>4, <1>5, <1>6 DEF Next

(* A rejection is answered before its gate is evaluated again or passes,     *)
(* when every gate sends back only what it waits for itself: one loop, until *)
(* the process first dies or a request writes back a row that has moved on,  *)
(* with any failure of the executor, the store or the merge, any budget      *)
(* spent halfway through the resets, and any unblocking, rerun or            *)
(* cancellation in between (ProcessGate's record and resets,                 *)
(* promotePendingActions, the barrier of scheduleLoop).                      *)
THEOREM RejectionAnsweredCorrect ==
  ASSUME OneLoop, SendsBackDirect
  PROVE  Spec => [](NoCrashYet /\ ~overtaken => RejectionAnswered)
<1> DEFINE IInv == NoCrashYet => AbandonInv /\ (~overtaken => ReworkInv)
<1>1. Init => IInv
  BY DEF Init, AbandonInv, ReworkInv, ReworkOf, BusyRow, UpstreamQuiet, ReadyRow,
     OwedGate, OwedTarget
<1>2. /\ TypeOK /\ LoopInv /\ ProcessInv /\ ProcessInv' /\ IInv /\ [Next]_vars
      => IInv'
  BY AbandonStep, ReworkStep, UsedStays, OvertakenStays DEF ProcessInv, Serial
<1>3. TypeOK /\ IInv => (NoCrashYet /\ ~overtaken => RejectionAnswered)
  <2> SUFFICES ASSUME TypeOK, IInv, NoCrashYet, ~overtaken, NEW o \in owed, NEW r \in Engines
               PROVE  /\ status[o[1]] # "done"
                      /\ stage[r][o[1]] \notin {"prepare", "execute", "evaluate", "merge"}
    BY DEF RejectionAnswered, OneLoop
  <2> QED
    BY DEF ReworkInv, ReworkOf, OwedGate
<1> QED
  BY <1>1, <1>2, <1>3, EngineTypeCorrect, LoopsCorrect, ProcessCorrect, PTL DEF Spec

(* A list of actions, and a graph whose gates send back their closest        *)
(* predecessors only, are of this kind.                                      *)
LEMMA SendsBackDirectly ==
  ASSUME ~DagMode \/ ClosureGates = {}
  PROVE  SendsBackDirect
<1> SUFFICES ASSUME NEW g \in Gates PROVE ResetTargets(g) \subseteq Predecessors(g)
  BY DEF SendsBackDirect
<1>1. g \in Actions
  BY EngineAssumption
<1>2. CASE ~DagMode
  BY <1>1, <1>2, LinearTargets
<1>3. CASE DagMode /\ ClosureGates = {}
  BY <1>3 DEF ResetTargets, DefaultResetTargets, ImmediatePredecessors, Predecessors
<1> QED
  BY <1>2, <1>3

-----------------------------------------------------------------------------
(* What is done stays done, but for a gate's reset and a request that writes *)
(* back the row it read before.                                              *)
StartedRow(r) ==
  BusyRow(r) /\ \A a \in batch[r] : status[a] \in {"ready", "running", "pending"}
StartedInv == \A r \in Engines : StartedRow(r)
OnlyResetsUndoDone ==
  [][\A a \in Actions : status[a] = "done" /\ status'[a] # "done" =>
       /\ status'[a] = "pending"
       /\ \/ \E r \in Engines, g \in Gates : stage[r][g] = "reset" /\ a \in todo[r][g]
          \/ \E c \in Callers : a \in held[c] /\ WritesBack(c, a)]_vars

LEMMA StartedLoop ==
  ASSUME TypeOK, LoopInv, NEW r \in Engines, StartedRow(r), LoopStep(r)
  PROVE  /\ StartedRow(r)'
         /\ \A a \in Actions : status[a] = "done" => status'[a] = "done"
<1> USE DEF StartedRow, BusyRow
<1>1. CASE Launch(r)
  <2>1. /\ pc'[r] = "list" /\ \A a \in Actions : stage'[r][a] = "none"
        /\ batch'[r] = {}
        /\ MakeReady({a \in EntryActions : status[a] = "pending"})
    BY <1>1 DEF Launch, Goroutines, LoopInv, TypeOK
  <2> QED
    BY <2>1 DEF MakeReady
<1>2. CASE \/ LaunchRefused(r) \/ LoopEnds(r) \/ Barrier(r) \/ LoopAborts(r)
           \/ RunReturns(r)
  <2>1. /\ UNCHANGED <<status, stage>>
        /\ batch'[r] = {} \/ batch'[r] = batch[r]
        /\ pc'[r] = "acquire" => pc[r] = "acquire" /\ UNCHANGED batch
    BY <1>2 DEF LaunchRefused, LoopEnds, Barrier, LoopAborts, RunReturns, TypeOK
  <2>2. pc'[r] = "acquire" => UNCHANGED Min(batch[r])
    BY <2>1
  <2> QED
    BY <2>1, <2>2
<1>3. CASE LoopPromotes(r)
  <2>1. /\ pc'[r] = "dispatch" /\ \A a \in Actions : stage'[r][a] = "none"
        /\ MakeReady(PromotableActions) /\ batch'[r] = RunnableActions
    BY <1>3 DEF LoopPromotes, LoopInv, TypeOK
  <2> QED
    BY <2>1 DEF MakeReady, RunnableActions, PromotableActions
<1>4. CASE Dispatch(r)
  <2> DEFINE a == Min(batch[r])
  <2>1. a \in batch[r] /\ a \in Actions
    BY <1>4, MinOfBatch DEF Dispatch
  <2>2. /\ \A b \in Actions : status'[b] = IF b = a THEN "running" ELSE status[b]
        /\ pc[r] = "dispatch"
        /\ \/ /\ SetStage(r, a, "child")
              /\ batch' = [batch EXCEPT ![r] = @ \ {a}] /\ UNCHANGED pc
           \/ pc' = [pc EXCEPT ![r] = "acquire"] /\ UNCHANGED <<stage, batch>>
    BY <1>4 DEF Dispatch, Transition, TypeOK
  <2>3. batch'[r] = batch[r] => Min(batch[r])' = a
    OBVIOUS
  <2>4. status[a] # "done" /\ batch[r] \subseteq Actions
    BY <2>1 DEF TypeOK
  <2> HIDE DEF a
  <2>5. CASE /\ SetStage(r, a, "child")
             /\ batch' = [batch EXCEPT ![r] = @ \ {a}] /\ UNCHANGED pc
    <3>1. /\ \A b \in Actions : stage'[r][b] = IF b = a THEN "child" ELSE stage[r][b]
          /\ batch'[r] = batch[r] \ {a}
      BY <2>1, <2>5 DEF TypeOK
    <3> QED
      BY <2>1, <2>2, <2>4, <2>5, <3>1
  <2>6. CASE pc' = [pc EXCEPT ![r] = "acquire"] /\ UNCHANGED <<stage, batch>>
    <3>1. Min(batch[r])' = a
      BY <2>3, <2>6
    <3> QED
      BY <2>1, <2>2, <2>4, <2>6, <3>1
  <2> QED
    BY <2>2, <2>5, <2>6
<1>5. CASE Acquire(r)
  <2> DEFINE a == Min(batch[r])
  <2>1. a \in batch[r] /\ a \in Actions /\ status[a] \in {"running", "pending"}
    BY <1>5, MinOfBatch DEF Acquire, TypeOK
  <2>2. /\ \A b \in Actions : stage'[r][b] = IF b = a THEN "prepare" ELSE stage[r][b]
        /\ batch'[r] = batch[r] \ {a} /\ pc'[r] = "dispatch" /\ UNCHANGED status
    BY <1>5, <2>1 DEF Acquire, TypeOK
  <2> HIDE DEF a
  <2> QED
    BY <2>1, <2>2
<1> QED
  BY <1>1, <1>2, <1>3, <1>4, <1>5 DEF LoopStep

LEMMA StartedGoroutine ==
  ASSUME TypeOK, LoopInv, NEW r \in Engines, NEW a \in Actions,
         StartedRow(r), GoroutineStep(r, a)
  PROVE  /\ StartedRow(r)'
         /\ \A b \in Actions : status[b] = "done" /\ status'[b] # "done" =>
              status'[b] = "pending" /\ stage[r][a] = "reset" /\ b \in todo[r][a]
<1> USE DEF StartedRow, BusyRow
<1>1. /\ RowStep(r, a) /\ stage[r][a] # "none"
      /\ UNCHANGED <<up, cancelled, pc, batch>>
  BY GoroutineRows
<1>2. /\ status[a] \in {"running", "pending"}
      /\ a \notin batch[r] /\ batch[r] \subseteq Actions
  BY <1>1 DEF LoopInv, TypeOK
<1>3. pc[r] = "acquire" => Min(batch[r]) \in batch[r]
  BY MinOfBatch DEF TypeOK
<1>4. UNCHANGED Min(batch[r])
  BY <1>1
<1>5. CASE GivesUp(r, a) \/ Advances(r, a) \/ Records(r, a)
  <2>1. UNCHANGED status
    BY <1>5 DEF GivesUp, Advances, Records
  <2>2. \E s : stage' = [stage EXCEPT ![r][a] = s]
    BY <1>5 DEF GivesUp, Advances, Records, Ends
  <2>3. \A b \in Actions : stage'[r][b] # "none" => stage[r][b] # "none"
    BY <1>1, <2>2 DEF TypeOK
  <2> QED
    BY <1>1, <1>4, <2>1, <2>3
<1>6. CASE Finishes(r, a)
  <2>1. PICK s \in {"pending", "failed", "blocked", "done"} : FinishesAs(r, a, s)
    BY <1>6 DEF Finishes
  <2>2. \A b \in Actions : status'[b] = IF b = a THEN s ELSE status[b]
    BY <2>1 DEF FinishesAs, TypeOK
  <2>3. \A b \in Actions : stage'[r][b] = IF b = a THEN "none" ELSE stage[r][b]
    BY <1>6, EndsOf DEF Finishes
  <2> QED
    BY <1>1, <1>2, <1>3, <1>4, <2>2, <2>3
<1>7. CASE Resets(r, a)
  <2>1. PICK t \in todo[r][a] : SetStatus(t, "pending")
    BY <1>7 DEF Resets
  <2>2. /\ \A b \in Actions : status'[b] = IF b = t THEN "pending" ELSE status[b]
        /\ UNCHANGED stage /\ stage[r][a] = "reset"
    BY <1>7, <2>1 DEF Resets, TypeOK
  <2> QED
    BY <1>1, <1>2, <1>3, <1>4, <2>2
<1> QED
  BY <1>1, <1>5, <1>6, <1>7 DEF RowStep

LEMMA StartedOutside ==
  ASSUME TypeOK, LoopInv, NEW r \in Engines, StartedRow(r),
         RequestStep \/ Cancel \/ Crash \/ Recover \/ UNCHANGED vars
  PROVE  /\ StartedRow(r)'
         /\ \A a \in Actions : status[a] = "done" /\ status'[a] # "done" =>
              /\ status'[a] = "pending"
              /\ \E c \in Callers : a \in held[c] /\ WritesBack(c, a)
<1> USE DEF StartedRow, BusyRow
<1>1. pc[r] = "acquire" => Min(batch[r]) \in Actions
  BY MinOfBatch DEF TypeOK
<1>2. batch[r] \subseteq Actions
  BY DEF TypeOK
<1>3. CASE Cancel \/ UNCHANGED vars
  <2>1. UNCHANGED <<status, pc, batch, stage>>
    BY <1>3 DEF Cancel, vars
  <2>2. UNCHANGED Min(batch[r])
    BY <2>1
  <2> QED
    BY <2>1, <2>2
<1>4. CASE RequestStep
  <2>1. UNCHANGED <<pc, batch, stage>>
    BY <1>4, RequestRows
  <2>2. UNCHANGED Min(batch[r])
    BY <2>1
  <2>3. \A b \in Actions :
          \/ status'[b] = status[b]
          \/ /\ status'[b] = "pending"
             /\ \E c \in Callers : b \in held[c] /\ WritesBack(c, b)
    <3>1. CASE LeavesRows
      BY <3>1 DEF LeavesRows
    <3>2. ASSUME NEW c \in Callers, NEW a \in held[c], WritesBack(c, a)
          PROVE  \A b \in Actions : status'[b] = IF b = a THEN "pending" ELSE status[b]
      BY <3>2 DEF WritesBack, TypeOK
    <3> QED
      BY <1>4, <3>1, <3>2, RequestRows
  <2> QED
    BY <1>1, <1>2, <2>1, <2>2, <2>3
<1>5. CASE Crash
  BY <1>5 DEF Crash, NoMemory
<1>6. CASE Recover
  <2>1. pc[r] = "idle" /\ batch[r] = {} /\ \A a \in Actions : stage[r][a] = "none"
    BY <1>6 DEF Recover, LoopInv
  <2>2. /\ UNCHANGED <<pc, batch, stage>>
        /\ \A a \in Actions : status[a] = "done" => status'[a] = "done"
    BY <1>6 DEF Recover
  <2> QED
    BY <2>1, <2>2
<1> QED
  BY <1>3, <1>4, <1>5, <1>6

(* Nothing of the engine takes an action back from done but a gate that      *)
(* resets what it rejected: no late write of a goroutine, no retry, no       *)
(* cancellation, crash or recovery (the writes of whole rows from copies in  *)
(* handleFailure and ProcessGate, recoverWorkItem).  The one exception is a  *)
(* request that writes the row it read before the action was done            *)
(* (actionUnblock, resetRetryableActions).  A second loop over the same rows *)
(* would be another.                                                         *)
THEOREM DoneIsKept ==
  ASSUME OneLoop
  PROVE  Spec => OnlyResetsUndoDone
<1> DEFINE Undone ==
      \A a \in Actions : status[a] = "done" /\ status'[a] # "done" =>
        /\ status'[a] = "pending"
        /\ \/ \E r \in Engines, g \in Gates : stage[r][g] = "reset" /\ a \in todo[r][g]
           \/ \E c \in Callers : a \in held[c] /\ WritesBack(c, a)
<1>1. Init => StartedInv
  BY DEF Init, StartedInv, StartedRow, BusyRow
<1>2. ASSUME TypeOK, LoopInv, StartedInv, [Next]_vars
      PROVE  StartedInv' /\ Undone
  <2>1. PICK r : Engines = {r}
    BY DEF OneLoop
  <2>2. r \in Engines /\ StartedRow(r)
    BY <1>2, <2>1 DEF StartedInv
  <2>3. CASE LoopStep(r)
    BY <1>2, <2>1, <2>2, <2>3, StartedLoop DEF StartedInv
  <2>4. ASSUME NEW a \in Actions, GoroutineStep(r, a) PROVE StartedInv' /\ Undone
    <3>1. stage[r][a] = "reset" => a \in Gates
      BY <1>2, <2>2 DEF TypeOK
    <3>2. /\ StartedRow(r)'
          /\ \A b \in Actions : status[b] = "done" /\ status'[b] # "done" =>
               status'[b] = "pending" /\ stage[r][a] = "reset" /\ b \in todo[r][a]
      BY <1>2, <2>2, <2>4, StartedGoroutine
    <3> QED
      BY <2>1, <2>2, <3>1, <3>2 DEF StartedInv
  <2>5. CASE RequestStep \/ Cancel \/ Crash \/ Recover \/ UNCHANGED vars
    BY <1>2, <2>1, <2>2, <2>5, StartedOutside DEF StartedInv
  <2> QED
    BY <1>2, <2>1, <2>3, <2>4, <2>5 DEF Next
<1>3. TypeOK /\ LoopInv /\ StartedInv /\ [Next]_vars => [Undone]_vars
  BY <1>2
<1> HIDE DEF Undone
<1>4. Spec => [][Undone]_vars
  BY <1>1, <1>2, <1>3, EngineTypeCorrect, LoopsCorrect, PTL DEF Spec
<1> QED
  BY <1>4 DEF OnlyResetsUndoDone, Undone

-----------------------------------------------------------------------------
(* What the code keeps of the two promises that people's rejections break.   *)
RoundsWithinLimit == \A g \in Gates : rounds[g] =< MaxReworkRounds[g]

(* However many loops, signals, crashes and reruns there are, a gate never   *)
(* records more rejections than its max_rework_rounds (LimitReached counts   *)
(* those of people and agents as well, so it may record fewer).              *)
THEOREM RoundsBounded == Spec => []RoundsWithinLimit
<1> DEFINE IInv == TypeOK /\ RoundsWithinLimit
<1> USE DEF RoundsWithinLimit
<1>1. Init => RoundsWithinLimit
  BY EngineAssumption DEF Init
<1>2. ASSUME TypeOK, RoundsWithinLimit, [Next]_vars PROVE RoundsWithinLimit'
  <2>1. ASSUME NEW r \in Engines, LoopStep(r) PROVE UNCHANGED rounds
    BY <2>1 DEF LoopStep, Launch, LaunchRefused, LoopEnds, LoopPromotes, Dispatch,
       Acquire, Barrier, LoopAborts, RunReturns
  <2>2. ASSUME NEW r \in Engines, NEW a \in Actions, GoroutineStep(r, a)
        PROVE  RoundsWithinLimit'
    <3>1. CASE RecordReject(r, a)
      <4>1. a \in Gates /\ rounds' = [rounds EXCEPT ![a] = @ + 1]
        BY <1>2, <3>1 DEF RecordReject, TypeOK
      <4>2. ~(rounds[a] + rejections[a] >= MaxReworkRounds[a])
        BY <3>1 DEF RecordReject, LimitReached, ReworkCount
      <4>3. rounds[a] \in Nat /\ rejections[a] \in Nat /\ MaxReworkRounds[a] \in Nat
        BY <1>2, <4>1, EngineAssumption DEF TypeOK
      <4> QED
        BY <1>2, <4>1, <4>2, <4>3 DEF TypeOK
    <3>2. CASE ~RecordReject(r, a)
      <4>1. UNCHANGED rounds
        BY <2>2, <3>2
        DEF GoroutineStep, PrepareFails, StartRun, ExecutorFails, ExecutorSucceeds,
            ChildReturns, Evaluate, Merge, RejectAtLimit, ResetUpstream, FinishReject,
            GoroutineAborts
      <4> QED
        BY <1>2, <4>1
    <3> QED
      BY <3>1, <3>2
  <2>3. CASE RequestStep \/ Cancel \/ Crash \/ Recover \/ UNCHANGED vars
    <3>1. UNCHANGED rounds
      BY <1>2, <2>3, RequestRows DEF Cancel, Crash, Recover, vars
    <3> QED
      BY <1>2, <3>1
  <2> QED
    BY <1>2, <2>1, <2>2, <2>3 DEF Next
<1>3. TypeOK /\ RoundsWithinLimit /\ [Next]_vars => RoundsWithinLimit'
  BY <1>2
<1> QED
  BY <1>1, <1>3, EngineTypeCorrect, PTL DEF Spec

(* Neither of the evaluators that know the closest predecessors only has a   *)
(* say: nobody signalled a rejection, no gate has a manifest check.          *)
Unquestioned(g) == rejections[g] = 0 /\ "manifest" \notin Verdicts
TargetsOf(g) ==
  Unquestioned(g) =>
    /\ latest[g] # "reject"
    /\ \A r \in Engines : stage[r][g] = "reject" => todo[r][g] = DefaultResetTargets(g)
TargetsInv == \A g \in Gates : TargetsOf(g)

(* What one goroutine writes to its own stage and targets.                   *)
Writes(r, a, s, S) ==
  \A q \in Engines, b \in Actions :
    /\ stage'[q][b] = IF q = r /\ b = a THEN s ELSE stage[q][b]
    /\ todo'[q][b] = IF q = r /\ b = a THEN S ELSE todo[q][b]

LEMMA EndsWrites ==
  ASSUME TypeOK, NEW r \in Engines, NEW a \in Actions, Ends(r, a)
  PROVE  Writes(r, a, "none", {})
<1>1. /\ stage' = [stage EXCEPT ![r][a] = "none"]
      /\ todo' = [todo EXCEPT ![r][a] = {}]
  BY DEF Ends
<1> QED
  BY <1>1 DEF Writes, TypeOK

LEMMA RejectsWrites ==
  ASSUME TypeOK, NEW r \in Engines, NEW a \in Actions, NEW S, Rejects(r, a, S)
  PROVE  Writes(r, a, "reject", S)
<1>1. /\ stage' = [stage EXCEPT ![r][a] = "reject"]
      /\ todo' = [todo EXCEPT ![r][a] = S]
  BY DEF Rejects
<1> QED
  BY <1>1 DEF Writes, TypeOK

LEMMA StageWrites ==
  ASSUME TypeOK, NEW r \in Engines, NEW a \in Actions, NEW s,
         SetStage(r, a, s), UNCHANGED todo
  PROVE  Writes(r, a, s, todo[r][a])
BY DEF Writes, TypeOK

LEMMA TargetsKept ==
  ASSUME NEW r \in Engines, NEW a \in Actions, NEW s, NEW S, Writes(r, a, s, S),
         NEW g \in Gates, TargetsOf(g), UNCHANGED rejections,
         latest'[g] = latest[g] \/ latest'[g] = "system",
         a = g /\ Unquestioned(g) /\ s = "reject" => S = DefaultResetTargets(g)
  PROVE  TargetsOf(g)'
<1>1. g \in Actions /\ UNCHANGED DefaultResetTargets(g)
  BY EngineAssumption DEF DefaultResetTargets
<1> QED
  BY <1>1 DEF TargetsOf, Unquestioned, Writes

LEMMA TargetsGoroutine ==
  ASSUME TypeOK, NEW r \in Engines, NEW a \in Actions, GoroutineStep(r, a),
         NEW g \in Gates, TargetsOf(g)
  PROVE  TargetsOf(g)'
<1>1. UNCHANGED rejections
  BY DEF GoroutineStep, PrepareFails, StartRun, ExecutorFails, ExecutorSucceeds,
     ChildReturns, Evaluate, Merge, RejectAtLimit, RecordReject, ResetUpstream,
     FinishReject, GoroutineAborts
<1>2. CASE Ends(r, a) /\ UNCHANGED latest
  BY <1>1, <1>2, EndsWrites, TargetsKept
<1>3. CASE Rejects(r, a, DefaultResetTargets(a)) /\ UNCHANGED latest
  BY <1>1, <1>3, RejectsWrites, TargetsKept
<1>4. ASSUME NEW s \in {"execute", "evaluate", "merge"},
             SetStage(r, a, s), UNCHANGED <<latest, todo>>
      PROVE  TargetsOf(g)'
  <2>1. Writes(r, a, s, todo[r][a]) /\ s # "reject"
    BY <1>4, StageWrites
  <2> QED
    BY <1>1, <1>4, <2>1, TargetsKept
<1>5. CASE Evaluate(r, a)
  <2>1. UNCHANGED latest
    BY <1>5 DEF Evaluate
  <2>2. \/ Passes(r, a)
        \/ Rejects(r, a, DefaultResetTargets(a))
        \/ /\ latest[a] = "reject" \/ "manifest" \in Verdicts
           /\ Rejects(r, a, ImmediatePredecessors(a))
    BY <1>5 DEF Evaluate
  <2>3. CASE Passes(r, a)
    BY <1>4, <2>1, <2>3 DEF Passes
  <2>4. CASE /\ latest[a] = "reject" \/ "manifest" \in Verdicts
             /\ Rejects(r, a, ImmediatePredecessors(a))
    <3>1. Writes(r, a, "reject", ImmediatePredecessors(a))
      BY <2>4, RejectsWrites
    <3>2. ~(a = g /\ Unquestioned(g))
      BY <2>4 DEF TargetsOf, Unquestioned
    <3> QED
      BY <1>1, <2>1, <3>1, <3>2, TargetsKept
  <2> QED
    BY <1>3, <2>1, <2>2, <2>3, <2>4
<1>6. CASE Merge(r, a)
  BY <1>2, <1>3, <1>6 DEF Merge, Returns
<1>7. CASE RecordReject(r, a)
  <2>1. /\ a \in Gates /\ latest' = [latest EXCEPT ![a] = "system"]
        /\ SetStage(r, a, "reset") /\ UNCHANGED todo
    BY <1>7 DEF RecordReject, TypeOK
  <2>2. Writes(r, a, "reset", todo[r][a])
    BY <2>1, StageWrites
  <2>3. latest'[g] = latest[g] \/ latest'[g] = "system"
    BY <2>1 DEF TypeOK
  <2> QED
    BY <1>1, <2>2, <2>3, TargetsKept
<1>8. CASE ResetUpstream(r, a) /\ ~Ends(r, a)
  <2> DEFINE S == todo[r][a] \ {Min(todo[r][a])}
  <2>1. /\ stage[r][a] = "reset" /\ UNCHANGED <<latest, stage>>
        /\ todo' = [todo EXCEPT ![r][a] = S]
    BY <1>8 DEF ResetUpstream, BlockGate, Returns
  <2> HIDE DEF S
  <2>2. Writes(r, a, "reset", S)
    BY <2>1 DEF Writes, TypeOK
  <2> QED
    BY <1>1, <2>1, <2>2, TargetsKept
<1>9. CASE ResetUpstream(r, a) /\ Ends(r, a)
  BY <1>2, <1>9 DEF ResetUpstream
<1>10. CASE StartRun(r, a) \/ ExecutorSucceeds(r, a)
  BY <1>2, <1>4, <1>10 DEF StartRun, ExecutorSucceeds, Returns, ReturnsError
<1>11. CASE \/ PrepareFails(r, a) \/ ExecutorFails(r, a) \/ ChildReturns(r, a)
           \/ RejectAtLimit(r, a) \/ FinishReject(r, a) \/ GoroutineAborts(r, a)
  BY <1>2, <1>11
  DEF PrepareFails, ExecutorFails, RetryOrFail, ChildReturns, RejectAtLimit, BlockGate,
      FinishReject, GoroutineAborts, Returns, ReturnsError
<1> QED
  BY <1>5, <1>6, <1>7, <1>8, <1>9, <1>10, <1>11 DEF GoroutineStep

LEMMA TargetsLoop ==
  ASSUME TypeOK, NEW r \in Engines, LoopStep(r), NEW g \in Gates, TargetsOf(g)
  PROVE  TargetsOf(g)'
<1>1. g \in Actions /\ UNCHANGED DefaultResetTargets(g)
  BY EngineAssumption DEF DefaultResetTargets
<1>2. UNCHANGED <<latest, rejections, todo>>
  BY DEF LoopStep, Launch, LaunchRefused, LoopEnds, LoopPromotes, Dispatch,
     Acquire, Barrier, LoopAborts, RunReturns
<1>3. \/ UNCHANGED stage
      \/ \E s \in {"child", "prepare"} : stage' = [stage EXCEPT ![r][Min(batch[r])] = s]
  BY DEF LoopStep, Launch, LaunchRefused, LoopEnds, LoopPromotes, Dispatch,
     Acquire, Barrier, LoopAborts, RunReturns
<1>4. \A q \in Engines : stage'[q][g] = "reject" => stage[q][g] = "reject"
  <2>1. ASSUME NEW m, NEW s \in {"child", "prepare"},
               stage' = [stage EXCEPT ![r][m] = s]
        PROVE  \A q \in Engines : stage'[q][g] = IF q = r /\ g = m THEN s ELSE stage[q][g]
    BY <1>1, <2>1 DEF TypeOK
  <2> QED
    BY <1>3, <2>1
<1> QED
  BY <1>1, <1>2, <1>4 DEF TargetsOf, Unquestioned

LEMMA TargetsOutside ==
  ASSUME TypeOK, NEW g \in Gates, TargetsOf(g),
         RequestStep \/ Cancel \/ Crash \/ Recover \/ UNCHANGED vars
  PROVE  TargetsOf(g)'
<1> USE DEF TargetsOf, Unquestioned
<1>1. g \in Actions /\ UNCHANGED DefaultResetTargets(g)
  BY EngineAssumption DEF DefaultResetTargets
<1>2. ASSUME NEW h \in Gates, Signal(h) PROVE TargetsOf(g)'
  <2>1. PICK d \in Decisions :
          /\ latest' = [latest EXCEPT ![h] = d]
          /\ rejections' = [rejections EXCEPT ![h] = IF d = "reject" THEN @ + 1 ELSE @]
    BY <1>2 DEF Signal
  <2>2. UNCHANGED <<stage, todo>> /\ rejections[h] \in Nat
    BY <1>2 DEF Signal, TypeOK
  <2> QED
    BY <1>1, <2>1, <2>2 DEF TypeOK
<1>3. CASE (RequestStep /\ ~\E h \in Gates : Signal(h)) \/ Cancel \/ Recover \/ UNCHANGED vars
  <2>1. UNCHANGED <<latest, rejections, stage, todo>>
    BY <1>3 DEF RequestStep, UnblockReads, Unblock, RerunReads, RerunWrites, Rerun,
       Reads, WritesBack, Cancel, Recover, vars
  <2> QED
    BY <1>1, <2>1
<1>4. CASE Crash
  BY <1>1, <1>4 DEF Crash, NoMemory
<1> QED
  BY <1>2, <1>3, <1>4

(* A gate with reset_upstream_closure sends back everything upstream of it   *)
(* for as long as nobody has signalled a rejection of it and no gate has a   *)
(* manifest check: evalSignalVerdict and evalManifestCheck know the closest  *)
(* predecessors only and decide before the deliverable's verdict, which like *)
(* the refused merge takes the configured targets (gate.go).                 *)
THEOREM ClosureUnlessOverruled ==
  Spec => [][\A r \in Engines, g \in ClosureGates :
               Unquestioned(g) /\ RecordReject(r, g)
                 => todo[r][g] = AllPredecessors(g)]_vars
<1> DEFINE Whole ==
      \A r \in Engines, g \in ClosureGates :
        Unquestioned(g) /\ RecordReject(r, g) => todo[r][g] = AllPredecessors(g)
<1>1. Init => TargetsInv
  BY EngineAssumption DEF Init, TargetsInv, TargetsOf
<1>2. TypeOK /\ TargetsInv /\ [Next]_vars => TargetsInv'
  BY TargetsGoroutine, TargetsLoop, TargetsOutside DEF TargetsInv, Next
<1>3. TargetsInv => Whole
  BY EngineAssumption
  DEF TargetsInv, TargetsOf, RecordReject, DefaultResetTargets
<1> HIDE DEF Whole
<1>4. Spec => [][Whole]_vars
  BY <1>1, <1>2, <1>3, EngineTypeCorrect, PTL DEF Spec
<1> QED
  BY <1>4 DEF Whole
===============================================================================
