----------------------------- MODULE Initiatives -----------------------------
(***************************************************************************)
(* From a thread's proposal to work (application/proposalapp and           *)
(* application/initiativeapp): a proposal is reviewed, its approval makes  *)
(* an initiative with one work item for each draft, and the approval of    *)
(* the initiative starts them.  Every request reads a row, checks its      *)
(* status and writes the whole row back, so requests overwrite each other. *)
(* Of the scheduler there is what queues, runs and ends an item, and the   *)
(* requests that hold or cancel one by a status they have read before; an  *)
(* item has its actions by then, and one entry and one run at a time.      *)
(* Titles, notes, messages and events are left out.                        *)
(***************************************************************************)
EXTENDS Lifecycle

CONSTANTS
  Drafts, DependsOn,   \* the proposal's drafts and their depends_on
  MaxInitiatives,      \* bound: initiatives made
  Callers,             \* concurrent requests
  MaxCalls,            \* bound: requests and restarts
  None

Ids == 1..MaxInitiatives
Items == Ids \X Drafts

InitiativeStatus ==
  {"none", "draft", "proposed", "executing", "blocked", "done", "failed", "cancelled", "deleted"}

\* What a request carries from its reads to its writes.
Requests ==
  [op : {"proposal"}, write : {"draft", "open", "approved", "rejected", "revised", "merged", "deleted"}]
  \cup [op : {"status"}, on : Ids, write : {"proposed", "draft", "cancelled"}]
  \cup [op : {"add", "remove"}, on : Ids, work : Items] \cup [op : {"delete"}, on : Ids]
  \cup [op : {"approve"}, on : Ids, items : SUBSET Items] \cup [op : {"queue"}, todo : SUBSET Items]
  \cup [op : {"work"}, work : Items, read : WorkItemStatus, write : {"queued", "accepted", "pending_execution", "cancelled"}]
  \cup [op : {"refresh"}, on : Ids, read : InitiativeStatus \ {"none", "deleted"}, items : SUBSET Items,
        unread : SUBSET Items, seen : SUBSET {"running", "blocked", "done", "failed", "other"}]

ASSUME InitiativesAssumption ==
  /\ MaxInitiatives \in Nat \ {0} /\ MaxCalls \in Nat \ {0}
  /\ DependsOn \in [Drafts -> SUBSET Drafts]
  /\ None \notin Requests

VARIABLES
  proposal,    \* its status; "deleted" when the row is gone
  status,      \* status[i]: of the initiative; "none" before and "deleted" after
  listed,      \* listed[i]: the work items of its initiative_items rows
  item,        \* item[w]: the status of the work item; "none" before it is made
  entered,     \* items with an entry in the scheduler's queue
  live,        \* items with a run
  following,   \* <<w, d>>: w's run has completed and still has to examine d
  call,        \* call[c]: what the request has read and has still to do, or None
  promised,    \* promised[i]: the items its approval found (history)
  dropped,     \* items that an error or a restart kept from being queued (history)
  everCompleted,  \* items whose run has written completed (history)
  overwritten, \* items written by a late hold or cancellation, or by one after their completion (history)
  calls

rowVars == <<proposal, status, listed>>
workVars == <<item, entered, live, following>>
itemHistory == <<everCompleted, overwritten>>
historyVars == <<promised, dropped, itemHistory>>
vars == <<rowVars, workVars, call, historyVars, calls>>

\* Before any request, or with an initiative that was made of the proposal and
\* proposed; what led there counts as one request.
Init ==
  /\ \/ /\ proposal \in {"draft", "open"}
        /\ status = [i \in Ids |-> "none"] /\ listed = [i \in Ids |-> {}]
        /\ item = [w \in Items |-> "none"] /\ calls = 0
     \/ /\ proposal = "merged"
        /\ status = [i \in Ids |-> IF i = 1 THEN "proposed" ELSE "none"]
        /\ listed = [i \in Ids |-> IF i = 1 THEN {1} \X Drafts ELSE {}]
        /\ item = [w \in Items |-> IF w[1] = 1 THEN "open" ELSE "none"] /\ calls = 1
  /\ entered = {} /\ live = {} /\ following = {}
  /\ call = [c \in Callers |-> None]
  /\ promised = [i \in Ids |-> {}] /\ dropped = {} /\ everCompleted = {} /\ overwritten = {}

Begin(c, r) == call[c] = None /\ calls < MaxCalls /\ calls' = calls + 1
               /\ call' = [call EXCEPT ![c] = r]
End(c) == call' = [call EXCEPT ![c] = None]

\* The items an item depends on: materializeProposal links the drafts' items.
Needs(w) == {w[1]} \X DependsOn[w[2]]
DependenciesSatisfied(w) == \A d \in Needs(w) : item[d] = "completed"

----------------------------------------------------------------------------
(* The proposal. *)

\* core.CanTransitionProposalStatus; approved is never stored.
ProposalMayBecome(from, to) ==
  \/ from = to
  \/ from = "draft" /\ to \in {"open", "rejected"}
  \/ from = "open" /\ to \in {"approved", "rejected"}
  \/ from = "rejected" /\ to = "revised"
  \/ from = "revised" /\ to \in {"open", "rejected"}

\* Submit, Approve, Reject and Revise; UpdateProposal and ReplaceDrafts write
\* back the status they have read.
ReadProposal(c) ==
  /\ proposal # "deleted"
  /\ \E to \in {"open", "approved", "rejected", "revised", "edited", "deleted"} :
       /\ CASE to = "edited" -> proposal \in {"draft", "revised"}
            [] to = "deleted" -> proposal = "draft"
            [] OTHER -> ProposalMayBecome(proposal, to)
       /\ Begin(c, [op |-> "proposal", write |-> IF to = "edited" THEN proposal ELSE to])
  /\ UNCHANGED <<rowVars, workVars, historyVars>>

\* No condition on the status; no row, no write.
WriteProposal(c) ==
  /\ call[c] # None /\ call[c].op = "proposal" /\ call[c].write # "approved"
  /\ proposal' = IF proposal = "deleted" THEN "deleted" ELSE call[c].write
  /\ End(c)
  /\ UNCHANGED <<status, listed, workVars, historyVars, calls>>

\* The transaction of Approve: materializeProposal, and the proposal is merged.
Materialize(c) ==
  /\ call[c] # None /\ call[c].op = "proposal" /\ call[c].write = "approved"
  /\ IF proposal = "deleted" THEN UNCHANGED <<rowVars, item>>
     ELSE \E i \in Ids :
            /\ status[i] = "none" /\ \A j \in Ids : j < i => status[j] # "none"
            /\ status' = [status EXCEPT ![i] = "draft"]
            /\ listed' = [listed EXCEPT ![i] = {i} \X Drafts]
            /\ item' = [w \in Items |-> IF w[1] = i THEN "open" ELSE item[w]]
            /\ proposal' = "merged"
  /\ End(c)
  /\ UNCHANGED <<entered, live, following, historyVars, calls>>

----------------------------------------------------------------------------
(* The initiative. *)

\* core.CanTransitionInitiativeStatus, of what a request asks for.
MayBecome(from, to) ==
  \/ from = to
  \/ from = "draft" /\ to \in {"proposed", "cancelled"}
  \/ from = "proposed" /\ to \in {"draft", "approved", "cancelled"}
  \/ from \in {"executing", "blocked"} /\ to = "cancelled"

\* Propose, Reject, Cancel, and UpdateInitiative, which only takes a draft.
ReadInitiative(c, i) ==
  /\ status[i] \notin {"none", "deleted"}
  /\ \E to \in {"proposed", "draft", "cancelled"} :
       /\ MayBecome(status[i], to)
       /\ Begin(c, [op |-> "status", on |-> i, write |-> to])
  /\ UNCHANGED <<rowVars, workVars, historyVars>>

\* UpdateInitiative of the store writes every column.
WriteStatus(i, to) ==
  status' = [status EXCEPT ![i] = IF @ = "deleted" THEN "deleted" ELSE to]

WriteInitiative(c) ==
  /\ call[c] # None /\ call[c].op = "status"
  /\ WriteStatus(call[c].on, call[c].write) /\ End(c)
  /\ UNCHANGED <<proposal, listed, workVars, historyVars, calls>>

\* AddWorkItem, RemoveWorkItem and DeleteInitiative, of a draft.
ReadDraft(c, i) ==
  /\ status[i] = "draft"
  /\ \/ \E w \in Items, op \in {"add", "remove"} :
          /\ item[w] # "none" /\ (w \in listed[i]) = (op = "remove")
          /\ Begin(c, [op |-> op, on |-> i, work |-> w])
     \/ Begin(c, [op |-> "delete", on |-> i])
  /\ UNCHANGED <<rowVars, workVars, historyVars>>

WriteItem(c) ==
  /\ call[c] # None /\ call[c].op \in {"add", "remove"}   \* there is no foreign key
  /\ listed' = [listed EXCEPT ![call[c].on] =
                  IF call[c].op = "add" THEN @ \cup {call[c].work} ELSE @ \ {call[c].work}]
  /\ End(c)
  /\ UNCHANGED <<proposal, status, workVars, historyVars, calls>>

Delete(c) ==
  /\ call[c] # None /\ call[c].op = "delete"
  /\ IF status[call[c].on] = "deleted" THEN UNCHANGED <<status, listed>>   \* rolled back
     ELSE /\ status' = [status EXCEPT ![call[c].on] = "deleted"]
          /\ listed' = [listed EXCEPT ![call[c].on] = {}]
  /\ End(c)
  /\ UNCHANGED <<proposal, workVars, historyVars, calls>>

\* Approve, before its transaction.
ReadApproval(c, i) ==
  /\ MayBecome(status[i], "approved")
  /\ Begin(c, [op |-> "approve", on |-> i, items |-> listed[i]])
  /\ UNCHANGED <<rowVars, workVars, historyVars>>

Roots(S) == {w \in S : Needs(w) = {}}

ApproveQueuesOnly(c) ==   \* (mutant) the dependents are left to the scheduler
  /\ call[c] # None /\ call[c].op = "approve"
  /\ LET i == call[c].on  found == call[c].items IN
       IF status[i] = "deleted" THEN End(c) /\ UNCHANGED <<status, item, promised>>
       ELSE /\ status' = [status EXCEPT ![i] = "executing"]
            /\ promised' = [promised EXCEPT ![i] = found]
            /\ call' = [call EXCEPT ![c] =
                 [op |-> "queue", todo |-> {w \in Roots(found) : item[w] \in {"open", "accepted"}}]]
            /\ UNCHANGED item
  /\ UNCHANGED <<proposal, listed, entered, live, following, dropped, itemHistory, calls>>

\* The transaction: executing, and the open dependents are held.
Approve(c) ==
  /\ call[c] # None /\ call[c].op = "approve"
  /\ LET i == call[c].on  found == call[c].items IN
       IF status[i] = "deleted" THEN End(c) /\ UNCHANGED <<status, item, promised>>
       ELSE /\ status' = [status EXCEPT ![i] = "executing"]
            /\ promised' = [promised EXCEPT ![i] = found]
            /\ item' = [w \in Items |-> IF w \in found \ Roots(found) /\ item[w] = "open"
                                          THEN "accepted" ELSE item[w]]
            /\ call' = [call EXCEPT ![c] =
                 [op |-> "queue", todo |-> {w \in Roots(found) : item[w] \in {"open", "accepted"}}]]
  /\ UNCHANGED <<proposal, listed, entered, live, following, dropped, itemHistory, calls>>

\* After the commit: scheduler.Submit, one root after the other.
QueueRoot(c) ==
  /\ call[c] # None /\ call[c].op = "queue"
  /\ \E w \in call[c].todo :
       /\ item[w] \in Preparable
       /\ item' = [item EXCEPT ![w] = "queued"] /\ entered' = entered \cup {w}
       /\ call' = [call EXCEPT ![c] = [call[c] EXCEPT !.todo = @ \ {w}]]
  /\ UNCHANGED <<rowVars, live, following, historyVars, calls>>

\* The first error ends it, and the request.
QueueStops(c) ==
  /\ call[c] # None /\ call[c].op = "queue"
  /\ call[c].todo = {} \/ \E w \in call[c].todo : item[w] \notin Preparable
  /\ dropped' = dropped \cup call[c].todo /\ End(c)
  /\ UNCHANGED <<rowVars, workVars, promised, itemHistory, calls>>

----------------------------------------------------------------------------
(* refreshDerivedStatus, of GetInitiativeDetail and GetProgress. *)

BeginRefresh(c, i) ==
  /\ status[i] \notin {"none", "deleted"}
  /\ Begin(c, [op |-> "refresh", on |-> i, read |-> status[i],
               items |-> listed[i], unread |-> listed[i], seen |-> {}])
  /\ UNCHANGED <<rowVars, workVars, historyVars>>

CountedLoosely(s) ==   \* (mutant) an item that is over counts as done
  CASE s \in {"queued", "in_execution"} -> "running"
    [] s = "escalated" -> "blocked"
    [] s \in {"completed", "cancelled"} -> "done"
    [] s = "needs_rework" -> "failed"
    [] OTHER -> "other"

\* computeInitiativeProgress: what it counts a status as.
CountedAs(s) ==
  CASE s \in {"queued", "in_execution"} -> "running"
    [] s = "escalated" -> "blocked"
    [] s = "completed" -> "done"
    [] s = "needs_rework" -> "failed"
    [] OTHER -> "other"

ReadItem(c) ==
  /\ call[c] # None /\ call[c].op = "refresh"
  /\ \E w \in call[c].unread :
       call' = [call EXCEPT ![c] = [call[c] EXCEPT !.unread = @ \ {w},
                                                  !.seen = @ \cup {CountedAs(item[w])}]]
  /\ UNCHANGED <<rowVars, workVars, historyVars, calls>>

\* The cases of the switch, in its order.
Derived(from, seen) ==
  CASE from \in {"executing", "blocked"} /\ seen = {"done"} -> "done"
    [] from = "executing" /\ "failed" \in seen -> "failed"
    [] from = "executing" /\ "blocked" \in seen /\ "running" \notin seen -> "blocked"
    [] from = "blocked" /\ "running" \in seen -> "executing"
    [] OTHER -> from

Refresh(c) ==
  /\ call[c] # None /\ call[c].op = "refresh" /\ call[c].unread = {}
  /\ LET next == Derived(call[c].read, call[c].seen) IN
       IF next = call[c].read THEN UNCHANGED status ELSE WriteStatus(call[c].on, next)
  /\ End(c)
  /\ UNCHANGED <<proposal, listed, workVars, historyVars, calls>>

----------------------------------------------------------------------------
(* The work items (WorkItemScheduler has the detail), and restarts. *)

\* Somebody runs an item on its own (scheduler.Submit) or cancels it
\* (scheduler.Cancel): an entry in the queue goes at once, a run is told (Finish).
ReadWork(c, w) ==
  /\ item[w] # "none"
  /\ \E to \in {"queued", "accepted", "pending_execution", "cancelled"} :
       /\ CASE to = "cancelled" -> w \notin live /\ (w \in entered \/ ValidWorkItemTransition(item[w], to))
            [] to = "queued" -> DependenciesSatisfied(w)
            [] OTHER -> ~DependenciesSatisfied(w) /\ (to = "accepted") = (item[w] \in {"open", "accepted"})
       /\ Begin(c, [op |-> "work", work |-> w, read |-> item[w], write |-> to])
       /\ entered' = IF to = "cancelled" THEN entered \ {w} ELSE entered
  /\ UNCHANGED <<rowVars, item, live, following, historyVars>>

\* What a hold or a cancellation has read is not so any more.
Late(r) == \/ item[r.work] # r.read
           \/ r.write # "cancelled" /\ DependenciesSatisfied(r.work)

\* PrepareWorkItemRun has a condition on the status, the hold and the cancellation
\* have none.
WriteWork(c) ==
  /\ call[c] # None /\ call[c].op = "work"
  /\ LET w == call[c].work  to == call[c].write IN
       IF to = "queued" /\ item[w] \notin Preparable THEN UNCHANGED <<item, entered, overwritten>>
       ELSE /\ item' = [item EXCEPT ![w] = to]
            /\ entered' = IF to = "queued" THEN entered \cup {w} ELSE entered
            /\ overwritten' = IF to # "queued" /\ (Late(call[c]) \/ item[w] = "completed")
                                THEN overwritten \cup {w} ELSE overwritten
  /\ End(c)
  /\ UNCHANGED <<rowVars, live, following, promised, dropped, everCompleted, calls>>

\* engine.Run, of a status it runs from.
Start(w) ==
  /\ w \in entered /\ entered' = entered \ {w}
  /\ IF item[w] \in Runnable THEN item' = [item EXCEPT ![w] = "in_execution"] /\ live' = live \cup {w}
     ELSE UNCHANGED <<item, live>>
  /\ UNCHANGED <<rowVars, following, call, historyVars, calls>>

Dependents(w) == {d \in Items : w \in Needs(d)}

FinishFollowed(w) ==   \* (mutant) the dependents are examined whatever the end
  /\ w \in live /\ live' = live \ {w}
  /\ \E s \in {"completed", "needs_rework", "escalated", "cancelled"} :
       /\ item' = [item EXCEPT ![w] = s]
       /\ following' = following \cup ({w} \X Dependents(w))
       /\ everCompleted' = IF s = "completed" THEN everCompleted \cup {w} ELSE everCompleted
  /\ UNCHANGED <<rowVars, entered, call, promised, dropped, overwritten, calls>>

\* The run writes its end, whatever the status has become.
Finish(w) ==
  /\ w \in live /\ live' = live \ {w}
  /\ \E s \in {"completed", "needs_rework", "escalated", "cancelled"} :
       /\ item' = [item EXCEPT ![w] = s]
       /\ IF s # "completed" THEN UNCHANGED <<following, everCompleted>>
          ELSE following' = following \cup ({w} \X Dependents(w)) /\ everCompleted' = everCompleted \cup {w}
  /\ UNCHANGED <<rowVars, entered, call, promised, dropped, overwritten, calls>>

FollowHeld(w) ==   \* (mutant) only an open dependent is queued
  /\ \E d \in Items :
       /\ <<w, d>> \in following /\ following' = following \ {<<w, d>>}
       /\ IF DependenciesSatisfied(d) /\ item[d] = "open"
            THEN item' = [item EXCEPT ![d] = "queued"] /\ entered' = entered \cup {d}
            ELSE UNCHANGED <<item, entered>>
  /\ UNCHANGED <<rowVars, live, call, historyVars, calls>>

\* autoQueueDependents, of one dependent.
Follow(w) ==
  /\ \E d \in Items :
       /\ <<w, d>> \in following /\ following' = following \ {<<w, d>>}
       /\ IF DependenciesSatisfied(d) /\ item[d] \in Preparable
            THEN item' = [item EXCEPT ![d] = "queued"] /\ entered' = entered \cup {d}
            ELSE UNCHANGED <<item, entered>>
  /\ UNCHANGED <<rowVars, live, call, historyVars, calls>>

\* What recovery finds to submit again.
Interrupted == {w \in Items : item[w] \in {"queued", "in_execution"}}

\* The process stops, and recovery submits again what was queued or running.
Restart ==
  /\ calls < MaxCalls /\ calls' = calls + 1
  /\ call' = [c \in Callers |-> None] /\ live' = {} /\ following' = {}
  /\ entered' = {w \in Interrupted : DependenciesSatisfied(w)}
  /\ item' = [w \in Items |-> IF w \notin Interrupted THEN item[w]
                              ELSE IF DependenciesSatisfied(w) THEN "queued" ELSE "pending_execution"]
  /\ dropped' = dropped \cup {d \in Items : \/ \E w \in Items : <<w, d>> \in following
                                            \/ \E c \in Callers : /\ call[c] # None /\ call[c].op = "queue"
                                                                  /\ d \in call[c].todo}
  /\ UNCHANGED <<rowVars, promised, itemHistory>>

----------------------------------------------------------------------------
Reads(c) ==
  \/ ReadProposal(c)
  \/ \E i \in Ids : ReadInitiative(c, i) \/ ReadDraft(c, i) \/ ReadApproval(c, i) \/ BeginRefresh(c, i)
  \/ \E w \in Items : ReadWork(c, w)
Continues(c) ==
  \/ WriteProposal(c) \/ Materialize(c) \/ WriteInitiative(c) \/ WriteItem(c) \/ Delete(c)
  \/ Approve(c) \/ QueueRoot(c) \/ QueueStops(c) \/ ReadItem(c) \/ Refresh(c)
  \/ WriteWork(c)
Works(w) == Start(w) \/ Finish(w) \/ Follow(w)

Next ==
  \/ Restart
  \/ \E c \in Callers : Reads(c) \/ Continues(c)
  \/ \E w \in Items : Works(w)

Spec == Init /\ [][Next]_vars

\* Requests that have begun go on, and the scheduler works as long as there is work.
FairSpec ==
  /\ Spec
  /\ WF_vars(\E c \in Callers : Continues(c))
  /\ WF_vars(\E w \in Items : Works(w))

----------------------------------------------------------------------------
\* Types; what an initiative lists, a request works on, an approval promised or the
\* scheduler has is there; no item that runs is completed, and only a run that has
\* written completed examines dependents.
TypeOK ==
  /\ proposal \in {"draft", "open", "rejected", "revised", "merged", "deleted"}
  /\ status \in [Ids -> InitiativeStatus]
  /\ item \in [Items -> WorkItemStatus \cup {"none"}]
  /\ call \in [Callers -> Requests \cup {None}]
  /\ \A i \in Ids : listed[i] \cup promised[i] \subseteq {w \in Items : item[w] # "none"}
  /\ \A c \in Callers : call[c] # None /\ call[c].op = "queue" => \A w \in call[c].todo : item[w] # "none"
  /\ entered \cup live \subseteq {w \in Items : item[w] # "none"}
  /\ \A w \in live : item[w] # "completed"
  /\ following \subseteq {p \in everCompleted \X Items : p[1] \in Needs(p[2])}
  /\ everCompleted \cup overwritten \cup dropped \subseteq Items /\ calls \in 0..MaxCalls

\* The approval of an initiative leaves none of its items behind: what it found is
\* held, queued or further, or about to be queued, unless an error or a restart
\* came between.
NothingLeftBehind ==
  \A i \in Ids : \A w \in promised[i] :
    item[w] = "open" =>
      w \in dropped \/ \E c \in Callers : call[c] # None /\ call[c].op = "queue" /\ w \in call[c].todo

\* An initiative becomes done only by a refresh of a list that is not empty and each
\* of whose items is completed, though they are read one by one while they run; one
\* that is not completed any more has been, and a late hold or cancellation has
\* overwritten it since.
DoneWhenCompleted ==
  [][\A i \in Ids : status'[i] = "done" /\ status[i] # "done" =>
       \E c \in Callers :
         /\ call[c] # None /\ call[c].op = "refresh" /\ call[c].on = i
         /\ call[c].items # {}
         /\ \A w \in call[c].items : item[w] = "completed" \/ w \in everCompleted \cap overwritten]_vars

\* What the items of a draft depend on, directly or not, and the draft itself.
UpstreamDrafts ==
  [x \in Drafts |->
     {d \in Drafts : \A S \in SUBSET Drafts : x \in S /\ (\A e \in S : DependsOn[e] \subseteq S) => d \in S}]

Upstream(w) == {w[1]} \X UpstreamDrafts[w[2]]

\* One of them was not found by the approval, was kept from being queued, had its
\* status overwritten, or has come to an end that is not completed.
Stopped(i, w) ==
  \E d \in Upstream(w) :
    d \notin promised[i] \/ d \in dropped \cup overwritten \/ item[d] \in {"needs_rework", "escalated", "cancelled"}

\* Every item an approval found is completed in the end, in the order of their
\* dependencies, unless something it waits for stops on the way.
ApprovedAreCompleted ==
  \A i \in Ids :
    promised[i] # {} ~> \A w \in promised[i] : item[w] = "completed" \/ Stopped(i, w)
=============================================================================
