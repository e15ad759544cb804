------------------------- MODULE InitiativesProofs -------------------------
(***************************************************************************)
(* Proofs about the approval of initiatives, for any drafts, any number of *)
(* initiatives and of concurrent requests: no item that an approval found  *)
(* is left behind, and no initiative is done before its items have been.    *)
(***************************************************************************)
EXTENDS Initiatives, TLAPS

USE InitiativesAssumption DEF Ids, rowVars, workVars, itemHistory, historyVars

Made == {w \in Items : item[w] # "none"}

\* An initiative that is not there has no items yet.
RowInv ==
  /\ status \in [Ids -> InitiativeStatus]
  /\ item \in [Items -> WorkItemStatus \cup {"none"}]
  /\ listed \in [Ids -> SUBSET Items]
  /\ promised \in [Ids -> SUBSET Items]
  /\ \A w \in Items : status[w[1]] = "none" => item[w] = "none"

\* A request that will add an item, approves the items it has read, or runs or
\* cancels one, names items that are there.
Carried(r) ==
  /\ r.op = "add" => r.work \in Made
  /\ r.op = "approve" => r.items \subseteq Made
  /\ r.op = "work" => r.work \in Made

MadeInv ==
  /\ \A i \in Ids : listed[i] \subseteq Made /\ promised[i] \subseteq Made
  /\ \A c \in Callers : call[c] # None => Carried(call[c])
  /\ live \subseteq Made

CallInv == call \in [Callers -> Requests \cup {None}]

----------------------------------------------------------------------------
\* What the kind of a request says of it.
LEMMA Shapes ==
  ASSUME NEW r \in Requests
  PROVE  /\ r.op = "proposal" => r.write \in {"draft", "open", "approved", "rejected", "revised", "merged", "deleted"}
         /\ r.op = "status" => r.on \in Ids /\ r.write \in {"proposed", "draft", "cancelled"}
         /\ r.op \in {"add", "remove"} => r.on \in Ids /\ r.work \in Items
         /\ r.op = "delete" => r.on \in Ids
         /\ r.op = "approve" => r.on \in Ids /\ r.items \in SUBSET Items
         /\ r.op = "queue" => r \in [op : {"queue"}, todo : SUBSET Items]
         /\ r.op = "work" => r.work \in Items /\ r.write \in {"queued", "accepted", "pending_execution", "cancelled"}
         /\ r.op = "refresh" =>
              r \in [op : {"refresh"}, on : Ids, read : InitiativeStatus \ {"none", "deleted"}, items : SUBSET Items,
                     unread : SUBSET Items, seen : SUBSET {"running", "blocked", "done", "failed", "other"}]
  BY DEF Requests

LEMMA NextStatus ==
  ASSUME NEW from \in InitiativeStatus \ {"none"}, NEW seen PROVE Derived(from, seen) \in InitiativeStatus \ {"none"}
  BY DEF Derived, InitiativeStatus

\* A request that becomes another request.
LEMMA CallSet ==
  ASSUME CallInv, NEW c \in Callers, NEW r \in Requests, call' = [call EXCEPT ![c] = r] PROVE CallInv'
  BY DEF CallInv

----------------------------------------------------------------------------
\* Requests keep their form.
LEMMA StepCall == RowInv /\ CallInv /\ [Next]_vars => CallInv'
  <1> SUFFICES ASSUME RowInv, CallInv, [Next]_vars PROVE CallInv'
    OBVIOUS
  <1>1. CASE UNCHANGED vars
    BY <1>1 DEF CallInv, vars
  <1>2. CASE Restart
    BY <1>2 DEF CallInv, Restart
  <1>3. ASSUME NEW c \in Callers, ReadProposal(c) PROVE CallInv'
    <2>1. PICK to \in {"open", "approved", "rejected", "revised", "edited", "deleted"} :
            /\ to = "edited" => proposal \in {"draft", "revised"}
            /\ call' = [call EXCEPT ![c] = [op |-> "proposal", write |-> IF to = "edited" THEN proposal ELSE to]]
      BY <1>3 DEF ReadProposal, Begin
    <2>2. [op |-> "proposal", write |-> IF to = "edited" THEN proposal ELSE to] \in Requests
      BY <2>1 DEF Requests
    <2> QED BY <2>1, <2>2, CallSet
  <1>4. ASSUME NEW c \in Callers, NEW i \in Ids, ReadInitiative(c, i) PROVE CallInv'
    <2>1. PICK to \in {"proposed", "draft", "cancelled"} :
            call' = [call EXCEPT ![c] = [op |-> "status", on |-> i, write |-> to]]
      BY <1>4 DEF ReadInitiative, Begin
    <2>2. [op |-> "status", on |-> i, write |-> to] \in Requests
      BY DEF Requests
    <2> QED BY <2>1, <2>2, CallSet
  <1>5. ASSUME NEW c \in Callers, NEW i \in Ids, ReadDraft(c, i) PROVE CallInv'
    <2>1. CASE call' = [call EXCEPT ![c] = [op |-> "delete", on |-> i]]
      <3>1. [op |-> "delete", on |-> i] \in Requests
        BY DEF Requests
      <3> QED BY <2>1, <3>1, CallSet
    <2>2. ASSUME NEW w \in Items, NEW op \in {"add", "remove"},
                 call' = [call EXCEPT ![c] = [op |-> op, on |-> i, work |-> w]]
          PROVE  CallInv'
      <3>1. [op |-> op, on |-> i, work |-> w] \in Requests
        BY DEF Requests
      <3> QED BY <2>2, <3>1, CallSet
    <2> QED BY <1>5, <2>1, <2>2 DEF ReadDraft, Begin
  <1>6. ASSUME NEW c \in Callers, NEW i \in Ids, ReadApproval(c, i) PROVE CallInv'
    <2>1. call' = [call EXCEPT ![c] = [op |-> "approve", on |-> i, items |-> listed[i]]]
      BY <1>6 DEF ReadApproval, Begin
    <2>2. listed[i] \in SUBSET Items
      BY DEF RowInv
    <2>3. [op |-> "approve", on |-> i, items |-> listed[i]] \in Requests
      BY <2>2 DEF Requests
    <2> QED BY <2>1, <2>3, CallSet
  <1>7. ASSUME NEW c \in Callers, NEW i \in Ids, BeginRefresh(c, i) PROVE CallInv'
    <2> DEFINE r == [op |-> "refresh", on |-> i, read |-> status[i], items |-> listed[i],
                     unread |-> listed[i], seen |-> {}]
    <2>1. call' = [call EXCEPT ![c] = r]
      BY <1>7 DEF BeginRefresh, Begin
    <2>2. listed[i] \in SUBSET Items /\ status[i] \in InitiativeStatus \ {"none", "deleted"}
      BY <1>7 DEF RowInv, BeginRefresh
    <2>3. r \in Requests
      BY <2>2 DEF Requests
    <2> QED BY <2>1, <2>3, CallSet
  <1>8. ASSUME NEW c \in Callers, WriteProposal(c) PROVE CallInv'
    BY <1>8, Shapes DEF CallInv, WriteProposal, End
  <1>9. ASSUME NEW c \in Callers, Materialize(c) PROVE CallInv'
    BY <1>9, Shapes DEF CallInv, Materialize, End
  <1>10. ASSUME NEW c \in Callers, WriteInitiative(c) PROVE CallInv'
    BY <1>10, Shapes DEF CallInv, WriteInitiative, End, WriteStatus
  <1>11. ASSUME NEW c \in Callers, WriteItem(c) PROVE CallInv'
    BY <1>11, Shapes DEF CallInv, WriteItem, End
  <1>12. ASSUME NEW c \in Callers, Delete(c) PROVE CallInv'
    BY <1>12, Shapes DEF CallInv, Delete, End
  <1>13. ASSUME NEW c \in Callers, Approve(c) PROVE CallInv'
    <2>1. PICK r \in Requests \cup {None} : call' = [call EXCEPT ![c] = r]
      <3> DEFINE found == call[c].items
                 r == [op |-> "queue", todo |-> {w \in Roots(found) : item[w] \in {"open", "accepted"}}]
      <3>2. r \in Requests
        BY <1>13, Shapes DEF CallInv, Approve, Requests, Roots
      <3>3. \/ call' = [call EXCEPT ![c] = None] \/ call' = [call EXCEPT ![c] = r]
        BY <1>13 DEF Approve, End
      <3> QED BY <3>2, <3>3
    <2> QED BY <2>1 DEF CallInv
  <1>14. ASSUME NEW c \in Callers, QueueRoot(c) PROVE CallInv'
    <2>1. PICK w \in call[c].todo : call' = [call EXCEPT ![c] = [call[c] EXCEPT !.todo = @ \ {w}]]
      BY <1>14 DEF QueueRoot
    <2> DEFINE r == [call[c] EXCEPT !.todo = @ \ {w}]
    <2>2. call[c] \in [op : {"queue"}, todo : SUBSET Items]
      BY <1>14, Shapes DEF CallInv, QueueRoot
    <2>3. r \in [op : {"queue"}, todo : SUBSET Items]
      BY <2>2
    <2>4. r \in Requests
      <3> HIDE DEF r
      <3> QED BY <2>3 DEF Requests
    <2>5. call' = [call EXCEPT ![c] = r]
      BY <2>1
    <2> HIDE DEF r
    <2> QED BY <2>4, <2>5, CallSet
  <1>15. ASSUME NEW c \in Callers, QueueStops(c) PROVE CallInv'
    BY <1>15, Shapes DEF CallInv, QueueStops, End
  <1>16. ASSUME NEW c \in Callers, ReadItem(c) PROVE CallInv'
    <2> DEFINE Refreshes == [op : {"refresh"}, on : Ids, read : InitiativeStatus \ {"none", "deleted"}, items : SUBSET Items,
                      unread : SUBSET Items, seen : SUBSET {"running", "blocked", "done", "failed", "other"}]
    <2>1. PICK w \in call[c].unread :
            call' = [call EXCEPT ![c] = [call[c] EXCEPT !.unread = @ \ {w}, !.seen = @ \cup {CountedAs(item[w])}]]
      BY <1>16 DEF ReadItem
    <2> DEFINE r == [call[c] EXCEPT !.unread = @ \ {w}, !.seen = @ \cup {CountedAs(item[w])}]
    <2>2. call[c] \in Refreshes
      BY <1>16, Shapes DEF CallInv, ReadItem
    <2>3. CountedAs(item[w]) \in {"running", "blocked", "done", "failed", "other"}
      BY DEF CountedAs
    <2>4. r \in Refreshes
      BY <2>2, <2>3
    <2>5. r \in Requests
      <3> HIDE DEF r
      <3> QED BY <2>4 DEF Requests
    <2>6. call' = [call EXCEPT ![c] = r]
      BY <2>1
    <2> HIDE DEF r
    <2> QED BY <2>5, <2>6, CallSet
  <1>17. ASSUME NEW c \in Callers, Refresh(c) PROVE CallInv'
    BY <1>17, Shapes DEF CallInv, Refresh, End, WriteStatus
  <1>18. ASSUME NEW c \in Callers, NEW w \in Items, ReadWork(c, w) PROVE CallInv'
    <2>1. PICK to \in {"queued", "accepted", "pending_execution", "cancelled"} :
            call' = [call EXCEPT ![c] = [op |-> "work", work |-> w, read |-> item[w], write |-> to]]
      BY <1>18 DEF ReadWork, Begin
    <2>2. item[w] \in WorkItemStatus
      BY <1>18 DEF RowInv, ReadWork
    <2>3. [op |-> "work", work |-> w, read |-> item[w], write |-> to] \in Requests
      BY <2>2 DEF Requests
    <2> QED BY <2>1, <2>3, CallSet
  <1>19. ASSUME NEW w \in Items, Start(w) PROVE CallInv'
    BY <1>19 DEF CallInv, Start
  <1>20. ASSUME NEW w \in Items, Finish(w) PROVE CallInv'
    BY <1>20 DEF CallInv, Finish
  <1>21. ASSUME NEW w \in Items, Follow(w) PROVE CallInv'
    BY <1>21 DEF CallInv, Follow
  <1>22. ASSUME NEW c \in Callers, WriteWork(c) PROVE CallInv'
    BY <1>22 DEF CallInv, WriteWork, End
  <1> QED
    BY <1>1, <1>2, <1>3, <1>4, <1>5, <1>6, <1>7, <1>8, <1>9, <1>10, <1>11, <1>12, <1>13, <1>14, <1>15, <1>16, <1>17, <1>18, <1>19, <1>20, <1>21, <1>22 DEF Next, Reads, Continues, Works

----------------------------------------------------------------------------
\* A step that moves items, or initiatives, that are there.
LEMMA ItemsMove ==
  ASSUME RowInv, status' = status, listed' = listed, promised' \in [Ids -> SUBSET Items],
         item' \in [Items -> WorkItemStatus \cup {"none"}],
         \A w \in Items : item[w] = "none" => item'[w] = "none"
  PROVE  RowInv'
  BY DEF RowInv

LEMMA InitiativesMove ==
  ASSUME RowInv, listed' \in [Ids -> SUBSET Items], promised' \in [Ids -> SUBSET Items], item' = item,
         status' \in [Ids -> InitiativeStatus],
         \A i \in Ids : status'[i] = "none" => status[i] = "none"
  PROVE  RowInv'
  BY DEF RowInv, Items

----------------------------------------------------------------------------
\* Types, and a work item has its initiative.
LEMMA StepRow == RowInv /\ CallInv /\ MadeInv /\ [Next]_vars => RowInv'
  <1> SUFFICES ASSUME RowInv, CallInv, MadeInv, [Next]_vars PROVE RowInv'
    OBVIOUS
  <1>1. CASE UNCHANGED vars
    BY <1>1 DEF RowInv, CallInv, Items, vars
  <1>2. CASE Restart
    <2>1. item' \in [Items -> WorkItemStatus \cup {"none"}]
      BY <1>2 DEF RowInv, Restart, WorkItemStatus
    <2>2. \A v \in Items : item[v] = "none" => item'[v] = "none"
      BY <1>2 DEF RowInv, Restart, Interrupted
    <2> QED BY <1>2, <2>1, <2>2, ItemsMove DEF RowInv, Restart
  <1>3. ASSUME NEW c \in Callers, ReadProposal(c) PROVE RowInv'
    BY <1>3 DEF RowInv, CallInv, Items, ReadProposal, Begin
  <1>4. ASSUME NEW c \in Callers, NEW i \in Ids, ReadInitiative(c, i) PROVE RowInv'
    BY <1>4 DEF RowInv, CallInv, Items, ReadInitiative, Begin
  <1>5. ASSUME NEW c \in Callers, NEW i \in Ids, ReadDraft(c, i) PROVE RowInv'
    BY <1>5 DEF RowInv, CallInv, Items, ReadDraft, Begin
  <1>6. ASSUME NEW c \in Callers, NEW i \in Ids, ReadApproval(c, i) PROVE RowInv'
    BY <1>6 DEF RowInv, CallInv, Items, ReadApproval, Begin
  <1>7. ASSUME NEW c \in Callers, NEW i \in Ids, BeginRefresh(c, i) PROVE RowInv'
    BY <1>7 DEF RowInv, CallInv, Items, BeginRefresh, Begin
  <1>8. ASSUME NEW c \in Callers, WriteProposal(c) PROVE RowInv'
    BY <1>8, Shapes DEF RowInv, CallInv, Items, WriteProposal, End
  <1>9. ASSUME NEW c \in Callers, Materialize(c) PROVE RowInv'
    <2>1. CASE UNCHANGED <<status, listed, item>>
      BY <1>9, <2>1 DEF RowInv, Materialize
    <2>2. ASSUME NEW i \in Ids,
                 status' = [status EXCEPT ![i] = "draft"],
                 listed' = [listed EXCEPT ![i] = {i} \X Drafts],
                 item' = [w \in Items |-> IF w[1] = i THEN "open" ELSE item[w]]
          PROVE  RowInv'
      <3>1. status' \in [Ids -> InitiativeStatus]
        BY <2>2 DEF RowInv, InitiativeStatus
      <3>2. listed' \in [Ids -> SUBSET Items]
        <4>1. {i} \X Drafts \subseteq Items
          BY DEF Items
        <4> QED BY <2>2, <4>1 DEF RowInv
      <3>3. item' \in [Items -> WorkItemStatus \cup {"none"}]
        BY <2>2 DEF RowInv, WorkItemStatus
      <3>4. promised' = promised
        BY <1>9 DEF Materialize
      <3>5. ASSUME NEW w \in Items, status'[w[1]] = "none" PROVE item'[w] = "none"
        <4>1. w[1] \in Ids
          BY DEF Items
        <4>2. w[1] # i /\ status[w[1]] = "none"
          BY <2>2, <3>5, <4>1 DEF RowInv
        <4> QED BY <2>2, <4>2 DEF RowInv
      <3> QED BY <3>1, <3>2, <3>3, <3>4, <3>5 DEF RowInv
    <2> QED BY <1>9, <2>1, <2>2 DEF Materialize
  <1>10. ASSUME NEW c \in Callers, WriteInitiative(c) PROVE RowInv'
    <2>1. status' \in [Ids -> InitiativeStatus]
      BY <1>10, Shapes, NextStatus DEF RowInv, CallInv, WriteInitiative, WriteStatus, InitiativeStatus
    <2>2. \A i \in Ids : status'[i] = "none" => status[i] = "none"
      BY <1>10, Shapes, NextStatus DEF RowInv, CallInv, WriteInitiative, WriteStatus
    <2>3. listed' \in [Ids -> SUBSET Items]
      BY <1>10 DEF RowInv, WriteInitiative
    <2> QED BY <1>10, <2>1, <2>2, <2>3, InitiativesMove DEF RowInv, WriteInitiative
  <1>11. ASSUME NEW c \in Callers, WriteItem(c) PROVE RowInv'
    BY <1>11, Shapes DEF RowInv, CallInv, Items, WriteItem, End
  <1>12. ASSUME NEW c \in Callers, Delete(c) PROVE RowInv'
    <2>1. status' \in [Ids -> InitiativeStatus]
      BY <1>12, Shapes, NextStatus DEF RowInv, CallInv, Delete, WriteStatus, InitiativeStatus
    <2>2. \A i \in Ids : status'[i] = "none" => status[i] = "none"
      BY <1>12, Shapes, NextStatus DEF RowInv, CallInv, Delete, WriteStatus
    <2>3. listed' \in [Ids -> SUBSET Items]
      BY <1>12 DEF RowInv, Delete
    <2> QED BY <1>12, <2>1, <2>2, <2>3, InitiativesMove DEF RowInv, Delete
  <1>13. ASSUME NEW c \in Callers, Approve(c) PROVE RowInv'
    <2>1. CASE status' = status
      <3>1. item' \in [Items -> WorkItemStatus \cup {"none"}]
        BY <1>13 DEF RowInv, Approve, WorkItemStatus
      <3>2. \A v \in Items : item[v] = "none" => item'[v] = "none"
        BY <1>13 DEF RowInv, Approve
      <3>3. promised' \in [Ids -> SUBSET Items]
        BY <1>13, Shapes DEF RowInv, CallInv, Approve
      <3> QED BY <1>13, <2>1, <3>1, <3>2, <3>3, ItemsMove DEF RowInv, Approve
    <2>2. CASE status' = [status EXCEPT ![call[c].on] = "executing"]
      <3>1. item' \in [Items -> WorkItemStatus \cup {"none"}]
        BY <1>13 DEF RowInv, Approve, WorkItemStatus
      <3>2. \A v \in Items : item[v] = "none" => item'[v] = "none"
        BY <1>13 DEF RowInv, Approve
      <3>3. promised' \in [Ids -> SUBSET Items]
        BY <1>13, Shapes DEF RowInv, CallInv, Approve
      <3>4. status' \in [Ids -> InitiativeStatus]
        BY <2>2 DEF RowInv, InitiativeStatus
      <3>5. \A i \in Ids : status'[i] = "none" => status[i] = "none"
        BY <2>2 DEF RowInv
      <3>6. listed' = listed
        BY <1>13 DEF Approve
      <3> QED BY <3>1, <3>2, <3>3, <3>4, <3>5, <3>6 DEF RowInv, Items
    <2> QED BY <1>13, <2>1, <2>2 DEF Approve
  <1>14. ASSUME NEW c \in Callers, QueueRoot(c) PROVE RowInv'
    <2>1. item' \in [Items -> WorkItemStatus \cup {"none"}]
      BY <1>14 DEF RowInv, QueueRoot, WorkItemStatus
    <2>2. \A v \in Items : item[v] = "none" => item'[v] = "none"
      BY <1>14 DEF RowInv, QueueRoot, Preparable
    <2> QED BY <1>14, <2>1, <2>2, ItemsMove DEF RowInv, QueueRoot
  <1>15. ASSUME NEW c \in Callers, QueueStops(c) PROVE RowInv'
    BY <1>15, Shapes DEF RowInv, CallInv, Items, QueueStops, End
  <1>16. ASSUME NEW c \in Callers, ReadItem(c) PROVE RowInv'
    BY <1>16, Shapes DEF RowInv, CallInv, Items, ReadItem, End
  <1>17. ASSUME NEW c \in Callers, Refresh(c) PROVE RowInv'
    <2> DEFINE next == Derived(call[c].read, call[c].seen)
    <2>1. call[c].on \in Ids /\ next \in InitiativeStatus \ {"none"}
      <3>1. call[c] \in Requests /\ call[c].op = "refresh"
        BY <1>17 DEF CallInv, Refresh
      <3>2. call[c].on \in Ids /\ call[c].read \in InitiativeStatus \ {"none"}
        BY <3>1, Shapes
      <3> QED BY <3>2, NextStatus
    <2>2. status' = status \/ status' = [status EXCEPT ![call[c].on] = IF @ = "deleted" THEN "deleted" ELSE next]
      BY <1>17 DEF Refresh, WriteStatus
    <2> HIDE DEF next
    <2>3. status' \in [Ids -> InitiativeStatus]
      BY <2>1, <2>2 DEF RowInv, InitiativeStatus
    <2>4. \A i \in Ids : status'[i] = "none" => status[i] = "none"
      BY <2>1, <2>2 DEF RowInv
    <2> QED BY <1>17, <2>3, <2>4, InitiativesMove DEF RowInv, Refresh
  <1>18. ASSUME NEW c \in Callers, NEW w \in Items, ReadWork(c, w) PROVE RowInv'
    BY <1>18 DEF RowInv, ReadWork
  <1>19. ASSUME NEW w \in Items, Start(w) PROVE RowInv'
    <2>1. item' \in [Items -> WorkItemStatus \cup {"none"}]
      BY <1>19 DEF RowInv, Start, WorkItemStatus
    <2>2. \A v \in Items : item[v] = "none" => item'[v] = "none"
      BY <1>19 DEF RowInv, Start, Runnable
    <2> QED BY <1>19, <2>1, <2>2, ItemsMove DEF RowInv, Start
  <1>20. ASSUME NEW w \in Items, Finish(w) PROVE RowInv'
    <2>1. item' \in [Items -> WorkItemStatus \cup {"none"}]
      BY <1>20 DEF RowInv, Finish, WorkItemStatus
    <2>2. \A v \in Items : item[v] = "none" => item'[v] = "none"
      BY <1>20 DEF RowInv, Finish, MadeInv, Made
    <2> QED BY <1>20, <2>1, <2>2, ItemsMove DEF RowInv, Finish
  <1>21. ASSUME NEW w \in Items, Follow(w) PROVE RowInv'
    <2>1. PICK d \in Items : item' = item \/ (item[d] \in Preparable /\ item' = [item EXCEPT ![d] = "queued"])
      BY <1>21 DEF Follow
    <2>2. item' \in [Items -> WorkItemStatus \cup {"none"}]
      BY <2>1 DEF RowInv, WorkItemStatus
    <2>3. \A v \in Items : item[v] = "none" => item'[v] = "none"
      BY <2>1 DEF RowInv, Preparable
    <2> QED BY <1>21, <2>2, <2>3, ItemsMove DEF RowInv, Follow
  <1>22. ASSUME NEW c \in Callers, WriteWork(c) PROVE RowInv'
    <2> DEFINE v == call[c].work  to == call[c].write
    <2>1. v \in Items /\ to \in WorkItemStatus /\ item[v] # "none"
      BY <1>22, Shapes DEF CallInv, MadeInv, Carried, Made, WriteWork, WorkItemStatus
    <2>2. item' = item \/ item' = [item EXCEPT ![v] = to]
      BY <1>22 DEF WriteWork
    <2>3. item' \in [Items -> WorkItemStatus \cup {"none"}]
      BY <2>1, <2>2 DEF RowInv
    <2>4. \A u \in Items : item[u] = "none" => item'[u] = "none"
      BY <2>1, <2>2 DEF RowInv
    <2> QED BY <1>22, <2>3, <2>4, ItemsMove DEF RowInv, WriteWork
  <1> QED
    BY <1>1, <1>2, <1>3, <1>4, <1>5, <1>6, <1>7, <1>8, <1>9, <1>10, <1>11, <1>12, <1>13, <1>14, <1>15, <1>16, <1>17, <1>18, <1>19, <1>20, <1>21, <1>22 DEF Next, Reads, Continues, Works

----------------------------------------------------------------------------
\* No item is ever unmade.
LEMMA StepGrows == RowInv /\ CallInv /\ MadeInv /\ [Next]_vars => Made \subseteq Made'
  <1> SUFFICES ASSUME RowInv, CallInv, MadeInv, [Next]_vars PROVE Made \subseteq Made'
    OBVIOUS
  <1>1. CASE UNCHANGED vars
    BY <1>1 DEF RowInv, Made, vars
  <1>2. CASE Restart
    BY <1>2 DEF RowInv, Made, Restart
  <1>3. ASSUME NEW c \in Callers, ReadProposal(c) PROVE Made \subseteq Made'
    BY <1>3 DEF RowInv, Made, ReadProposal, Begin
  <1>4. ASSUME NEW c \in Callers, NEW i \in Ids, ReadInitiative(c, i) PROVE Made \subseteq Made'
    BY <1>4 DEF RowInv, Made, ReadInitiative, Begin
  <1>5. ASSUME NEW c \in Callers, NEW i \in Ids, ReadDraft(c, i) PROVE Made \subseteq Made'
    BY <1>5 DEF RowInv, Made, ReadDraft, Begin
  <1>6. ASSUME NEW c \in Callers, NEW i \in Ids, ReadApproval(c, i) PROVE Made \subseteq Made'
    BY <1>6 DEF RowInv, Made, ReadApproval, Begin
  <1>7. ASSUME NEW c \in Callers, NEW i \in Ids, BeginRefresh(c, i) PROVE Made \subseteq Made'
    BY <1>7 DEF RowInv, Made, BeginRefresh, Begin
  <1>8. ASSUME NEW c \in Callers, WriteProposal(c) PROVE Made \subseteq Made'
    BY <1>8, Shapes DEF RowInv, Made, WriteProposal, End
  <1>9. ASSUME NEW c \in Callers, Materialize(c) PROVE Made \subseteq Made'
    BY <1>9, Shapes DEF RowInv, Made, Materialize, End
  <1>10. ASSUME NEW c \in Callers, WriteInitiative(c) PROVE Made \subseteq Made'
    BY <1>10, Shapes DEF RowInv, Made, WriteInitiative, End, WriteStatus
  <1>11. ASSUME NEW c \in Callers, WriteItem(c) PROVE Made \subseteq Made'
    BY <1>11, Shapes DEF RowInv, Made, WriteItem, End
  <1>12. ASSUME NEW c \in Callers, Delete(c) PROVE Made \subseteq Made'
    BY <1>12, Shapes DEF RowInv, Made, Delete, End
  <1>13. ASSUME NEW c \in Callers, Approve(c) PROVE Made \subseteq Made'
    BY <1>13, Shapes DEF RowInv, Made, Approve, End
  <1>14. ASSUME NEW c \in Callers, QueueRoot(c) PROVE Made \subseteq Made'
    BY <1>14, Shapes DEF RowInv, Made, QueueRoot, End
  <1>15. ASSUME NEW c \in Callers, QueueStops(c) PROVE Made \subseteq Made'
    BY <1>15, Shapes DEF RowInv, Made, QueueStops, End
  <1>16. ASSUME NEW c \in Callers, ReadItem(c) PROVE Made \subseteq Made'
    BY <1>16, Shapes DEF RowInv, Made, ReadItem, End
  <1>17. ASSUME NEW c \in Callers, Refresh(c) PROVE Made \subseteq Made'
    BY <1>17, Shapes DEF RowInv, Made, Refresh, End, WriteStatus
  <1>18. ASSUME NEW c \in Callers, NEW w \in Items, ReadWork(c, w) PROVE Made \subseteq Made'
    BY <1>18 DEF RowInv, Made, ReadWork
  <1>19. ASSUME NEW w \in Items, Start(w) PROVE Made \subseteq Made'
    BY <1>19 DEF RowInv, Made, Start
  <1>20. ASSUME NEW w \in Items, Finish(w) PROVE Made \subseteq Made'
    BY <1>20 DEF RowInv, Made, Finish
  <1>21. ASSUME NEW w \in Items, Follow(w) PROVE Made \subseteq Made'
    BY <1>21 DEF RowInv, Made, Follow
  <1>22. ASSUME NEW c \in Callers, WriteWork(c) PROVE Made \subseteq Made'
    <2> DEFINE v == call[c].work  to == call[c].write
    <2>1. v \in Items /\ to # "none"
      BY <1>22, Shapes DEF CallInv, WriteWork
    <2>2. item' = item \/ item' = [item EXCEPT ![v] = to]
      BY <1>22 DEF WriteWork
    <2> QED BY <2>1, <2>2 DEF RowInv, Made
  <1> QED
    BY <1>1, <1>2, <1>3, <1>4, <1>5, <1>6, <1>7, <1>8, <1>9, <1>10, <1>11, <1>12, <1>13, <1>14, <1>15, <1>16, <1>17, <1>18, <1>19, <1>20, <1>21, <1>22 DEF Next, Reads, Continues, Works

----------------------------------------------------------------------------
\* What is listed, promised or carried has been made.
LEMMA StepMade == RowInv /\ CallInv /\ MadeInv /\ Made \subseteq Made' /\ [Next]_vars => MadeInv'
  <1> SUFFICES ASSUME RowInv, CallInv, MadeInv, Made \subseteq Made', [Next]_vars PROVE MadeInv'
    OBVIOUS
  <1>1. CASE UNCHANGED vars
    BY <1>1 DEF MadeInv, RowInv, CallInv, Carried, vars
  <1>2. CASE Restart
    BY <1>2 DEF MadeInv, RowInv, CallInv, Carried, Restart
  <1>3. ASSUME NEW c \in Callers, ReadProposal(c) PROVE MadeInv'
    BY <1>3 DEF MadeInv, RowInv, CallInv, Carried, ReadProposal, Begin
  <1>4. ASSUME NEW c \in Callers, NEW i \in Ids, ReadInitiative(c, i) PROVE MadeInv'
    BY <1>4 DEF MadeInv, RowInv, CallInv, Carried, ReadInitiative, Begin
  <1>5. ASSUME NEW c \in Callers, NEW i \in Ids, ReadDraft(c, i) PROVE MadeInv'
    <2>1. \A b \in Callers : b # c => call'[b] = call[b]
      BY <1>5 DEF ReadDraft, Begin, CallInv
    <2>2. Carried(call[c])'
      <3>1. CASE call' = [call EXCEPT ![c] = [op |-> "delete", on |-> i]]
        BY <3>1 DEF Carried, CallInv
      <3>2. ASSUME NEW w \in Items, NEW op \in {"add", "remove"}, item[w] # "none",
                   call' = [call EXCEPT ![c] = [op |-> op, on |-> i, work |-> w]]
            PROVE  Carried(call[c])'
        <4>1. call'[c] = [op |-> op, on |-> i, work |-> w]
          BY <3>2 DEF CallInv
        <4>2. w \in Made'
          BY <3>2 DEF Made
        <4> QED BY <4>1, <4>2 DEF Carried
      <3> QED BY <1>5, <3>1, <3>2 DEF ReadDraft, Begin
    <2>3. \A b \in Callers : call'[b] # None => Carried(call[b])'
      BY <2>1, <2>2, Made \subseteq Made' DEF MadeInv, Carried
    <2> QED BY <1>5, <2>3, Made \subseteq Made' DEF MadeInv, ReadDraft
  <1>6. ASSUME NEW c \in Callers, NEW i \in Ids, ReadApproval(c, i) PROVE MadeInv'
    BY <1>6 DEF MadeInv, RowInv, CallInv, Carried, ReadApproval, Begin
  <1>7. ASSUME NEW c \in Callers, NEW i \in Ids, BeginRefresh(c, i) PROVE MadeInv'
    BY <1>7 DEF MadeInv, RowInv, CallInv, Carried, BeginRefresh, Begin
  <1>8. ASSUME NEW c \in Callers, WriteProposal(c) PROVE MadeInv'
    BY <1>8, Shapes DEF MadeInv, RowInv, CallInv, Carried, WriteProposal, End
  <1>9. ASSUME NEW c \in Callers, Materialize(c) PROVE MadeInv'
    <2>1. \A b \in Callers : call'[b] = call[b] \/ call'[b] = None
      BY <1>9 DEF Materialize, End, CallInv
    <2>2. \A b \in Callers : call'[b] # None => Carried(call[b])'
      BY <2>1, Made \subseteq Made' DEF MadeInv, Carried
    <2>3. promised' = promised /\ live' = live
      BY <1>9 DEF Materialize
    <2>4. \A j \in Ids : listed'[j] \subseteq Made'
      <3>1. CASE listed' = listed
        BY <3>1 DEF MadeInv
      <3>2. ASSUME NEW i \in Ids,
                   listed' = [listed EXCEPT ![i] = {i} \X Drafts],
                   item' = [w \in Items |-> IF w[1] = i THEN "open" ELSE item[w]]
            PROVE  \A j \in Ids : listed'[j] \subseteq Made'
        <4>1. {i} \X Drafts \subseteq Made'
          BY <3>2 DEF Made, Items
        <4> QED BY <3>2, <4>1 DEF MadeInv, RowInv
      <3> QED BY <1>9, <3>1, <3>2 DEF Materialize
    <2> QED BY <2>2, <2>3, <2>4, Made \subseteq Made' DEF MadeInv
  <1>10. ASSUME NEW c \in Callers, WriteInitiative(c) PROVE MadeInv'
    BY <1>10, Shapes DEF MadeInv, RowInv, CallInv, Carried, WriteInitiative, End, WriteStatus
  <1>11. ASSUME NEW c \in Callers, WriteItem(c) PROVE MadeInv'
    BY <1>11, Shapes DEF MadeInv, RowInv, CallInv, Carried, WriteItem, End
  <1>12. ASSUME NEW c \in Callers, Delete(c) PROVE MadeInv'
    BY <1>12, Shapes DEF MadeInv, RowInv, CallInv, Carried, Delete, End
  <1>13. ASSUME NEW c \in Callers, Approve(c) PROVE MadeInv'
    <2>1. listed' = listed /\ live' = live
      BY <1>13 DEF Approve
    <2>2. call[c].items \subseteq Made
      BY <1>13 DEF Approve, MadeInv, Carried
    <2>3. \A i \in Ids : promised'[i] = promised[i] \/ promised'[i] = call[c].items
      BY <1>13 DEF Approve, RowInv
    <2>4. \A b \in Callers : call'[b] = call[b] \/ call'[b] = None \/ call'[b].op = "queue"
      BY <1>13 DEF Approve, End, CallInv
    <2>5. \A b \in Callers : call'[b] # None => Carried(call[b])'
      BY <2>4 DEF MadeInv, Carried
    <2> QED BY <2>1, <2>2, <2>3, <2>5 DEF MadeInv
  <1>14. ASSUME NEW c \in Callers, QueueRoot(c) PROVE MadeInv'
    BY <1>14, Shapes DEF MadeInv, RowInv, CallInv, Carried, QueueRoot, End
  <1>15. ASSUME NEW c \in Callers, QueueStops(c) PROVE MadeInv'
    BY <1>15, Shapes DEF MadeInv, RowInv, CallInv, Carried, QueueStops, End
  <1>16. ASSUME NEW c \in Callers, ReadItem(c) PROVE MadeInv'
    BY <1>16, Shapes DEF MadeInv, RowInv, CallInv, Carried, ReadItem, End
  <1>17. ASSUME NEW c \in Callers, Refresh(c) PROVE MadeInv'
    BY <1>17, Shapes DEF MadeInv, RowInv, CallInv, Carried, Refresh, End, WriteStatus
  <1>18. ASSUME NEW c \in Callers, NEW w \in Items, ReadWork(c, w) PROVE MadeInv'
    <2>1. PICK to : call' = [call EXCEPT ![c] = [op |-> "work", work |-> w, read |-> item[w], write |-> to]]
      BY <1>18 DEF ReadWork, Begin
    <2>2. w \in Made'
      BY <1>18 DEF ReadWork, Made
    <2>3. \A b \in Callers : call'[b] # None => Carried(call[b])'
      BY <2>1, <2>2, Made \subseteq Made' DEF MadeInv, Carried, CallInv
    <2> QED BY <1>18, <2>3, Made \subseteq Made' DEF MadeInv, ReadWork
  <1>19. ASSUME NEW w \in Items, Start(w) PROVE MadeInv'
    <2>1. live' \subseteq Made'
      BY <1>19, Made \subseteq Made' DEF MadeInv, RowInv, Made, Start, Runnable
    <2> QED BY <1>19, <2>1 DEF MadeInv, RowInv, CallInv, Carried, Start
  <1>20. ASSUME NEW w \in Items, Finish(w) PROVE MadeInv'
    BY <1>20 DEF MadeInv, RowInv, CallInv, Carried, Finish
  <1>21. ASSUME NEW w \in Items, Follow(w) PROVE MadeInv'
    BY <1>21 DEF MadeInv, RowInv, CallInv, Carried, Follow
  <1>22. ASSUME NEW c \in Callers, WriteWork(c) PROVE MadeInv'
    BY <1>22, Shapes DEF MadeInv, RowInv, CallInv, Carried, WriteWork, End
  <1> QED
    BY <1>1, <1>2, <1>3, <1>4, <1>5, <1>6, <1>7, <1>8, <1>9, <1>10, <1>11, <1>12, <1>13, <1>14, <1>15, <1>16, <1>17, <1>18, <1>19, <1>20, <1>21, <1>22 DEF Next, Reads, Continues, Works

----------------------------------------------------------------------------
\* A step that leaves the requests that queue roots as they are, and opens nothing
\* an approval has found.
LEMMA Keeps ==
  ASSUME NothingLeftBehind, promised' = promised, dropped \subseteq dropped',
         \A i \in Ids : \A w \in promised[i] : item'[w] = "open" => item[w] = "open",
         \A c \in Callers : call[c] # None /\ call[c].op = "queue" => call'[c] = call[c]
  PROVE  NothingLeftBehind'
  BY DEF NothingLeftBehind

----------------------------------------------------------------------------
\* Every step leaves nothing behind.
LEMMA StepNothingLeft == RowInv /\ CallInv /\ MadeInv /\ NothingLeftBehind /\ [Next]_vars => NothingLeftBehind'
  <1> SUFFICES ASSUME RowInv, CallInv, MadeInv, NothingLeftBehind, [Next]_vars PROVE NothingLeftBehind'
    OBVIOUS
  <1>1. CASE UNCHANGED vars
    BY <1>1, Keeps DEF vars
  <1>2. CASE Restart
    <2> SUFFICES ASSUME NEW i \in Ids, NEW w \in promised'[i], item'[w] = "open" PROVE w \in dropped'
      BY DEF NothingLeftBehind
    <2>1. promised' = promised /\ w \in Items
      BY <1>2 DEF Restart, RowInv
    <2>2. item[w] = "open"
      BY <1>2, <2>1 DEF Restart, Interrupted
    <2>3. w \in dropped \/ \E c \in Callers : call[c] # None /\ call[c].op = "queue" /\ w \in call[c].todo
      BY <2>1, <2>2 DEF NothingLeftBehind
    <2> QED BY <1>2, <2>1, <2>3 DEF Restart
  <1>3. ASSUME NEW c \in Callers, ReadProposal(c) PROVE NothingLeftBehind'
    BY <1>3, Keeps DEF RowInv, CallInv, ReadProposal, Begin
  <1>4. ASSUME NEW c \in Callers, NEW i \in Ids, ReadInitiative(c, i) PROVE NothingLeftBehind'
    BY <1>4, Keeps DEF RowInv, CallInv, ReadInitiative, Begin
  <1>5. ASSUME NEW c \in Callers, NEW i \in Ids, ReadDraft(c, i) PROVE NothingLeftBehind'
    BY <1>5, Keeps DEF RowInv, CallInv, ReadDraft, Begin
  <1>6. ASSUME NEW c \in Callers, NEW i \in Ids, ReadApproval(c, i) PROVE NothingLeftBehind'
    BY <1>6, Keeps DEF RowInv, CallInv, ReadApproval, Begin
  <1>7. ASSUME NEW c \in Callers, NEW i \in Ids, BeginRefresh(c, i) PROVE NothingLeftBehind'
    BY <1>7, Keeps DEF RowInv, CallInv, BeginRefresh, Begin
  <1>8. ASSUME NEW c \in Callers, WriteProposal(c) PROVE NothingLeftBehind'
    BY <1>8, Keeps DEF RowInv, CallInv, WriteProposal, End
  <1>9. ASSUME NEW c \in Callers, Materialize(c) PROVE NothingLeftBehind'
    <2>1. ASSUME NEW i \in Ids, NEW w \in promised[i], item'[w] = "open" PROVE item[w] = "open"
      <3>1. w \in Items /\ item[w] # "none" /\ w[1] \in Ids
        BY DEF MadeInv, Made, RowInv, Items
      <3>2. CASE item' = item
        BY <2>1, <3>2
      <3>3. ASSUME NEW j \in Ids, status[j] = "none",
                   item' = [v \in Items |-> IF v[1] = j THEN "open" ELSE item[v]]
            PROVE  item[w] = "open"
        <4>1. w[1] # j
          BY <3>1, <3>3 DEF RowInv
        <4> QED BY <2>1, <3>1, <3>3, <4>1
      <3> QED BY <1>9, <3>2, <3>3 DEF Materialize
    <2> QED BY <1>9, <2>1, Keeps DEF CallInv, Materialize, End
  <1>10. ASSUME NEW c \in Callers, WriteInitiative(c) PROVE NothingLeftBehind'
    BY <1>10, Keeps DEF RowInv, CallInv, WriteInitiative, End
  <1>11. ASSUME NEW c \in Callers, WriteItem(c) PROVE NothingLeftBehind'
    BY <1>11, Keeps DEF RowInv, CallInv, WriteItem, End
  <1>12. ASSUME NEW c \in Callers, Delete(c) PROVE NothingLeftBehind'
    BY <1>12, Keeps DEF RowInv, CallInv, Delete, End
  <1>13. ASSUME NEW c \in Callers, Approve(c) PROVE NothingLeftBehind'
    <2>1. CASE status[call[c].on] = "deleted"
      BY <1>13, <2>1, Keeps DEF CallInv, Approve, End
    <2> DEFINE on == call[c].on
               found == call[c].items
               todo == {w \in Roots(found) : item[w] \in {"open", "accepted"}}
               new == [op |-> "queue", todo |-> todo]
    <2>2. CASE status[on] # "deleted"
      <3>0. on \in Ids /\ found \in SUBSET Items
        BY <1>13, Shapes DEF Approve, CallInv
      <3>1. /\ promised' = [promised EXCEPT ![on] = found]
            /\ item' = [w \in Items |-> IF w \in found \ Roots(found) /\ item[w] = "open" THEN "accepted" ELSE item[w]]
            /\ call' = [call EXCEPT ![c] = new]
            /\ dropped' = dropped
        BY <1>13, <2>2 DEF Approve
      <3>2. new \in Requests
        BY <3>0 DEF Requests, Roots
      <3>3. call'[c] # None /\ call'[c].op = "queue" /\ call'[c].todo = todo
        BY <3>1, <3>2 DEF CallInv
      <3>4. SUFFICES ASSUME NEW i \in Ids, NEW w \in promised'[i], item'[w] = "open"
                     PROVE  w \in dropped' \/ \E b \in Callers : call'[b] # None /\ call'[b].op = "queue" /\ w \in call'[b].todo
        BY DEF NothingLeftBehind
      <3>5. w \in Items
        BY <3>0, <3>1 DEF RowInv
      <3>6. item[w] = "open"
        BY <3>1, <3>4, <3>5
      <3>7. CASE i = on
        <4>1. w \in found
          BY <3>0, <3>1, <3>7 DEF RowInv
        <4>2. w \in Roots(found)
          BY <3>1, <3>4, <3>5, <3>6, <4>1
        <4> QED BY <3>3, <3>6, <4>2
      <3>8. CASE i # on
        <4>1. w \in promised[i]
          BY <3>0, <3>1, <3>8 DEF RowInv
        <4>2. w \in dropped \/ \E b \in Callers : call[b] # None /\ call[b].op = "queue" /\ w \in call[b].todo
          BY <3>6, <4>1 DEF NothingLeftBehind
        <4>3. \A b \in Callers : call[b].op = "queue" => call'[b] = call[b]
          BY <1>13, <3>1 DEF Approve, CallInv
        <4> QED BY <3>1, <4>2, <4>3
      <3> QED BY <3>7, <3>8
    <2> QED BY <2>1, <2>2
  <1>14. ASSUME NEW c \in Callers, QueueRoot(c) PROVE NothingLeftBehind'
    <2>1. PICK v \in call[c].todo :
            /\ item' = [item EXCEPT ![v] = "queued"]
            /\ call' = [call EXCEPT ![c] = [call[c] EXCEPT !.todo = @ \ {v}]]
      BY <1>14 DEF QueueRoot
    <2>2. call[c] \in [op : {"queue"}, todo : SUBSET Items]
      BY <1>14, Shapes DEF CallInv, QueueRoot
    <2> DEFINE r == [call[c] EXCEPT !.todo = @ \ {v}]
    <2>3. r \in [op : {"queue"}, todo : SUBSET Items] /\ r.op = "queue" /\ r.todo = call[c].todo \ {v}
      BY <2>2
    <2>9. call' = [call EXCEPT ![c] = r]
      BY <2>1
    <2>4. call'[c] # None /\ call'[c].op = "queue" /\ call'[c].todo = call[c].todo \ {v}
      <3> HIDE DEF r
      <3>1. r \in Requests
        BY <2>3 DEF Requests
      <3>2. call'[c] = r
        BY <2>9 DEF CallInv
      <3> QED BY <2>3, <3>1, <3>2
    <2>5. SUFFICES ASSUME NEW i \in Ids, NEW w \in promised[i], item'[w] = "open"
                   PROVE  w \in dropped \/ \E b \in Callers : call'[b] # None /\ call'[b].op = "queue" /\ w \in call'[b].todo
      BY <1>14 DEF NothingLeftBehind, QueueRoot
    <2>6. w # v /\ item[w] = "open"
      BY <2>1, <2>2, <2>5 DEF RowInv
    <2>7. w \in dropped \/ \E b \in Callers : call[b] # None /\ call[b].op = "queue" /\ w \in call[b].todo
      BY <2>6 DEF NothingLeftBehind
    <2>8. \A b \in Callers : b # c => call'[b] = call[b]
      BY <2>9 DEF CallInv
    <2> QED BY <2>4, <2>6, <2>7, <2>8
  <1>15. ASSUME NEW c \in Callers, QueueStops(c) PROVE NothingLeftBehind'
    <2>1. promised' = promised /\ item' = item /\ dropped' = dropped \cup call[c].todo
      BY <1>15 DEF QueueStops
    <2>2. \A b \in Callers : b # c => call'[b] = call[b]
      BY <1>15 DEF QueueStops, End, CallInv
    <2> QED BY <2>1, <2>2 DEF NothingLeftBehind
  <1>16. ASSUME NEW c \in Callers, ReadItem(c) PROVE NothingLeftBehind'
    BY <1>16, Keeps DEF RowInv, CallInv, ReadItem, End
  <1>17. ASSUME NEW c \in Callers, Refresh(c) PROVE NothingLeftBehind'
    BY <1>17, Keeps DEF RowInv, CallInv, Refresh, End
  <1>18. ASSUME NEW c \in Callers, NEW w \in Items, ReadWork(c, w) PROVE NothingLeftBehind'
    BY <1>18, Keeps DEF RowInv, CallInv, ReadWork, Begin
  <1>19. ASSUME NEW w \in Items, Start(w) PROVE NothingLeftBehind'
    BY <1>19, Keeps DEF RowInv, MadeInv, Start
  <1>20. ASSUME NEW w \in Items, Finish(w) PROVE NothingLeftBehind'
    BY <1>20, Keeps DEF RowInv, MadeInv, Finish
  <1>21. ASSUME NEW w \in Items, Follow(w) PROVE NothingLeftBehind'
    <2>1. PICK d \in Items : item' = item \/ item' = [item EXCEPT ![d] = "queued"]
      BY <1>21 DEF Follow
    <2>2. \A i \in Ids : \A v \in promised[i] : item'[v] = "open" => item[v] = "open"
      BY <2>1 DEF RowInv
    <2> QED BY <1>21, <2>2, Keeps DEF Follow
  <1>22. ASSUME NEW c \in Callers, WriteWork(c) PROVE NothingLeftBehind'
    <2> DEFINE v == call[c].work  to == call[c].write
    <2>1. v \in Items /\ to # "open"
      BY <1>22, Shapes DEF CallInv, WriteWork
    <2>2. item' = item \/ item' = [item EXCEPT ![v] = to]
      BY <1>22 DEF WriteWork
    <2> HIDE DEF v, to
    <2>3. \A i \in Ids : \A w \in promised[i] : item'[w] = "open" => item[w] = "open"
      BY <2>1, <2>2 DEF RowInv
    <2> QED BY <1>22, <2>3, Keeps DEF CallInv, WriteWork, End
  <1> QED
    BY <1>1, <1>2, <1>3, <1>4, <1>5, <1>6, <1>7, <1>8, <1>9, <1>10, <1>11, <1>12, <1>13, <1>14, <1>15, <1>16, <1>17, <1>18, <1>19, <1>20, <1>21, <1>22 DEF Next, Reads, Continues, Works

----------------------------------------------------------------------------
\* Types, and what is listed, promised or carried has been made.
LEMMA MadeInvariant == Spec => [](RowInv /\ CallInv /\ MadeInv)
  <1>1. ASSUME Init PROVE RowInv /\ CallInv /\ MadeInv
    <2>1. RowInv
      <3>1. {1} \X Drafts \subseteq Items /\ status \in [Ids -> InitiativeStatus]
        BY <1>1 DEF Init, Items, InitiativeStatus
      <3>2. item \in [Items -> WorkItemStatus \cup {"none"}]
        BY <1>1 DEF Init, WorkItemStatus
      <3>3. listed \in [Ids -> SUBSET Items] /\ promised \in [Ids -> SUBSET Items]
        BY <1>1, <3>1 DEF Init
      <3>4. \A w \in Items : status[w[1]] = "none" => item[w] = "none"
        BY <1>1 DEF Init, Items
      <3> QED BY <3>1, <3>2, <3>3, <3>4 DEF RowInv
    <2>2. \A i \in Ids : listed[i] \subseteq Made
      BY <1>1 DEF Init, Made, Items
    <2> QED BY <1>1, <2>1, <2>2 DEF Init, CallInv, MadeInv
  <1>2. RowInv /\ CallInv /\ MadeInv /\ [Next]_vars => (RowInv /\ CallInv /\ MadeInv)'
    BY StepRow, StepCall, StepGrows, StepMade
  <1> QED BY <1>1, <1>2, PTL DEF Spec

\* Whatever requests overwrite each other, an item that the approval of its
\* initiative found open is held, queued, or in the hands of the approval, unless an
\* error or a restart took it from there.
THEOREM NothingLeftBehindCorrect == Spec => []NothingLeftBehind
  <1>1. Init => NothingLeftBehind
    BY DEF Init, NothingLeftBehind
  <1>2. RowInv /\ CallInv /\ MadeInv /\ NothingLeftBehind /\ [Next]_vars => NothingLeftBehind'
    BY StepNothingLeft
  <1> QED BY <1>1, <1>2, MadeInvariant, PTL DEF Spec

----------------------------------------------------------------------------
\* What is completed has been; what has been and is not any more was overwritten; and
\* no item that runs is completed.
EverInv ==
  /\ everCompleted \subseteq Items
  /\ \A w \in Items : item[w] = "completed" => w \in everCompleted
  /\ \A w \in everCompleted : item[w] = "completed" \/ w \in overwritten
  /\ \A w \in live : item[w] # "completed"

\* A step that completes nothing and takes nothing out of completed.
LEMMA EverKeeps ==
  ASSUME EverInv, everCompleted' = everCompleted, overwritten \subseteq overwritten', live' \subseteq live,
         \A w \in Items : item'[w] = "completed" <=> item[w] = "completed", live \subseteq Items
  PROVE  EverInv'
  BY DEF EverInv

LEMMA StepEver == RowInv /\ CallInv /\ MadeInv /\ EverInv /\ [Next]_vars => EverInv' /\ everCompleted \subseteq everCompleted'
  <1> SUFFICES ASSUME RowInv, CallInv, MadeInv, EverInv, [Next]_vars PROVE EverInv' /\ everCompleted \subseteq everCompleted'
    OBVIOUS
  <1> DEFINE Goal == EverInv' /\ everCompleted \subseteq everCompleted'
  <1>0. live \subseteq Items
    BY DEF MadeInv, Made
  <1>1. CASE UNCHANGED vars
    BY <1>0, <1>1, EverKeeps DEF vars
  <1>2. CASE Restart
    <2>1. \A w \in Items : item'[w] = "completed" <=> item[w] = "completed"
      BY <1>2 DEF Restart, Interrupted
    <2> QED BY <1>0, <1>2, <2>1, EverKeeps DEF Restart
  <1>3. ASSUME NEW c \in Callers, ReadProposal(c) PROVE Goal
    BY <1>0, <1>3, EverKeeps DEF ReadProposal
  <1>4. ASSUME NEW c \in Callers, NEW i \in Ids, ReadInitiative(c, i) PROVE Goal
    BY <1>0, <1>4, EverKeeps DEF ReadInitiative
  <1>5. ASSUME NEW c \in Callers, NEW i \in Ids, ReadDraft(c, i) PROVE Goal
    BY <1>0, <1>5, EverKeeps DEF ReadDraft
  <1>6. ASSUME NEW c \in Callers, NEW i \in Ids, ReadApproval(c, i) PROVE Goal
    BY <1>0, <1>6, EverKeeps DEF ReadApproval
  <1>7. ASSUME NEW c \in Callers, NEW i \in Ids, BeginRefresh(c, i) PROVE Goal
    BY <1>0, <1>7, EverKeeps DEF BeginRefresh
  <1>8. ASSUME NEW c \in Callers, WriteProposal(c) PROVE Goal
    BY <1>0, <1>8, EverKeeps DEF WriteProposal
  <1>9. ASSUME NEW c \in Callers, Materialize(c) PROVE Goal
    <2>1. ASSUME NEW v \in Items PROVE item'[v] = "completed" <=> item[v] = "completed"
      <3>1. CASE item' = item
        BY <3>1
      <3>2. ASSUME NEW i \in Ids, status[i] = "none",
                   item' = [w \in Items |-> IF w[1] = i THEN "open" ELSE item[w]]
            PROVE  item'[v] = "completed" <=> item[v] = "completed"
        BY <3>2 DEF RowInv
      <3> QED BY <1>9, <3>1, <3>2 DEF Materialize
    <2> QED BY <1>0, <1>9, <2>1, EverKeeps DEF Materialize
  <1>10. ASSUME NEW c \in Callers, WriteInitiative(c) PROVE Goal
    BY <1>0, <1>10, EverKeeps DEF WriteInitiative
  <1>11. ASSUME NEW c \in Callers, WriteItem(c) PROVE Goal
    BY <1>0, <1>11, EverKeeps DEF WriteItem
  <1>12. ASSUME NEW c \in Callers, Delete(c) PROVE Goal
    BY <1>0, <1>12, EverKeeps DEF Delete
  <1>13. ASSUME NEW c \in Callers, Approve(c) PROVE Goal
    <2>1. \A v \in Items : item'[v] = "completed" <=> item[v] = "completed"
      BY <1>13 DEF Approve, RowInv
    <2> QED BY <1>0, <1>13, <2>1, EverKeeps DEF Approve
  <1>14. ASSUME NEW c \in Callers, QueueRoot(c) PROVE Goal
    <2>1. \A v \in Items : item'[v] = "completed" <=> item[v] = "completed"
      BY <1>14 DEF QueueRoot, RowInv, Preparable
    <2> QED BY <1>0, <1>14, <2>1, EverKeeps DEF QueueRoot
  <1>15. ASSUME NEW c \in Callers, QueueStops(c) PROVE Goal
    BY <1>0, <1>15, EverKeeps DEF QueueStops
  <1>16. ASSUME NEW c \in Callers, ReadItem(c) PROVE Goal
    BY <1>0, <1>16, EverKeeps DEF ReadItem
  <1>17. ASSUME NEW c \in Callers, Refresh(c) PROVE Goal
    BY <1>0, <1>17, EverKeeps DEF Refresh
  <1>18. ASSUME NEW c \in Callers, NEW w \in Items, ReadWork(c, w) PROVE Goal
    BY <1>0, <1>18, EverKeeps DEF ReadWork
  <1>19. ASSUME NEW w \in Items, Start(w) PROVE Goal
    <2>1. \A v \in Items : item'[v] = "completed" <=> item[v] = "completed"
      BY <1>19 DEF Start, RowInv, Runnable
    <2>2. \A v \in live' : item'[v] # "completed"
      BY <1>0, <1>19, <2>1 DEF Start, EverInv, RowInv, Runnable
    <2> QED BY <1>19, <2>1, <2>2 DEF Start, EverInv
  <1>20. ASSUME NEW w \in Items, Finish(w) PROVE Goal
    <2>1. PICK s \in {"completed", "needs_rework", "escalated", "cancelled"} :
            /\ item' = [item EXCEPT ![w] = s]
            /\ everCompleted' = IF s = "completed" THEN everCompleted \cup {w} ELSE everCompleted
      BY <1>20 DEF Finish
    <2>2. w \in live /\ live' = live \ {w} /\ overwritten' = overwritten
      BY <1>20 DEF Finish
    <2>3. w \in everCompleted => w \in overwritten
      BY <2>2 DEF EverInv
    <2> QED BY <1>0, <2>1, <2>2, <2>3 DEF EverInv, RowInv
  <1>21. ASSUME NEW w \in Items, Follow(w) PROVE Goal
    <2>1. PICK d \in Items : item' = item \/ (item[d] \in Preparable /\ item' = [item EXCEPT ![d] = "queued"])
      BY <1>21 DEF Follow
    <2>2. \A v \in Items : item'[v] = "completed" <=> item[v] = "completed"
      BY <2>1 DEF RowInv, Preparable
    <2> QED BY <1>0, <1>21, <2>2, EverKeeps DEF Follow
  <1>22. ASSUME NEW c \in Callers, WriteWork(c) PROVE Goal
    <2> DEFINE v == call[c].work  to == call[c].write
    <2>1. v \in Items /\ to # "completed"
      BY <1>22, Shapes DEF CallInv, WriteWork
    <2>2. everCompleted' = everCompleted /\ live' = live /\ overwritten \subseteq overwritten'
      BY <1>22 DEF WriteWork
    <2>3. \/ item' = item
          \/ item' = [item EXCEPT ![v] = to] /\ (item[v] = "completed" => v \in overwritten')
      BY <1>22 DEF WriteWork, Preparable
    <2> HIDE DEF v, to
    <2> QED BY <1>0, <2>1, <2>2, <2>3 DEF EverInv, RowInv
  <1> QED
    BY <1>1, <1>2, <1>3, <1>4, <1>5, <1>6, <1>7, <1>8, <1>9, <1>10, <1>11, <1>12, <1>13, <1>14, <1>15, <1>16, <1>17, <1>18, <1>19, <1>20, <1>21, <1>22 DEF Next, Reads, Continues, Works

----------------------------------------------------------------------------
\* What a refresh that has seen nothing but completed items has read has been
\* completed.
ReadSoFar(r) ==
  r.op = "refresh" =>
    /\ r.unread \subseteq r.items
    /\ r.seen # {} => r.items # {}
    /\ r.seen \subseteq {"done"} => r.items \ r.unread \subseteq everCompleted

ReadInv == \A c \in Callers : call[c] # None => ReadSoFar(call[c])

\* A step that leaves every refresh as it is.
LEMMA ReadKeeps ==
  ASSUME CallInv, ReadInv, everCompleted \subseteq everCompleted',
         \A c \in Callers : call'[c] = call[c] \/ call'[c] = None \/ call'[c].op # "refresh"
  PROVE  ReadInv'
  <1> SUFFICES ASSUME NEW c \in Callers, call'[c] # None, call'[c].op = "refresh" PROVE ReadSoFar(call[c])'
    BY DEF ReadInv, ReadSoFar
  <1>1. call'[c] = call[c] /\ call[c] \in Requests
    BY DEF CallInv
  <1>2. ReadSoFar(call[c])
    BY <1>1 DEF ReadInv
  <1> QED BY <1>1, <1>2 DEF ReadSoFar

\* Every step keeps it.
LEMMA StepRead == RowInv /\ CallInv /\ MadeInv /\ EverInv /\ ReadInv /\ [Next]_vars => ReadInv'
  <1> SUFFICES ASSUME RowInv, CallInv, MadeInv, EverInv, ReadInv, [Next]_vars PROVE ReadInv'
    OBVIOUS
  <1>0. everCompleted \subseteq everCompleted'
    BY StepEver
  <1>1. CASE UNCHANGED vars
    BY <1>0, <1>1, ReadKeeps DEF vars
  <1>2. CASE Restart
    BY <1>0, <1>2, ReadKeeps DEF CallInv, Restart
  <1>3. ASSUME NEW c \in Callers, ReadProposal(c) PROVE ReadInv'
    BY <1>0, <1>3, ReadKeeps DEF CallInv, ReadProposal, Begin
  <1>4. ASSUME NEW c \in Callers, NEW i \in Ids, ReadInitiative(c, i) PROVE ReadInv'
    BY <1>0, <1>4, ReadKeeps DEF CallInv, ReadInitiative, Begin
  <1>5. ASSUME NEW c \in Callers, NEW i \in Ids, ReadDraft(c, i) PROVE ReadInv'
    BY <1>0, <1>5, ReadKeeps DEF CallInv, ReadDraft, Begin
  <1>6. ASSUME NEW c \in Callers, NEW i \in Ids, ReadApproval(c, i) PROVE ReadInv'
    BY <1>0, <1>6, ReadKeeps DEF CallInv, ReadApproval, Begin
  <1>7. ASSUME NEW c \in Callers, NEW i \in Ids, BeginRefresh(c, i) PROVE ReadInv'
    <2> DEFINE r == [op |-> "refresh", on |-> i, read |-> status[i], items |-> listed[i],
                     unread |-> listed[i], seen |-> {}]
    <2>1. /\ call'[c] = r /\ \A b \in Callers : b # c => call'[b] = call[b]
          /\ everCompleted' = everCompleted
      BY <1>7 DEF BeginRefresh, Begin, CallInv
    <2>2. ReadSoFar(call[c])'
      BY <2>1 DEF ReadSoFar
    <2>3. \A b \in Callers : b # c /\ call'[b] # None => ReadSoFar(call[b])'
      BY <2>1 DEF ReadInv, ReadSoFar
    <2> QED BY <2>2, <2>3 DEF ReadInv
  <1>8. ASSUME NEW c \in Callers, WriteProposal(c) PROVE ReadInv'
    BY <1>0, <1>8, ReadKeeps DEF CallInv, WriteProposal, End
  <1>9. ASSUME NEW c \in Callers, Materialize(c) PROVE ReadInv'
    BY <1>0, <1>9, ReadKeeps DEF CallInv, Materialize, End
  <1>10. ASSUME NEW c \in Callers, WriteInitiative(c) PROVE ReadInv'
    BY <1>0, <1>10, ReadKeeps DEF CallInv, WriteInitiative, End
  <1>11. ASSUME NEW c \in Callers, WriteItem(c) PROVE ReadInv'
    BY <1>0, <1>11, ReadKeeps DEF CallInv, WriteItem, End
  <1>12. ASSUME NEW c \in Callers, Delete(c) PROVE ReadInv'
    BY <1>0, <1>12, ReadKeeps DEF CallInv, Delete, End
  <1>13. ASSUME NEW c \in Callers, Approve(c) PROVE ReadInv'
    BY <1>0, <1>13, ReadKeeps DEF CallInv, Approve, End
  <1>14. ASSUME NEW c \in Callers, QueueRoot(c) PROVE ReadInv'
    <2>1. PICK w \in call[c].todo : call' = [call EXCEPT ![c] = [call[c] EXCEPT !.todo = @ \ {w}]]
      BY <1>14 DEF QueueRoot
    <2>2. call[c] \in [op : {"queue"}, todo : SUBSET Items]
      BY <1>14, Shapes DEF CallInv, QueueRoot
    <2>3. [call[c] EXCEPT !.todo = @ \ {w}].op = "queue"
      BY <2>2
    <2>4. \A b \in Callers : call'[b] = call[b] \/ call'[b].op = "queue"
      BY <2>1, <2>3 DEF CallInv
    <2> QED BY <1>0, <2>4, ReadKeeps
  <1>15. ASSUME NEW c \in Callers, QueueStops(c) PROVE ReadInv'
    BY <1>0, <1>15, ReadKeeps DEF CallInv, QueueStops, End
  <1>16. ASSUME NEW c \in Callers, ReadItem(c) PROVE ReadInv'
    <2>1. PICK w \in call[c].unread :
            call' = [call EXCEPT ![c] = [call[c] EXCEPT !.unread = @ \ {w}, !.seen = @ \cup {CountedAs(item[w])}]]
      BY <1>16 DEF ReadItem
    <2>2. /\ everCompleted' = everCompleted /\ ReadSoFar(call[c]) /\ call[c].op = "refresh"
          /\ call[c] \in [op : {"refresh"}, on : Ids, read : InitiativeStatus \ {"none", "deleted"}, items : SUBSET Items,
                          unread : SUBSET Items, seen : SUBSET {"running", "blocked", "done", "failed", "other"}]
      BY <1>16, Shapes DEF CallInv, ReadInv, ReadItem
    <2> DEFINE r == [call[c] EXCEPT !.unread = @ \ {w}, !.seen = @ \cup {CountedAs(item[w])}]
    <2>3. /\ r.op = "refresh" /\ r.items = call[c].items /\ r.unread = call[c].unread \ {w}
          /\ r.seen = call[c].seen \cup {CountedAs(item[w])}
      BY <2>2
    <2>4. call'[c] = r /\ \A b \in Callers : b # c => call'[b] = call[b]
      BY <2>1 DEF CallInv
    <2> HIDE DEF r
    <2>5. CountedAs(item[w]) = "done" => w \in everCompleted
      BY <2>1, <2>2 DEF CountedAs, EverInv, ReadSoFar
    <2>6. ReadSoFar(call[c])'
      BY <2>2, <2>3, <2>4, <2>5 DEF ReadSoFar
    <2>7. \A b \in Callers : b # c /\ call'[b] # None => ReadSoFar(call[b])'
      BY <2>2, <2>4 DEF ReadInv, ReadSoFar
    <2> QED BY <2>6, <2>7 DEF ReadInv
  <1>17. ASSUME NEW c \in Callers, Refresh(c) PROVE ReadInv'
    BY <1>0, <1>17, ReadKeeps DEF CallInv, Refresh, End
  <1>18. ASSUME NEW c \in Callers, NEW w \in Items, ReadWork(c, w) PROVE ReadInv'
    BY <1>0, <1>18, ReadKeeps DEF CallInv, ReadWork, Begin
  <1>19. ASSUME NEW w \in Items, Start(w) PROVE ReadInv'
    BY <1>0, <1>19, ReadKeeps DEF CallInv, Start
  <1>20. ASSUME NEW w \in Items, Finish(w) PROVE ReadInv'
    BY <1>0, <1>20, ReadKeeps DEF CallInv, Finish
  <1>21. ASSUME NEW w \in Items, Follow(w) PROVE ReadInv'
    BY <1>0, <1>21, ReadKeeps DEF CallInv, Follow
  <1>22. ASSUME NEW c \in Callers, WriteWork(c) PROVE ReadInv'
    BY <1>0, <1>22, ReadKeeps DEF CallInv, WriteWork, End
  <1> QED
    BY <1>1, <1>2, <1>3, <1>4, <1>5, <1>6, <1>7, <1>8, <1>9, <1>10, <1>11, <1>12, <1>13, <1>14, <1>15, <1>16, <1>17, <1>18, <1>19, <1>20, <1>21, <1>22 DEF Next, Reads, Continues, Works

----------------------------------------------------------------------------
\* Only a refresh makes an initiative done.
BecomesDone(i) == status'[i] = "done" /\ status[i] # "done"

LEMMA OnlyRefresh ==
  ASSUME RowInv, CallInv, [Next]_vars, NEW i \in Ids, BecomesDone(i)
  PROVE  \E c \in Callers : Refresh(c)
  <1> SUFFICES ASSUME \A c \in Callers : ~Refresh(c) PROVE FALSE
    OBVIOUS
  <1>1. CASE UNCHANGED vars
    BY <1>1 DEF BecomesDone, vars
  <1>2. CASE Restart
    BY <1>2 DEF BecomesDone, Restart
  <1>3. ASSUME NEW c \in Callers, ReadProposal(c) PROVE FALSE
    BY <1>3 DEF BecomesDone, RowInv, ReadProposal
  <1>4. ASSUME NEW c \in Callers, NEW j \in Ids, ReadInitiative(c, j) PROVE FALSE
    BY <1>4 DEF BecomesDone, RowInv, ReadInitiative
  <1>5. ASSUME NEW c \in Callers, NEW j \in Ids, ReadDraft(c, j) PROVE FALSE
    BY <1>5 DEF BecomesDone, ReadDraft
  <1>6. ASSUME NEW c \in Callers, NEW j \in Ids, ReadApproval(c, j) PROVE FALSE
    BY <1>6 DEF BecomesDone, RowInv, ReadApproval
  <1>7. ASSUME NEW c \in Callers, NEW j \in Ids, BeginRefresh(c, j) PROVE FALSE
    BY <1>7 DEF BecomesDone, RowInv, BeginRefresh
  <1>8. ASSUME NEW c \in Callers, WriteProposal(c) PROVE FALSE
    BY <1>8 DEF BecomesDone, RowInv, WriteProposal
  <1>9. ASSUME NEW c \in Callers, Materialize(c) PROVE FALSE
    BY <1>9 DEF BecomesDone, RowInv, Materialize
  <1>10. ASSUME NEW c \in Callers, WriteInitiative(c) PROVE FALSE
    BY <1>10, Shapes DEF BecomesDone, RowInv, CallInv, WriteInitiative, WriteStatus
  <1>11. ASSUME NEW c \in Callers, WriteItem(c) PROVE FALSE
    BY <1>11 DEF BecomesDone, RowInv, WriteItem
  <1>12. ASSUME NEW c \in Callers, Delete(c) PROVE FALSE
    BY <1>12 DEF BecomesDone, RowInv, Delete
  <1>13. ASSUME NEW c \in Callers, Approve(c) PROVE FALSE
    BY <1>13 DEF BecomesDone, RowInv, Approve
  <1>14. ASSUME NEW c \in Callers, QueueRoot(c) PROVE FALSE
    BY <1>14 DEF BecomesDone, RowInv, QueueRoot
  <1>15. ASSUME NEW c \in Callers, QueueStops(c) PROVE FALSE
    BY <1>15 DEF BecomesDone, RowInv, QueueStops
  <1>16. ASSUME NEW c \in Callers, ReadItem(c) PROVE FALSE
    BY <1>16 DEF BecomesDone, RowInv, ReadItem
  <1>17. ASSUME NEW c \in Callers, Refresh(c) PROVE FALSE
    BY <1>17
  <1>18. ASSUME NEW c \in Callers, NEW w \in Items, ReadWork(c, w) PROVE FALSE
    BY <1>18 DEF BecomesDone, RowInv, ReadWork
  <1>19. ASSUME NEW w \in Items, Start(w) PROVE FALSE
    BY <1>19 DEF BecomesDone, RowInv, Start
  <1>20. ASSUME NEW w \in Items, Finish(w) PROVE FALSE
    BY <1>20 DEF BecomesDone, RowInv, Finish
  <1>21. ASSUME NEW w \in Items, Follow(w) PROVE FALSE
    BY <1>21 DEF BecomesDone, RowInv, Follow
  <1>22. ASSUME NEW c \in Callers, WriteWork(c) PROVE FALSE
    BY <1>22 DEF BecomesDone, RowInv, WriteWork
  <1> QED
    BY <1>1, <1>2, <1>3, <1>4, <1>5, <1>6, <1>7, <1>8, <1>9, <1>10, <1>11, <1>12, <1>13, <1>14, <1>15, <1>16, <1>17, <1>18, <1>19, <1>20, <1>21, <1>22 DEF Next, Reads, Continues, Works

\* A refresh that makes its initiative done has read all its items, and found each
\* of them completed.
LEMMA DoneStep ==
  ASSUME RowInv, CallInv, EverInv, ReadInv, [Next]_vars, NEW i \in Ids, BecomesDone(i)
  PROVE  \E c \in Callers :
           /\ call[c] # None /\ call[c].op = "refresh" /\ call[c].on = i
           /\ call[c].items # {}
           /\ \A w \in call[c].items : item[w] = "completed" \/ w \in everCompleted \cap overwritten
  <1>1. PICK c \in Callers : Refresh(c)
    BY OnlyRefresh
  <1> DEFINE next == Derived(call[c].read, call[c].seen)
  <1>2. /\ call[c] # None /\ call[c] \in Requests /\ call[c].op = "refresh" /\ call[c].unread = {}
        /\ status' = status \/ (next # call[c].read /\ WriteStatus(call[c].on, next))
    BY <1>1 DEF Refresh, CallInv
  <1>3. call[c].on = i /\ next = "done" /\ next # call[c].read
    <2>1. call[c].on \in Ids
      BY <1>2, Shapes
    <2>2. status' = [status EXCEPT ![call[c].on] = IF @ = "deleted" THEN "deleted" ELSE next] /\ next # call[c].read
      BY <1>2 DEF BecomesDone, WriteStatus
    <2> HIDE DEF next
    <2> QED BY <2>1, <2>2 DEF BecomesDone, RowInv
  <1>4. call[c].seen = {"done"}
    BY <1>3 DEF Derived
  <1>5. ReadSoFar(call[c])
    BY <1>2 DEF ReadInv
  <1>6. call[c].items # {} /\ call[c].items \subseteq everCompleted
    BY <1>2, <1>4, <1>5 DEF ReadSoFar
  <1> QED BY <1>2, <1>3, <1>6 DEF EverInv

\* An initiative becomes done only by a refresh that has found every item on the
\* list it read completed; each is so at that moment, or was overwritten after it had
\* been completed.
THEOREM DoneWhenCompletedCorrect == Spec => DoneWhenCompleted
  <1>1. Init => EverInv /\ ReadInv
    BY DEF Init, EverInv, ReadInv
  <1>2. RowInv /\ CallInv /\ MadeInv /\ EverInv /\ ReadInv /\ [Next]_vars => EverInv' /\ ReadInv'
    BY StepEver, StepRead
  <1>3. Spec => [](EverInv /\ ReadInv)
    BY <1>1, <1>2, MadeInvariant, PTL DEF Spec
  <1>4. RowInv /\ CallInv /\ EverInv /\ ReadInv /\ [Next]_vars =>
          [\A i \in Ids : status'[i] = "done" /\ status[i] # "done" =>
             \E c \in Callers :
               /\ call[c] # None /\ call[c].op = "refresh" /\ call[c].on = i
               /\ call[c].items # {}
               /\ \A w \in call[c].items : item[w] = "completed" \/ w \in everCompleted \cap overwritten]_vars
    BY DoneStep DEF BecomesDone
  <1> QED BY <1>3, <1>4, MadeInvariant, PTL DEF Spec, DoneWhenCompleted

----------------------------------------------------------------------------
\* The types that are left.
RestInv ==
  /\ proposal \in {"draft", "open", "rejected", "revised", "merged", "deleted"}
  /\ following \subseteq {p \in everCompleted \X Items : p[1] \in Needs(p[2])}
  /\ entered \subseteq Made
  /\ dropped \in SUBSET Items /\ overwritten \in SUBSET Items /\ calls \in 0..MaxCalls
  /\ \A c \in Callers : call[c] # None /\ call[c].op = "queue" => call[c].todo \subseteq Made

\* A step that begins or ends no queueing, drops nothing and has nothing to follow.
LEMMA RestKeeps ==
  ASSUME CallInv, RestInv, Made \subseteq Made', proposal' = proposal, dropped' = dropped,
         overwritten' \subseteq Items, everCompleted \subseteq everCompleted',
         following' \subseteq following, entered' \subseteq Made', calls' \in 0..MaxCalls,
         \A c \in Callers : call'[c] = call[c] \/ call'[c] = None \/ call'[c].op # "queue"
  PROVE  RestInv'
  <1>1. \A c \in Callers : call'[c] # None /\ call'[c].op = "queue" => call'[c].todo \subseteq Made'
    BY DEF RestInv
  <1>2. following' \subseteq {p \in everCompleted' \X Items : p[1] \in Needs(p[2])}
    BY DEF RestInv
  <1> QED BY <1>1, <1>2 DEF RestInv, Needs

\* Every step keeps them.
LEMMA StepRest ==
  RowInv /\ CallInv /\ MadeInv /\ EverInv /\ Made \subseteq Made' /\ RestInv /\ [Next]_vars => RestInv'
  <1> SUFFICES ASSUME RowInv, CallInv, MadeInv, EverInv, Made \subseteq Made', RestInv, [Next]_vars PROVE RestInv'
    OBVIOUS
  <1>0. everCompleted \subseteq everCompleted' /\ entered \subseteq Made' /\ overwritten \subseteq Items
    BY StepEver DEF RestInv
  <1>1. CASE UNCHANGED vars
    BY <1>0, <1>1, RestKeeps DEF RestInv, vars
  <1>2. CASE Restart
    <2>1. dropped' \in SUBSET Items
      BY <1>2 DEF Restart, RestInv
    <2>2. calls' \in 0..MaxCalls
      BY <1>2 DEF Restart, RestInv
    <2>3. (\A c \in Callers : call'[c] = None) /\ following' = {}
      BY <1>2 DEF Restart
    <2>4. entered' \subseteq Made'
      BY <1>2, Made \subseteq Made' DEF Restart, Interrupted, Made
    <2> QED BY <1>2, <2>1, <2>2, <2>3, <2>4 DEF Restart, RestInv
  <1>3. ASSUME NEW c \in Callers, ReadProposal(c) PROVE RestInv'
    BY <1>0, <1>3, RestKeeps DEF RestInv, CallInv, ReadProposal, Begin
  <1>4. ASSUME NEW c \in Callers, NEW i \in Ids, ReadInitiative(c, i) PROVE RestInv'
    BY <1>0, <1>4, RestKeeps DEF RestInv, CallInv, ReadInitiative, Begin
  <1>5. ASSUME NEW c \in Callers, NEW i \in Ids, ReadDraft(c, i) PROVE RestInv'
    BY <1>0, <1>5, RestKeeps DEF RestInv, CallInv, ReadDraft, Begin
  <1>6. ASSUME NEW c \in Callers, NEW i \in Ids, ReadApproval(c, i) PROVE RestInv'
    BY <1>0, <1>6, RestKeeps DEF RestInv, CallInv, ReadApproval, Begin
  <1>7. ASSUME NEW c \in Callers, NEW i \in Ids, BeginRefresh(c, i) PROVE RestInv'
    BY <1>0, <1>7, RestKeeps DEF RestInv, CallInv, BeginRefresh, Begin
  <1>8. ASSUME NEW c \in Callers, WriteProposal(c) PROVE RestInv'
    <2>1. proposal' \in {"draft", "open", "rejected", "revised", "merged", "deleted"}
      BY <1>8, Shapes DEF RestInv, CallInv, WriteProposal
    <2>2. \A b \in Callers : call'[b] = call[b] \/ call'[b] = None
      BY <1>8 DEF WriteProposal, End, CallInv
    <2> QED BY <1>8, <2>1, <2>2 DEF RestInv, Made, Needs, WriteProposal
  <1>9. ASSUME NEW c \in Callers, Materialize(c) PROVE RestInv'
    <2>1. proposal' \in {"draft", "open", "rejected", "revised", "merged", "deleted"}
      BY <1>9 DEF RestInv, Materialize
    <2>2. \A b \in Callers : call'[b] = call[b] \/ call'[b] = None
      BY <1>9 DEF Materialize, End, CallInv
    <2>3. UNCHANGED <<entered, following, everCompleted, overwritten, dropped, calls>>
      BY <1>9 DEF Materialize
    <2> QED BY <1>0, <2>1, <2>2, <2>3, Made \subseteq Made' DEF RestInv, Needs
  <1>10. ASSUME NEW c \in Callers, WriteInitiative(c) PROVE RestInv'
    BY <1>0, <1>10, RestKeeps DEF RestInv, CallInv, WriteInitiative, End
  <1>11. ASSUME NEW c \in Callers, WriteItem(c) PROVE RestInv'
    BY <1>0, <1>11, RestKeeps DEF RestInv, CallInv, WriteItem, End
  <1>12. ASSUME NEW c \in Callers, Delete(c) PROVE RestInv'
    BY <1>0, <1>12, RestKeeps DEF RestInv, CallInv, Delete, End
  <1>13. ASSUME NEW c \in Callers, Approve(c) PROVE RestInv'
    <2>1. \A b \in Callers : b # c => call'[b] = call[b]
      BY <1>13 DEF Approve, End, CallInv
    <2>2. call'[c] # None /\ call'[c].op = "queue" => call'[c].todo \subseteq Made
      <3> DEFINE found == call[c].items
                 r == [op |-> "queue", todo |-> {w \in Roots(found) : item[w] \in {"open", "accepted"}}]
      <3>1. found \in SUBSET Items
        BY <1>13, Shapes DEF CallInv, Approve
      <3>2. call' = [call EXCEPT ![c] = None] \/ call' = [call EXCEPT ![c] = r]
        BY <1>13 DEF Approve, End
      <3>3. r.todo \subseteq Made
        BY <3>1 DEF Roots, Made
      <3> HIDE DEF r
      <3> QED BY <3>2, <3>3 DEF CallInv
    <2>3. UNCHANGED <<proposal, entered, following, everCompleted, overwritten, dropped, calls>>
      BY <1>13 DEF Approve
    <2>4. \A b \in Callers : call'[b] # None /\ call'[b].op = "queue" => call'[b].todo \subseteq Made'
      BY <2>1, <2>2, Made \subseteq Made' DEF RestInv
    <2> QED BY <1>0, <2>3, <2>4 DEF RestInv, Needs
  <1>14. ASSUME NEW c \in Callers, QueueRoot(c) PROVE RestInv'
    <2>1. PICK w \in call[c].todo : call' = [call EXCEPT ![c] = [call[c] EXCEPT !.todo = @ \ {w}]]
      BY <1>14 DEF QueueRoot
    <2>2. call[c] \in [op : {"queue"}, todo : SUBSET Items] /\ call[c].todo \subseteq Made
      BY <1>14, Shapes DEF CallInv, QueueRoot, RestInv
    <2>3. [call[c] EXCEPT !.todo = @ \ {w}].todo \subseteq Made
      BY <2>2
    <2>4. \A b \in Callers : call'[b] = call[b] \/ call'[b].todo \subseteq Made
      BY <2>1, <2>3 DEF CallInv
    <2>5. UNCHANGED <<proposal, following, everCompleted, overwritten, dropped, calls>>
      BY <1>14 DEF QueueRoot
    <2>7. entered' \subseteq Made'
      BY <1>0, <1>14, Made \subseteq Made' DEF QueueRoot, CallInv, RestInv
    <2>6. \A b \in Callers : call'[b] # None /\ call'[b].op = "queue" => call'[b].todo \subseteq Made'
      BY <2>4, Made \subseteq Made' DEF RestInv
    <2> QED BY <2>5, <2>6, <2>7 DEF RestInv, Needs
  <1>15. ASSUME NEW c \in Callers, QueueStops(c) PROVE RestInv'
    <2>1. call[c].todo \in SUBSET Items
      BY <1>15, Shapes DEF CallInv, QueueStops
    <2>2. \A b \in Callers : call'[b] = call[b] \/ call'[b] = None
      BY <1>15 DEF QueueStops, End, CallInv
    <2> QED BY <1>15, <2>1, <2>2 DEF RestInv, Made, Needs, QueueStops
  <1>16. ASSUME NEW c \in Callers, ReadItem(c) PROVE RestInv'
    BY <1>0, <1>16, RestKeeps DEF RestInv, CallInv, ReadItem, End
  <1>17. ASSUME NEW c \in Callers, Refresh(c) PROVE RestInv'
    BY <1>0, <1>17, RestKeeps DEF RestInv, CallInv, Refresh, End
  <1>18. ASSUME NEW c \in Callers, NEW w \in Items, ReadWork(c, w) PROVE RestInv'
    <2>1. entered' \subseteq Made'
      BY <1>0, <1>18 DEF ReadWork
    <2> QED BY <1>0, <1>18, <2>1, RestKeeps DEF RestInv, CallInv, ReadWork, Begin
  <1>19. ASSUME NEW w \in Items, Start(w) PROVE RestInv'
    BY <1>0, <1>19, RestKeeps DEF RestInv, CallInv, Start
  <1>20. ASSUME NEW w \in Items, Finish(w) PROVE RestInv'
    <2>1. \/ following' = following
          \/ following' = following \cup ({w} \X Dependents(w)) /\ w \in everCompleted'
      BY <1>20 DEF Finish
    <2>2. following' \subseteq {p \in everCompleted' \X Items : p[1] \in Needs(p[2])}
      BY <1>0, <2>1 DEF RestInv, Dependents
    <2>3. UNCHANGED <<proposal, entered, call, overwritten, dropped, calls>>
      BY <1>20 DEF Finish
    <2> QED BY <2>2, <2>3, Made \subseteq Made' DEF RestInv, Needs
  <1>21. ASSUME NEW w \in Items, Follow(w) PROVE RestInv'
    <2>1. PICK d \in Items :
            /\ following' \subseteq following
            /\ entered' = entered \/ (item[d] \in Preparable /\ entered' = entered \cup {d})
      BY <1>21 DEF Follow
    <2>2. item[d] \in Preparable => d \in Made'
      BY Made \subseteq Made' DEF Made, Preparable
    <2>3. entered' \subseteq Made'
      BY <1>0, <2>1, <2>2
    <2> QED BY <1>0, <1>21, <2>1, <2>3, RestKeeps DEF RestInv, Follow
  <1>22. ASSUME NEW c \in Callers, WriteWork(c) PROVE RestInv'
    <2>1. call[c].work \in Items /\ call[c].work \in Made'
      BY <1>22, Shapes, Made \subseteq Made' DEF CallInv, MadeInv, Carried, WriteWork
    <2>2. entered' \subseteq Made' /\ overwritten' \subseteq Items
      BY <1>0, <1>22, <2>1 DEF WriteWork
    <2> QED BY <1>0, <1>22, <2>2, RestKeeps DEF RestInv, CallInv, WriteWork, End
  <1> QED
    BY <1>1, <1>2, <1>3, <1>4, <1>5, <1>6, <1>7, <1>8, <1>9, <1>10, <1>11, <1>12, <1>13, <1>14, <1>15, <1>16, <1>17, <1>18, <1>19, <1>20, <1>21, <1>22 DEF Next, Reads, Continues, Works

\* Every state of every execution is well typed; what is listed, promised, queued or
\* in the scheduler has been made, no item that runs is completed, and only what has
\* been completed has dependents to be examined.
THEOREM InitiativesTypeCorrect == Spec => []TypeOK
  <1>1. ASSUME Init PROVE EverInv /\ RestInv
    BY <1>1 DEF Init, EverInv, RestInv, Made
  <1>2. RowInv /\ CallInv /\ MadeInv /\ EverInv /\ RestInv /\ [Next]_vars => EverInv' /\ RestInv'
    BY StepRest, StepGrows, StepEver
  <1>3. RowInv /\ CallInv /\ MadeInv /\ EverInv /\ RestInv => TypeOK
    BY DEF RowInv, CallInv, MadeInv, EverInv, RestInv, Made, TypeOK
  <1> QED BY <1>1, <1>2, <1>3, MadeInvariant, PTL DEF Spec
=============================================================================
