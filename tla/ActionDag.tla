------------------------------ MODULE ActionDag ------------------------------
(***************************************************************************)
(* The order of a work item's actions                                      *)
(* (internal/application/flow/dag.go).  An action is named by its rank in  *)
(* the store's listing (position, then id).  When some action has a        *)
(* DependsOn the order is a graph; otherwise it is the order of the        *)
(* positions, which validation makes unique, so the rank stands for them.  *)
(***************************************************************************)
EXTENDS Integers, FiniteSets

CONSTANTS
  Actions,     \* ranks of the work item's actions
  DependsOn    \* action -> its DependsOn

ASSUME ActionsAssumption ==
  /\ Actions \subseteq Nat /\ IsFiniteSet(Actions) /\ Actions # {}
  /\ DependsOn \in [Actions -> SUBSET Actions]

DagMode == \E a \in Actions : DependsOn[a] # {}

(* What must be done before a: its DependsOn, or every lower position.     *)
Predecessors(a) ==
  IF DagMode THEN DependsOn[a] ELSE {b \in Actions : b < a}

ImmediatePredecessors(a) ==
  IF DagMode
    THEN DependsOn[a]
    ELSE {b \in Actions : b < a /\ \A c \in Actions : c < a => c =< b}

(* S holds the predecessors of each of its members.                        *)
Closed(S) == \A b \in S : Predecessors(b) \subseteq S

(* predecessorActionIDs: the least closed set that contains a's own.       *)
AllPredecessors(a) ==
  {b \in Actions :
     \A S \in SUBSET Actions :
       (Closed(S) /\ Predecessors(a) \subseteq S) => b \in S}

EntryActions == {a \in Actions : Predecessors(a) = {}}

(* detectCycle: no set of actions each of which waits for another of them. *)
Acyclic ==
  ~ \E S \in SUBSET Actions :
      S # {} /\ \A a \in S : Predecessors(a) \cap S # {}

(* ValidateActions.                                                        *)
ASSUME ActionsValid == Acyclic
==============================================================================
