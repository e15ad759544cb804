------------------------------- MODULE MCEngine -------------------------------
(* Instances of WorkItemEngine for TLC.                                    *)
EXTENDS WorkItemEngine, TLC

(* Positions only: an action, its review, and a second review.             *)
ChainActions == {1, 2, 3}
ChainDependsOn == [a \in ChainActions |-> {}]
ChainMaxRetries == [a \in ChainActions |-> IF a = 3 THEN 0 ELSE 1]
TwoRounds == [g \in {2, 3} |-> 2]

(* A fork and a join: after 1 the plan 2 and the actions 3 and 4, which     *)
(* want the one slot at the same time; all three before 5.                 *)
DagActions == {1, 2, 3, 4, 5}
DagDependsOn == (1 :> {}) @@ (2 :> {1}) @@ (3 :> {1}) @@ (4 :> {1}) @@ (5 :> {2, 3, 4})
DagMaxRetries == [a \in DagActions |-> IF a \in {2, 3} THEN 1 ELSE 0]

(* A pull request flow: implement, push, and the gate that merges it.      *)
PrMaxRetries == [a \in ChainActions |-> IF a = 1 THEN 3 ELSE 0]
PrRounds == [g \in {3} |-> 3]

(* An action and its review.                                               *)
PairActions == {1, 2}
PairDependsOn == [a \in PairActions |-> {}]
NoRetries == [a \in PairActions |-> 0]
NoRounds == [g \in {} |-> 0]
PairRounds == [g \in {2} |-> 3]
==============================================================================
