---------------------------- MODULE RunDelivery ----------------------------
(***************************************************************************)
(* What a caller of runtime.SessionManager is promised, whichever manager  *)
(* is configured: StartRun opens a call, an agent may produce outcomes for *)
(* it, and WatchRun closes it once, with an outcome that an agent produced *)
(* for this very call or with none (the context ended, the server died).   *)
(* RemoteExecution implements this specification.                          *)
(***************************************************************************)
CONSTANTS Calls, Outcomes, None

VARIABLES
  phase,      \* phase[c]: "idle", "open" or "closed"
  produced,   \* produced[c]: the outcomes of the executions of c so far
  outcome     \* outcome[c]: what the caller was told, None before that

deliveryVars == <<phase, produced, outcome>>

DeliveryInit ==
  /\ phase = [c \in Calls |-> "idle"]
  /\ produced = [c \in Calls |-> {}]
  /\ outcome = [c \in Calls |-> None]

Open(c) ==
  /\ phase[c] = "idle"
  /\ phase' = [phase EXCEPT ![c] = "open"]
  /\ UNCHANGED <<produced, outcome>>

\* StartRun reports an error; the run may have been dispatched all the same.
Refuse(c) ==
  /\ phase[c] = "idle"
  /\ phase' = [phase EXCEPT ![c] = "closed"]
  /\ UNCHANGED <<produced, outcome>>

\* Executions outlive the interest of the caller, and may be repeated.
Produce(c) ==
  /\ phase[c] # "idle"
  /\ \E o \in Outcomes : produced' = [produced EXCEPT ![c] = @ \cup {o}]
  /\ UNCHANGED <<phase, outcome>>

Close(c, o) ==
  /\ phase[c] = "open"
  /\ o \in produced[c] \cup {None}
  /\ phase' = [phase EXCEPT ![c] = "closed"]
  /\ outcome' = [outcome EXCEPT ![c] = o]
  /\ UNCHANGED produced

\* A crash of the caller's process closes all its calls at once.
CloseAll ==
  /\ phase' = [c \in Calls |-> IF phase[c] = "open" THEN "closed" ELSE phase[c]]
  /\ UNCHANGED <<produced, outcome>>

DeliveryNext ==
  \/ \E c \in Calls : Open(c) \/ Refuse(c) \/ Produce(c)
  \/ \E c \in Calls : \E o \in Outcomes \cup {None} : Close(c, o)
  \/ CloseAll

DeliverySpec == DeliveryInit /\ [][DeliveryNext]_deliveryVars
=============================================================================
