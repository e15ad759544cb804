------------------------------ MODULE LeadChat ------------------------------
(***************************************************************************)
(* LeadAgent (adapters/chat/acp/lead.go), one chat: messages sent with     *)
(* Chat and StartChat, each a goroutine that finds or loads the session,   *)
(* queues itself or runs a prompt, and hands over to the queued message;   *)
(* next to them close, delete, archive, cancel and the idle timer.  What a *)
(* message says, the other fields of the catalog and the workspace on disk *)
(* are left out.                                                           *)
(***************************************************************************)
EXTENDS Naturals

CONSTANTS
  Messages,
  MaxClients,    \* bound: agent processes launched
  MaxOps,        \* bound: close, delete, archive and cancel requests, and restarts
  None

Clients == 1..MaxClients

ASSUME LeadAssumption ==
  /\ MaxClients \in Nat /\ MaxOps \in Nat
  /\ None \notin Messages \cup Nat

VARIABLES
  record,    \* the catalog's entry: "bare" is one that has messages and no scope
  current,   \* l.sessions[id]: the client of the session in memory
  client,    \* client[c]; "closing" while the goroutine that closes it has not run
  armed,     \* sessions whose idle timer is set
  expiry,    \* the callback of an idle timer, at most one at a time (a bound)
  running,   \* l.activeRuns[id]: the message whose run it is
  pending,   \* l.pendingMsgs[id]
  pc,
  sess,      \* sess[m]: the session the goroutine of m works with
  admin,     \* a close or delete request between its two steps
  ops

runVars == <<running, pending>>
sessionVars == <<record, current, client, armed>>
adminVars == <<expiry, admin, ops>>
vars == <<sessionVars, runVars, pc, sess, adminVars>>

Init ==
  /\ record = "new"
  /\ current = None
  /\ client = [c \in Clients |-> "unused"]
  /\ armed = {} /\ expiry = "none"
  /\ running = None /\ pending = None
  /\ pc = [m \in Messages |-> "new"] /\ sess = [m \in Messages |-> None]
  /\ admin = "none" /\ ops = 0

Goto(m, l) == pc' = [pc EXCEPT ![m] = l]

\* A message that has its answer, an error, or has been discarded.
End(m) == Goto(m, "ended") /\ sess' = [sess EXCEPT ![m] = None]

\* The queued message is discarded, if there is one.
Discard(at) ==
  /\ pending' = None
  /\ pc' = [n \in Messages |-> IF n = pending THEN "ended" ELSE at[n]]
  /\ sess' = [n \in Messages |-> IF n = pending THEN None ELSE sess[n]]

\* leadSession.close: the client of a session that is no longer in the map.
Closed(c) == IF c = None THEN client ELSE [client EXCEPT ![c] = "closed"]

\* The second half of removeSession: out of the map, closed, its timer stopped.
RemoveCurrent ==
  /\ current' = None /\ client' = Closed(current) /\ armed' = armed \ {current}

----------------------------------------------------------------------------
(* prepareChat and getOrCreateSession. *)

\* The session is in memory.
FindSession(m) ==
  /\ pc[m] = "new" /\ current # None
  /\ sess' = [sess EXCEPT ![m] = current] /\ Goto(m, "stopping")
  /\ UNCHANGED <<sessionVars, runVars, adminVars>>

\* It is in the catalog, or the first message makes one; nobody knows the id of
\* a chat before that message has made it.
MissSession(m) ==
  /\ pc[m] = "new" /\ current = None
  /\ record \in {"new", "kept"}
  /\ record = "new" => \A n \in Messages : pc[n] \notin {"launching", "installing"}
  /\ Goto(m, "launching")
  /\ UNCHANGED <<sessionVars, runVars, sess, adminVars>>

\* ErrNotFound, or a record without a scope.
NoSession(m) ==
  /\ pc[m] = "new" /\ current = None /\ record \in {"none", "bare"}
  /\ End(m)
  /\ UNCHANGED <<sessionVars, runVars, adminVars>>

\* launchClient and NewSession or LoadSession.
Launch(m) ==
  /\ pc[m] = "launching"
  /\ \E c \in Clients :
       /\ client[c] = "unused" /\ \A d \in Clients : d < c => client[d] # "unused"
       /\ client' = [client EXCEPT ![c] = "open"]
       /\ sess' = [sess EXCEPT ![m] = c]
  /\ Goto(m, "installing")
  /\ UNCHANGED <<record, current, armed, runVars, adminVars>>

LaunchFails(m) ==
  /\ pc[m] = "launching" /\ End(m)
  /\ UNCHANGED <<sessionVars, runVars, adminVars>>

InstallLeaves(m) ==   \* (mutant) nobody closes the session it replaces
  /\ pc[m] = "installing"
  /\ current' = sess[m]
  /\ record' = IF record = "new" THEN "kept" ELSE record
  /\ Goto(m, "stopping")
  /\ UNCHANGED <<client, armed, runVars, sess, adminVars>>

\* Under l.mu, at the end of createSession and loadSession.
Install(m) ==
  /\ pc[m] = "installing"
  /\ current' = sess[m]
  /\ client' = IF current = None THEN client ELSE [client EXCEPT ![current] = "closing"]
  /\ record' = IF record = "new" THEN "kept" ELSE record
  /\ Goto(m, "stopping")
  /\ UNCHANGED <<armed, runVars, sess, adminVars>>

\* "go old.close()".
CloseReplaced(c) ==
  /\ client[c] = "closing"
  /\ client' = Closed(c) /\ armed' = armed \ {c}
  /\ UNCHANGED <<record, current, runVars, pc, sess, adminVars>>

\* stopIdleTimer; StartChat then asks whether the session is busy, Chat does not.
StopIdle(m) ==
  /\ pc[m] = "stopping"
  /\ armed' = armed \ {sess[m]}
  /\ \E l \in {"asking", "beginning"} : Goto(m, l)
  /\ UNCHANGED <<record, current, client, runVars, sess, adminVars>>

----------------------------------------------------------------------------
(* StartChat, runPrompt, endRun and runPending. *)

\* IsSessionRunning.
Ask(m) ==
  /\ pc[m] = "asking"
  /\ Goto(m, IF running = None THEN "beginning" ELSE "queueing")
  /\ UNCHANGED <<sessionVars, runVars, sess, adminVars>>

\* setPending: at most one message waits, the newest; an older one is replaced.
Queue(m) ==
  /\ pc[m] = "queueing"
  /\ pending' = m
  /\ pc' = [n \in Messages |-> IF n = m THEN "queued" ELSE IF n = pending THEN "ended" ELSE pc[n]]
  /\ sess' = [n \in Messages |-> IF n \in {m, pending} THEN None ELSE sess[n]]
  /\ UNCHANGED <<sessionVars, running, adminVars>>

\* appendMessage makes a record when there is none.
Appended == IF record = "none" THEN "bare" ELSE record

BeginAlways(m) ==   \* (mutant) beginRun does not look whether a run is registered
  /\ pc[m] = "beginning"
  /\ running' = m /\ record' = Appended
  /\ Goto(m, "prompting")
  /\ UNCHANGED <<current, client, armed, pending, sess, adminVars>>

\* beginRun and the user's message.
Begin(m) ==
  /\ pc[m] = "beginning" /\ running = None
  /\ running' = m /\ record' = Appended
  /\ Goto(m, "prompting")
  /\ UNCHANGED <<current, client, armed, pending, sess, adminVars>>

\* "session is already running".
BeginRefused(m) ==
  /\ pc[m] = "beginning" /\ running # None /\ Goto(m, "refusing")
  /\ UNCHANGED <<sessionVars, runVars, sess, adminVars>>

\* resetSessionIdle.
ResetIdle(m) ==
  /\ pc[m] \in {"refusing", "resetting"}
  /\ armed' = IF client[sess[m]] = "closed" THEN armed ELSE armed \cup {sess[m]}
  /\ \/ pc[m] = "refusing" /\ End(m)
     \/ pc[m] = "resetting" /\ Goto(m, "ending") /\ UNCHANGED sess
  /\ UNCHANGED <<record, current, client, runVars, adminVars>>

\* Prompt returns a reply; a closed client has none to give.
PromptAnswers(m) ==
  /\ pc[m] = "prompting" /\ client[sess[m]] # "closed"
  /\ record' = Appended /\ Goto(m, "resetting")
  /\ UNCHANGED <<current, client, armed, runVars, sess, adminVars>>

\* Its context was cancelled, or the answer is empty.
PromptStops(m) ==
  /\ pc[m] = "prompting" /\ Goto(m, "resetting")
  /\ UNCHANGED <<sessionVars, runVars, sess, adminVars>>

\* Any other error: removeSession.
PromptBreaks(m) ==
  /\ pc[m] = "prompting" /\ Goto(m, "clearing")
  /\ UNCHANGED <<sessionVars, runVars, sess, adminVars>>

ClearPending(m) ==
  /\ pc[m] = "clearing" /\ Discard([pc EXCEPT ![m] = "removing"])
  /\ UNCHANGED <<sessionVars, running, adminVars>>

\* Whichever session the map has now, not the one whose prompt failed.
RemoveBroken(m) ==
  /\ pc[m] = "removing" /\ RemoveCurrent /\ Goto(m, "ending")
  /\ UNCHANGED <<record, runVars, sess, adminVars>>

EndRunFrees(m) ==   \* (mutant) the run is free before the queued message has it
  /\ pc[m] = "ending"
  /\ running' = None /\ pending' = None
  /\ pc' = [n \in Messages |-> IF n = m THEN (IF pending = None THEN "ended" ELSE "dispatching")
                               ELSE IF n = pending THEN "taken" ELSE pc[n]]
  /\ sess' = [sess EXCEPT ![m] = None]
  /\ UNCHANGED <<sessionVars, adminVars>>

\* endRun under both locks: the queued message takes the run over, or it is free.
EndRun(m) ==
  /\ pc[m] = "ending"
  /\ running' = pending /\ pending' = None
  /\ pc' = [n \in Messages |-> IF n = m THEN (IF pending = None THEN "ended" ELSE "dispatching")
                               ELSE IF n = pending THEN "taken" ELSE pc[n]]
  /\ sess' = [sess EXCEPT ![m] = None]
  /\ UNCHANGED <<sessionVars, adminVars>>

\* endRun, with a message taken: go runPending on the session the map has now.
Dispatch(m) ==
  /\ pc[m] = "dispatching" /\ current # None
  /\ pc' = [pc EXCEPT ![m] = "ended", ![running] = "prompting"]
  /\ sess' = [sess EXCEPT ![running] = current]
  /\ record' = Appended
  /\ UNCHANGED <<current, client, armed, runVars, adminVars>>

DispatchKeeps(m) ==   \* (mutant) the run is not given back
  /\ pc[m] = "dispatching" /\ current = None
  /\ pc' = [pc EXCEPT ![m] = "ended"]
  /\ UNCHANGED <<sessionVars, runVars, sess, adminVars>>

\* The session is gone: the run is given back and the message forgotten.
DispatchFails(m) ==
  /\ pc[m] = "dispatching" /\ current = None
  /\ pc' = [pc EXCEPT ![m] = "ended", ![running] = "ended"]
  /\ running' = None
  /\ UNCHANGED <<sessionVars, pending, sess, adminVars>>

----------------------------------------------------------------------------
(* The other requests, and the idle timer. *)

\* CancelChat and CancelPending discard the queued message.  CancelChat also
\* cancels the context of the run, whose prompt then stops (PromptStops).
Cancel ==
  /\ ops < MaxOps /\ ops' = ops + 1
  /\ pending # None \/ running # None
  /\ Discard(pc)
  /\ UNCHANGED <<sessionVars, running, expiry, admin>>

\* CloseSession is removeSession; DeleteSession also removes the record.
BeginRemoval ==
  /\ ops < MaxOps /\ ops' = ops + 1
  /\ admin = "none" /\ record # "new"
  /\ admin' \in {"closing", "deleting"}
  /\ Discard(pc)
  /\ UNCHANGED <<sessionVars, running, expiry>>

Removal ==
  /\ admin # "none" /\ admin' = "none"
  /\ RemoveCurrent
  /\ record' = IF admin = "deleting" THEN "none" ELSE record
  /\ UNCHANGED <<runVars, pc, sess, expiry, ops>>

\* ArchiveSession with ArchiveCleanup: the session goes, a queued message stays.
Archive ==
  /\ ops < MaxOps /\ ops' = ops + 1
  /\ record \in {"kept", "bare"} /\ RemoveCurrent
  /\ UNCHANGED <<record, runVars, pc, sess, expiry, admin>>

\* time.AfterFunc runs removeSession, which knows the id and not the session.
TimerFires(c) ==
  /\ c \in armed /\ expiry = "none"
  /\ armed' = armed \ {c} /\ expiry' = "fired"
  /\ UNCHANGED <<record, current, client, runVars, pc, sess, admin, ops>>

Expire ==
  /\ expiry = "fired" /\ expiry' = "removing"
  /\ Discard(pc)
  /\ UNCHANGED <<sessionVars, running, admin, ops>>

ExpireSession ==
  /\ expiry = "removing" /\ expiry' = "none"
  /\ RemoveCurrent
  /\ UNCHANGED <<record, runVars, pc, sess, admin, ops>>

\* Shutdown, or a crash, and NewLeadAgent: the catalog is what survives.
Restart ==
  /\ ops < MaxOps /\ ops' = ops + 1
  /\ current' = None /\ armed' = {}
  /\ client' = [c \in Clients |-> IF client[c] = "unused" THEN "unused" ELSE "closed"]
  /\ running' = None /\ pending' = None /\ expiry' = "none" /\ admin' = "none"
  /\ pc' = [m \in Messages |-> IF pc[m] = "new" THEN "new" ELSE "ended"]
  /\ sess' = [m \in Messages |-> None]
  /\ UNCHANGED record

----------------------------------------------------------------------------
Prepares(m) == FindSession(m) \/ MissSession(m) \/ NoSession(m)
Returns(m) == PromptAnswers(m) \/ PromptStops(m) \/ PromptBreaks(m)
Continues(m) ==
  \/ Launch(m) \/ LaunchFails(m) \/ Install(m) \/ StopIdle(m)
  \/ Ask(m) \/ Queue(m) \/ Begin(m) \/ BeginRefused(m) \/ ResetIdle(m) \/ Returns(m)
  \/ ClearPending(m) \/ RemoveBroken(m) \/ EndRun(m) \/ Dispatch(m) \/ DispatchFails(m)

Others ==
  \/ Cancel \/ BeginRemoval \/ Removal \/ Archive \/ Expire \/ ExpireSession \/ Restart
  \/ \E c \in Clients : CloseReplaced(c) \/ TimerFires(c)

Next == Others \/ \E m \in Messages : Prepares(m) \/ Continues(m)

Spec == Init /\ [][Next]_vars

\* Goroutines run; a launch has a timeout and an agent answers or dies.
FairSpec == Spec /\ \A m \in Messages : WF_vars(Continues(m))

----------------------------------------------------------------------------
\* From beginRun, or from the hand-over, to endRun.
InRun == {"prompting", "resetting", "clearing", "removing", "ending"}

Locations ==
  InRun \cup
  {"new", "ended", "launching", "installing", "stopping", "asking", "queueing", "queued", "beginning",
   "refusing", "dispatching", "taken"}

\* Types; a goroutine past prepareChat has a session that was launched; a run
\* being handed over belongs to the message that was taken from the queue.
TypeOK ==
  /\ record \in {"new", "kept", "bare", "none"}
  /\ current \in Clients \cup {None}
  /\ client \in [Clients -> {"unused", "open", "closing", "closed"}]
  /\ armed \in SUBSET Clients
  /\ expiry \in {"none", "fired", "removing"} /\ admin \in {"none", "closing", "deleting"}
  /\ running \in Messages \cup {None} /\ pending \in Messages \cup {None}
  /\ pc \in [Messages -> Locations]
  /\ sess \in [Messages -> Clients \cup {None}]
  /\ ops \in 0..MaxOps
  /\ \A m \in Messages :
       /\ pc[m] \in InRun \cup {"installing", "stopping", "asking", "queueing", "beginning", "refusing"}
            => sess[m] # None
       /\ pc[m] = "dispatching" => running # None
  /\ running # None => pc[running] \in InRun \cup {"taken"}

\* A session runs one prompt at a time: endRun registers the queued message's run
\* before anybody can begin another.
OneRunAtATime ==
  \A m, n \in Messages : pc[m] \in InRun /\ pc[n] \in InRun => m = n

\* No agent process is left running without an owner, whatever loads, replacements
\* and removals of the same chat overlap.
NoClientLost ==
  \A c \in Clients :
    client[c] = "open" => \/ current = c
                          \/ \E m \in Messages : pc[m] = "installing" /\ sess[m] = c

\* The session is not busy for ever: whatever ends a run, or makes a hand-over
\* fail, somebody gives it back.
RunsEnd == \A m \in Messages : running = m ~> running # m

----------------------------------------------------------------------------
\* "PendingMessage holds a queued message waiting for a busy session to become
\* idle" (application/chat/contracts.go:86): one that is queued is dispatched, or
\* somebody discards it.  Expected to fail: StartChat asks first and queues later.
QueuedIsTaken == \A m \in Messages : pc[m] = "queued" ~> pc[m] # "queued"
=============================================================================
