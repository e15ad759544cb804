--------------------------- MODULE ThreadSessions ---------------------------
(***************************************************************************)
(* Agents in a thread: ThreadSessionPool keeps one process per (thread,    *)
(* profile), and the store one row per membership.  This module is one     *)
(* such pair, with concurrent calls of InviteAgent, PromptAgent,           *)
(* RemoveAgent and CleanupThread.  The store does not keep the rows of a   *)
(* profile apart, and every call works on its own copy of a row: it checks *)
(* transitions against the copy and writes the whole row.                  *)
(***************************************************************************)
EXTENDS Naturals

CONSTANTS
  Callers,       \* calls, in whatever order they come
  MaxRows,       \* bound: memberships of the profile
  MaxSessions,   \* bound: processes started
  MaxRestarts,   \* bound: restarts of the server
  None

Rows == 1..MaxRows
Sessions == 1..MaxSessions
Statuses == {"booting", "active", "paused", "left", "failed"}

ASSUME ThreadAssumption ==
  /\ MaxRows \in Nat /\ MaxSessions \in Nat /\ MaxRestarts \in Nat
  /\ None \notin Callers \cup Nat \cup Statuses

VARIABLES
  status,    \* status[i]: of row i, "none" before it is added, "deleted" after
  pooled,    \* p.sessions[key]
  started,   \* processes started so far
  open,      \* those whose client is not closed
  closing,   \* sessions that were told to leave
  lock,      \* lock[s]: the call that holds threadPooledSession.mu
  pc,
  row,       \* row[r]: the row a call works on
  copy,      \* copy[r]: the status in its copy
  sess,      \* sess[r]: the session it boots, prompts or closes
  recovers,  \* calls that boot in order to prompt
  restarts

rowVars == <<row, copy>>
sessionVars == <<pooled, started, open, closing, lock>>
callVars == <<pc, row, copy, sess, recovers>>
vars == <<status, sessionVars, callVars, restarts>>

Init ==
  /\ status = [i \in Rows |-> "none"]
  /\ pooled = None /\ started = 0 /\ open = {} /\ closing = {}
  /\ lock = [s \in Sessions |-> None]
  /\ pc = [r \in Callers |-> "idle"]
  /\ row = [r \in Callers |-> None] /\ copy = [r \in Callers |-> None]
  /\ sess = [r \in Callers |-> None]
  /\ recovers = {} /\ restarts = 0

\* CanTransitionThreadAgentStatus.
MayBecome(s) ==
  {s} \cup CASE s = "booting" -> {"active", "failed", "left"}
             [] s = "active"  -> {"paused", "failed", "left"}
             [] s = "paused"  -> {"booting", "failed", "left"}
             [] OTHER         -> {}

Goto(r, l) == pc' = [pc EXCEPT ![r] = l]
Takes(r, i, s) == row' = [row EXCEPT ![r] = i] /\ copy' = [copy EXCEPT ![r] = s]

\* UpdateThreadMember: the whole row, if it still exists; errors are ignored.
Write(i, s) == status' = IF status[i] = "deleted" THEN status ELSE [status EXCEPT ![i] = s]

RowsIn(set) == {i \in Rows : status[i] \in set}
Firsts(set) == {i \in set : \A k \in set : i <= k}
Lasts(set) == {i \in set : \A k \in set : k <= i}

----------------------------------------------------------------------------
\* InviteAgent: the first row that can be used again, or a new one.

Reusable == RowsIn({"paused", "booting", "active"})

InviteReads(r) ==
  /\ pc[r] = "idle" /\ "deleted" \notin {status[i] : i \in Rows}
  /\ \/ Reusable = {} /\ Goto(r, "adding") /\ UNCHANGED rowVars
     \/ \E i \in Firsts(Reusable) :
          /\ Takes(r, i, status[i])
          /\ Goto(r, IF status[i] = "paused" THEN "resuming" ELSE "checking")
  /\ UNCHANGED <<status, sessionVars, sess, recovers, restarts>>

\* Also recoverSession: a paused member goes back to booting.
Resume(r) ==
  /\ pc[r] = "resuming"
  /\ Write(row[r], "booting")
  /\ Takes(r, row[r], "booting") /\ Goto(r, "booting")
  /\ UNCHANGED <<sessionVars, sess, recovers, restarts>>

CheckReady(r) ==
  /\ pc[r] = "checking"
  /\ Goto(r, IF pooled # None THEN "ended" ELSE "booting")
  /\ UNCHANGED <<status, sessionVars, rowVars, sess, recovers, restarts>>

AddMember(r) ==
  /\ pc[r] = "adding"
  /\ \E i \in Firsts(RowsIn({"none"})) :
       status' = [status EXCEPT ![i] = "booting"] /\ Takes(r, i, "booting")
  /\ Goto(r, "booting")
  /\ UNCHANGED <<sessionVars, sess, recovers, restarts>>

----------------------------------------------------------------------------
\* bootSession, in the background of an invitation or for a prompt.

Boot(r) ==
  /\ pc[r] = "booting" /\ started < MaxSessions
  /\ started' = started + 1 /\ open' = open \cup {started + 1}
  /\ sess' = [sess EXCEPT ![r] = started + 1] /\ Goto(r, "booted")
  /\ UNCHANGED <<status, pooled, closing, lock, rowVars, recovers, restarts>>

BootFails(r) ==
  /\ pc[r] = "booting"
  /\ Write(row[r], "failed") /\ Goto(r, "ended")
  /\ UNCHANGED <<sessionVars, rowVars, sess, recovers, restarts>>

\* Whatever session is in the pool by now is replaced.
PoolSession(r) ==
  /\ pc[r] = "booted"
  /\ pooled' = sess[r] /\ Goto(r, "joining")
  /\ UNCHANGED <<status, started, open, closing, lock, rowVars, sess, recovers, restarts>>

\* The status of the copy, booting or active, allows this; the row may have moved on.
Join(r) ==
  /\ pc[r] = "joining"
  /\ Write(row[r], "active")
  /\ Goto(r, IF r \in recovers THEN "retrying" ELSE "ended")
  /\ UNCHANGED <<sessionVars, rowVars, sess, recovers, restarts>>

----------------------------------------------------------------------------
\* PromptAgent, also under SendMessage.

Lookup(r) ==
  /\ \/ pc[r] = "idle" /\ Goto(r, IF pooled # None THEN "locking" ELSE "recovering")
     \/ pc[r] = "retrying" /\ Goto(r, IF pooled # None THEN "locking" ELSE "ended")
  /\ sess' = [sess EXCEPT ![r] = pooled]
  /\ UNCHANGED <<status, sessionVars, rowVars, recovers, restarts>>

\* recoverSession: the last usable row, if nobody has booted the agent meanwhile.
Recover(r) ==
  /\ pc[r] = "recovering"
  /\ \/ pooled # None /\ Goto(r, "retrying") /\ UNCHANGED <<rowVars, recovers>>
     \/ pooled = None /\ Reusable = {} /\ Goto(r, "ended") /\ UNCHANGED <<rowVars, recovers>>
     \/ /\ pooled = None
        /\ \E i \in Lasts(Reusable) :
             /\ Takes(r, i, status[i])
             /\ Goto(r, IF status[i] = "paused" THEN "resuming" ELSE "booting")
        /\ recovers' = recovers \cup {r}
  /\ UNCHANGED <<status, sessionVars, sess, restarts>>

\* Mutant: the flag of the session is not looked at.
BeginPromptAlways(r) ==
  /\ pc[r] = "locking" /\ lock[sess[r]] = None
  /\ lock' = [lock EXCEPT ![sess[r]] = r] /\ Goto(r, "prompting")
  /\ UNCHANGED <<status, pooled, started, open, closing, rowVars, sess, recovers, restarts>>

BeginPrompt(r) ==
  /\ pc[r] = "locking" /\ lock[sess[r]] = None
  /\ IF sess[r] \in closing
     THEN Goto(r, "ended") /\ UNCHANGED lock
     ELSE lock' = [lock EXCEPT ![sess[r]] = r] /\ Goto(r, "prompting")
  /\ UNCHANGED <<status, pooled, started, open, closing, rowVars, sess, recovers, restarts>>

Unlock(r) == lock' = [lock EXCEPT ![sess[r]] = None]

\* With an answer or an error; every fifth turn is noted in the member's row.
EndPrompt(r) ==
  /\ pc[r] = "prompting"
  /\ \/ Unlock(r) /\ Goto(r, "ended") /\ UNCHANGED rowVars
     \/ /\ sess[r] \in open
        /\ \E i \in Firsts(RowsIn({"active", "booting"})) : Takes(r, i, status[i])
        /\ Goto(r, "noting") /\ UNCHANGED lock
  /\ UNCHANGED <<status, pooled, started, open, closing, sess, recovers, restarts>>

\* persistTokenUsage: still under the session's mutex, and again the whole row.
NoteUsage(r) ==
  /\ pc[r] = "noting"
  /\ Write(row[r], copy[r]) /\ Unlock(r) /\ Goto(r, "ended")
  /\ UNCHANGED <<pooled, started, open, closing, rowVars, sess, recovers, restarts>>

----------------------------------------------------------------------------
\* RemoveAgent.

GetMember(r) ==
  /\ pc[r] = "idle"
  /\ \E i \in RowsIn(Statuses) : Takes(r, i, status[i])
  /\ Goto(r, "taking")
  /\ UNCHANGED <<status, sessionVars, sess, recovers, restarts>>

\* The session leaves the pool before its mutex is acquired.
TakeSession(r) ==
  /\ pc[r] = "taking"
  /\ sess' = [sess EXCEPT ![r] = IF copy[r] \in {"failed", "left"} THEN None ELSE pooled]
  /\ pooled' = None
  /\ IF copy[r] \in {"failed", "left"} \/ pooled = None
     THEN Takes(r, row[r], "left") /\ Goto(r, "writing")
     ELSE Goto(r, "asking") /\ UNCHANGED rowVars
  /\ UNCHANGED <<status, started, open, closing, lock, recovers, restarts>>

\* Mutant: a prompt in progress is not waited for.
BeginLeaveAtOnce(r) ==
  /\ pc[r] = "asking"
  /\ lock' = [lock EXCEPT ![sess[r]] = r] /\ closing' = closing \cup {sess[r]}
  /\ Goto(r, "leaving")
  /\ UNCHANGED <<status, pooled, started, open, rowVars, sess, recovers, restarts>>

BeginLeave(r) ==
  /\ pc[r] = "asking" /\ lock[sess[r]] = None
  /\ lock' = [lock EXCEPT ![sess[r]] = r] /\ closing' = closing \cup {sess[r]}
  /\ Goto(r, "leaving")
  /\ UNCHANGED <<status, pooled, started, open, rowVars, sess, recovers, restarts>>

\* Mutant: the error return of a refused transition keeps the mutex.
LeaveLocked(r) ==
  /\ pc[r] = "leaving"
  /\ \E next \in {"paused", "left"} :
       IF next \in MayBecome(copy[r])
       THEN Takes(r, row[r], next) /\ Unlock(r) /\ open' = open \ {sess[r]} /\ Goto(r, "writing")
       ELSE Goto(r, "ended") /\ UNCHANGED <<lock, open, rowVars>>
  /\ UNCHANGED <<status, pooled, started, closing, sess, recovers, restarts>>

\* The summary decides between paused and left; a refused transition is an
\* error, which leaves the client open and the row as it is.
Leave(r) ==
  /\ pc[r] = "leaving" /\ Unlock(r)
  /\ \E next \in {"paused", "left"} :
       IF next \in MayBecome(copy[r])
       THEN Takes(r, row[r], next) /\ open' = open \ {sess[r]} /\ Goto(r, "writing")
       ELSE Goto(r, "ended") /\ UNCHANGED <<open, rowVars>>
  /\ UNCHANGED <<status, pooled, started, closing, sess, recovers, restarts>>

WriteMember(r) ==
  /\ pc[r] = "writing"
  /\ Write(row[r], copy[r]) /\ Goto(r, "ended")
  /\ UNCHANGED <<sessionVars, rowVars, sess, recovers, restarts>>

----------------------------------------------------------------------------
\* threadapp.DeleteThread: CleanupThread, then the rows.

\* Mutant: the sessions stay in the pool while they are closed.
CleanupKeeps(r) ==
  /\ pc[r] = "idle" /\ pooled # None
  /\ sess' = [sess EXCEPT ![r] = pooled] /\ Goto(r, "cleaning")
  /\ UNCHANGED <<status, sessionVars, rowVars, recovers, restarts>>

Cleanup(r) ==
  /\ pc[r] = "idle"
  /\ sess' = [sess EXCEPT ![r] = pooled] /\ Goto(r, "cleaning")
  /\ pooled' = None
  /\ UNCHANGED <<status, started, open, closing, lock, rowVars, recovers, restarts>>

CloseAll(r) ==
  /\ pc[r] = "cleaning"
  /\ open' = open \ {sess[r]} /\ Goto(r, "deleting")
  /\ UNCHANGED <<status, pooled, started, closing, lock, rowVars, sess, recovers, restarts>>

DeleteRows(r) ==
  /\ pc[r] = "deleting"
  /\ status' = [i \in Rows |-> "deleted"] /\ Goto(r, "ended")
  /\ UNCHANGED <<sessionVars, rowVars, sess, recovers, restarts>>

\* The server goes down (ThreadSessionPool.Close or a crash) and comes back.
Restart ==
  /\ restarts < MaxRestarts
  /\ restarts' = restarts + 1
  /\ pooled' = None /\ open' = {}
  /\ lock' = [s \in Sessions |-> None]
  /\ pc' = [r \in Callers |-> IF pc[r] = "idle" THEN "idle" ELSE "ended"]
  /\ UNCHANGED <<status, started, closing, row, copy, sess, recovers>>

----------------------------------------------------------------------------
Starts(r) == InviteReads(r) \/ (pc[r] = "idle" /\ Lookup(r)) \/ GetMember(r) \/ Cleanup(r)
Continues(r) ==
  \/ Resume(r) \/ CheckReady(r) \/ AddMember(r)
  \/ Boot(r) \/ BootFails(r) \/ PoolSession(r) \/ Join(r)
  \/ (pc[r] # "idle" /\ Lookup(r)) \/ Recover(r) \/ BeginPrompt(r) \/ EndPrompt(r) \/ NoteUsage(r)
  \/ TakeSession(r) \/ BeginLeave(r) \/ Leave(r) \/ WriteMember(r)
  \/ CloseAll(r) \/ DeleteRows(r)

Next == Restart \/ \E r \in Callers : Starts(r) \/ Continues(r)

Spec == Init /\ [][Next]_vars

\* Calls are goroutines, boots and prompts have timeouts, so their steps are
\* taken.  The summary RemoveAgent asks for has none: that prompt need not return
\* while its agent lives.
Bounded(r) == Continues(r) /\ (pc[r] = "leaving" => sess[r] \notin open)
FairSpec == Spec /\ \A r \in Callers : WF_vars(Bounded(r))

----------------------------------------------------------------------------
Locations ==
  {"idle", "resuming", "checking", "adding", "booting", "booted", "joining", "retrying",
   "locking", "recovering", "prompting", "noting", "taking", "asking", "leaving", "writing",
   "cleaning", "deleting", "ended"}

\* Types, and that a call which boots, writes or prompts has its row, its session
\* and, while it talks to the agent, the session's mutex.
TypeOK ==
  /\ status \in [Rows -> Statuses \cup {"none", "deleted"}]
  /\ started \in 0..MaxSessions /\ pooled \in 1..started \cup {None}
  /\ open \in SUBSET (1..started) /\ closing \in SUBSET (1..started)
  /\ lock \in [Sessions -> Callers \cup {None}]
  /\ pc \in [Callers -> Locations]
  /\ row \in [Callers -> Rows \cup {None}] /\ copy \in [Callers -> Statuses \cup {None}]
  /\ sess \in [Callers -> 1..started \cup {None}]
  /\ recovers \in SUBSET Callers /\ restarts \in 0..MaxRestarts
  /\ \A r \in Callers :
       /\ pc[r] \in {"resuming", "checking", "booting", "booted", "joining", "noting", "taking", "asking",
                     "leaving", "writing"} => row[r] # None /\ copy[r] # None
       /\ pc[r] \in {"booted", "joining", "locking", "prompting", "noting", "asking", "leaving"}
            => sess[r] # None
       /\ pc[r] \in {"prompting", "noting", "leaving"} => lock[sess[r]] = r

\* The pool never hands out a closed client: a session leaves the pool before
\* it is closed, and only then (RemoveAgent, CleanupThread).
PooledIsOpen == pooled # None => pooled \in open

\* Once an agent has been told to leave no prompt reaches it any more, although
\* calls that looked it up before are still waiting for its mutex.
NoPromptWhileLeaving == \A r \in Callers : pc[r] = "prompting" => sess[r] \notin closing

\* "SendMessage and RemoveAgent cannot deadlock" (thread_session_pool.go:34-36):
\* every call returns, unless its own agent never answers a request for its summary.
AwaitsSummary(r) == \E q \in Callers : pc[q] = "leaving" /\ sess[q] = sess[r]
CallsReturn ==
  \A r \in Callers :
    pc[r] \notin {"idle", "adding", "ended"} ~> pc[r] = "ended" \/ []AwaitsSummary(r)

----------------------------------------------------------------------------
\* "expected left -> active to be rejected" (core/thread_test.go:46): who has left
\* does not come back.  Expected to fail: the table is asked about a stale copy.
LeftStaysLeft == [][\A i \in Rows : status[i] = "left" => status'[i] # "active"]_vars
=============================================================================
