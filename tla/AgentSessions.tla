--------------------------- MODULE AgentSessions ---------------------------
(***************************************************************************)
(* Runs executed in the server's own process: LocalSessionManager on top   *)
(* of ACPSessionPool.  The pool keeps one agent process per (work item,    *)
(* profile); this module is one such key, shared by concurrent runs.  A    *)
(* step is what happens under one hold of the pool's mutex, or between     *)
(* two of them: clients are closed, created and prompted outside the lock. *)
(***************************************************************************)
EXTENDS Naturals, FiniteSets

CONSTANTS
  Runs,
  MaxSessions,   \* bound: processes created for the key
  MaxTurns,      \* profile.Session.MaxTurns
  MaxTokens,     \* profile.Session.MaxContextTokens, in prompts that use tokens
  None

ASSUME SessionAssumption ==
  /\ MaxSessions \in Nat /\ MaxTurns \in Nat \ {0} /\ MaxTokens \in Nat \ {0}
  /\ None \notin Runs \cup Nat

Sessions == 1..MaxSessions

VARIABLES
  pooled,    \* p.sessions[key]
  inflight,  \* p.inflight[key]: the run that creates a session, None without flight
  landed,    \* runs whose flight.wg.Done has happened
  made,      \* made[r]: flight.sess of the flight of r
  created,   \* how many processes were started
  open,      \* sessions whose client is open
  turns,
  tokens,
  lock,      \* lock[s]: the run that holds pooledACPSession.mu
  handler,   \* handler[s]: the run whose collector receives the events
  pc,
  sess,      \* sess[r]: the session r uses, evicts or invalidates
  awaits,    \* awaits[r]: the flight r waits for
  result     \* result[r]: what WatchRun or the error of a call reports

poolVars == <<pooled, inflight, landed, made, created>>
sessionVars == <<open, turns, tokens, lock, handler>>
vars == <<poolVars, sessionVars, pc, sess, awaits, result>>

Init ==
  /\ pooled = None /\ inflight = None /\ landed = {} /\ created = 0 /\ open = {}
  /\ made = [r \in Runs |-> None]
  /\ turns = [s \in Sessions |-> 0] /\ tokens = [s \in Sessions |-> 0]
  /\ lock = [s \in Sessions |-> None] /\ handler = [s \in Sessions |-> None]
  /\ pc = [r \in Runs |-> "idle"]
  /\ sess = [r \in Runs |-> None] /\ awaits = [r \in Runs |-> None]
  /\ result = [r \in Runs |-> None]

Goto(r, l) == pc' = [pc EXCEPT ![r] = l]
Uses(r, s) == sess' = [sess EXCEPT ![r] = s]

----------------------------------------------------------------------------
\* ACPSessionPool.Acquire.

Reuse(r) ==
  /\ pc[r] = "idle" /\ pooled # None
  /\ turns[pooled] < MaxTurns
  /\ Uses(r, pooled) /\ Goto(r, "held")
  /\ UNCHANGED <<poolVars, sessionVars, awaits, result>>

\* Idle for too long (at any time) or out of turns: forgotten now, closed later.
Evict(r) ==
  /\ pc[r] = "idle" /\ pooled # None
  /\ Uses(r, pooled) /\ Goto(r, "evicting")
  /\ pooled' = None
  /\ UNCHANGED <<inflight, landed, made, created, sessionVars, awaits, result>>

CloseEvicted(r) ==
  /\ pc[r] = "evicting"
  /\ open' = open \ {sess[r]}
  /\ Uses(r, None) /\ Goto(r, "evicted")
  /\ UNCHANGED <<poolVars, turns, tokens, lock, handler, awaits, result>>

\* The second half of the locked section does not look at the pool again.
MissesPool(r) == (pc[r] = "idle" /\ pooled = None) \/ pc[r] = "evicted"

JoinFlight(r) ==
  /\ MissesPool(r)
  /\ inflight # None
  /\ awaits' = [awaits EXCEPT ![r] = inflight] /\ Goto(r, "waiting")
  /\ UNCHANGED <<poolVars, sessionVars, sess, result>>

\* Mutant: the flight in the map is not looked at.
LeadAlways(r) ==
  /\ MissesPool(r)
  /\ inflight' = r /\ Goto(r, "creating")
  /\ UNCHANGED <<pooled, landed, made, created, sessionVars, sess, awaits, result>>

LeadFlight(r) ==
  /\ MissesPool(r)
  /\ inflight = None
  /\ inflight' = r /\ Goto(r, "creating")
  /\ UNCHANGED <<pooled, landed, made, created, sessionVars, sess, awaits, result>>

Create(r) ==
  /\ pc[r] = "creating" /\ created < MaxSessions
  /\ created' = created + 1
  /\ made' = [made EXCEPT ![r] = created + 1]
  /\ open' = open \cup {created + 1}
  /\ Goto(r, "created")
  /\ UNCHANGED <<pooled, inflight, landed, turns, tokens, lock, handler, sess, awaits, result>>

CreateFails(r) ==
  /\ pc[r] = "creating"
  /\ result' = [result EXCEPT ![r] = "error"] /\ Goto(r, "leaving")
  /\ UNCHANGED <<poolVars, sessionVars, sess, awaits>>

\* Another session may have been pooled meanwhile: it wins, the own one goes.
Insert(r) ==
  /\ pc[r] = "created"
  /\ IF pooled = None
     THEN pooled' = made[r] /\ Uses(r, made[r]) /\ Goto(r, "leaving")
     ELSE Uses(r, pooled) /\ Goto(r, "dropping") /\ UNCHANGED pooled
  /\ UNCHANGED <<inflight, landed, made, created, sessionVars, awaits, result>>

Drop(r) ==
  /\ pc[r] = "dropping"
  /\ open' = open \ {made[r]} /\ Goto(r, "leaving")
  /\ UNCHANGED <<poolVars, turns, tokens, lock, handler, sess, awaits, result>>

\* Mutant: a flight that failed is not reported as done.
LandIfMade(r) ==
  /\ pc[r] = "leaving"
  /\ landed' = IF made[r] = None THEN landed ELSE landed \cup {r}
  /\ Goto(r, "landed")
  /\ UNCHANGED <<pooled, inflight, made, created, sessionVars, sess, awaits, result>>

\* The deferred function: wg.Done first, the entry of the flight later.
Land(r) ==
  /\ pc[r] = "leaving"
  /\ landed' = landed \cup {r} /\ Goto(r, "landed")
  /\ UNCHANGED <<pooled, inflight, made, created, sessionVars, sess, awaits, result>>

Forget(r) ==
  /\ pc[r] = "landed"
  /\ inflight' = None
  /\ Goto(r, IF result[r] = "error" THEN "ended" ELSE "held")
  /\ UNCHANGED <<pooled, landed, made, created, sessionVars, sess, awaits, result>>

\* A waiter takes what the flight created, even when its leader uses another.
WaitReturns(r) ==
  /\ pc[r] = "waiting" /\ awaits[r] \in landed
  /\ IF made[awaits[r]] = None
     THEN result' = [result EXCEPT ![r] = "error"] /\ Goto(r, "ended") /\ UNCHANGED sess
     ELSE Uses(r, made[awaits[r]]) /\ Goto(r, "held") /\ UNCHANGED result
  /\ UNCHANGED <<poolVars, sessionVars, awaits>>

----------------------------------------------------------------------------
\* LocalSessionManager.executeRun, under StartRun.

\* The collector is installed before the prompt's turn has come.
Collect(r) ==
  /\ pc[r] = "held"
  /\ handler' = [handler EXCEPT ![sess[r]] = r] /\ Goto(r, "locking")
  /\ UNCHANGED <<poolVars, open, turns, tokens, lock, sess, awaits, result>>

Exceeded(s) == tokens[s] >= MaxTokens

BeginPrompt(r) ==
  /\ pc[r] = "locking" /\ lock[sess[r]] = None
  /\ ~Exceeded(sess[r])
  /\ lock' = [lock EXCEPT ![sess[r]] = r] /\ Goto(r, "prompting")
  /\ UNCHANGED <<poolVars, open, turns, tokens, handler, sess, awaits, result>>

\* The token budget is spent: an error, and the mutex is not released.
Refuse(r) ==
  /\ pc[r] = "locking" /\ lock[sess[r]] = None
  /\ Exceeded(sess[r])
  /\ lock' = [lock EXCEPT ![sess[r]] = r]
  /\ result' = [result EXCEPT ![r] = "error"] /\ Goto(r, "finishing")
  /\ UNCHANGED <<poolVars, open, turns, tokens, handler, sess, awaits>>

Unlock(r) == lock' = [lock EXCEPT ![sess[r]] = None]

PromptReturns(r) ==
  /\ pc[r] = "prompting" /\ sess[r] \in open
  /\ Unlock(r) /\ Goto(r, "noting")
  /\ UNCHANGED <<poolVars, open, turns, tokens, handler, sess, awaits, result>>

\* Always possible, and the only outcome of a prompt to a closed client.
PromptFails(r) ==
  /\ pc[r] = "prompting"
  /\ Unlock(r) /\ Goto(r, "invalidating")
  /\ UNCHANGED <<poolVars, open, turns, tokens, handler, sess, awaits, result>>

\* Mutant: whatever session is pooled is taken for the failed one.
InvalidateKey(r) ==
  /\ pc[r] = "invalidating"
  /\ pooled' = None
  /\ Goto(r, "closing")
  /\ UNCHANGED <<inflight, landed, made, created, sessionVars, sess, awaits, result>>

Invalidate(r) ==
  /\ pc[r] = "invalidating"
  /\ pooled' = IF pooled = sess[r] THEN None ELSE pooled
  /\ Goto(r, "closing")
  /\ UNCHANGED <<inflight, landed, made, created, sessionVars, sess, awaits, result>>

CloseInvalid(r) ==
  /\ pc[r] = "closing"
  /\ open' = open \ {sess[r]}
  /\ result' = [result EXCEPT ![r] = "error"] /\ Goto(r, "finishing")
  /\ UNCHANGED <<poolVars, turns, tokens, lock, handler, sess, awaits>>

\* Turns and tokens are recorded after the next prompt may have started.
NoteTurn(r) ==
  /\ pc[r] = "noting"
  /\ turns' = [turns EXCEPT ![sess[r]] = @ + 1] /\ Goto(r, "counting")
  /\ UNCHANGED <<poolVars, open, tokens, lock, handler, sess, awaits, result>>

NoteTokens(r) ==
  /\ pc[r] = "counting"
  /\ \E used \in {0, 1} : tokens' = [tokens EXCEPT ![sess[r]] = @ + used]
  /\ result' = [result EXCEPT ![r] = "text"] /\ Goto(r, "finishing")
  /\ UNCHANGED <<poolVars, open, turns, lock, handler, sess, awaits>>

\* The deferred Set(nil), then the invocation is done.
Finish(r) ==
  /\ pc[r] = "finishing"
  /\ handler' = [handler EXCEPT ![sess[r]] = None] /\ Goto(r, "ended")
  /\ UNCHANGED <<poolVars, open, turns, tokens, lock, sess, awaits, result>>

----------------------------------------------------------------------------
\* A terminal event of the work item (watchWorkItemLifecycle), or Close:
\* the client is closed while runs may prompt it.
Cleanup ==
  /\ pooled # None
  /\ open' = open \ {pooled} /\ pooled' = None
  /\ UNCHANGED <<inflight, landed, made, created, turns, tokens, lock, handler, pc, sess, awaits, result>>

Acquire(r) == \/ Reuse(r) \/ Evict(r) \/ CloseEvicted(r) \/ JoinFlight(r) \/ LeadFlight(r)
              \/ Create(r) \/ CreateFails(r) \/ Insert(r) \/ Drop(r) \/ Land(r) \/ Forget(r)
              \/ WaitReturns(r)
Execute(r) == \/ Collect(r) \/ BeginPrompt(r) \/ Refuse(r) \/ PromptReturns(r) \/ PromptFails(r)
              \/ Invalidate(r) \/ CloseInvalid(r) \/ NoteTurn(r) \/ NoteTokens(r) \/ Finish(r)

Next == Cleanup \/ \E r \in Runs : Acquire(r) \/ Execute(r)

Spec == Init /\ [][Next]_vars

\* A run is a goroutine: once it has called Acquire it goes on, and prompts return.
FairSpec == Spec /\ \A r \in Runs : WF_vars(pc[r] # "idle" /\ (Acquire(r) \/ Execute(r)))

----------------------------------------------------------------------------
Acquiring == {"evicting", "evicted", "creating", "created", "dropping", "leaving", "landed", "waiting"}
Using == {"held", "locking", "prompting", "noting", "counting", "invalidating", "closing", "finishing"}

\* Types, and that a run that executes has a session which was created, holds
\* its mutex while it prompts, and leads the flight while it creates.
TypeOK ==
  /\ created \in 0..MaxSessions
  /\ pooled \in 1..created \cup {None} /\ inflight \in Runs \cup {None}
  /\ landed \in SUBSET Runs /\ open \in SUBSET (1..created)
  /\ made \in [Runs -> 1..created \cup {None}]
  /\ turns \in [Sessions -> Nat] /\ tokens \in [Sessions -> Nat]
  /\ lock \in [Sessions -> Runs \cup {None}] /\ handler \in [Sessions -> Runs \cup {None}]
  /\ pc \in [Runs -> {"idle", "ended"} \cup Acquiring \cup Using]
  /\ sess \in [Runs -> 1..created \cup {None}] /\ awaits \in [Runs -> Runs \cup {None}]
  /\ result \in [Runs -> {None, "text", "error"}]
  /\ \A r \in Runs : pc[r] \in Using \cup {"evicting", "dropping"} => sess[r] # None
  /\ \A r \in Runs : pc[r] \in {"leaving", "landed"} => sess[r] # None \/ result[r] = "error"
  /\ \A r \in Runs : pc[r] \in {"created", "dropping"} => made[r] # None
  /\ \A r \in Runs : pc[r] = "waiting" => awaits[r] \in Runs
  /\ \A r \in Runs : pc[r] = "prompting" => lock[sess[r]] = r
  /\ \A r \in Runs : pc[r] \in {"creating", "created", "dropping", "leaving", "landed"} <=> inflight = r

\* No agent process is lost: an open client is the pooled one, or some run has
\* it in its hands and is about to pool or to close it (Acquire's eviction and
\* double check, Invalidate).  In particular a late failure on an old session
\* never throws its successor out of the pool.
NoProcessLost ==
  \A s \in open :
    \/ s = pooled
    \/ \E r \in Runs : pc[r] \in {"evicting", "closing"} /\ sess[r] = s
    \/ \E r \in Runs : pc[r] \in {"created", "dropping"} /\ made[r] = s

\* Acquire returns, with a session or an error, whoever evicts, creates or fails
\* meanwhile: the leader of a flight always reports it as done.
AcquireReturns == \A r \in Runs : pc[r] \in Acquiring ~> pc[r] \in Using \cup {"ended"}

----------------------------------------------------------------------------
\* "Exceeded: returns ErrTokenBudgetExceeded, the step goes to blocked/retry"
\* (docs/spec/memory-system-design.md:353): a run on a spent session ends.
\* Expected to fail: the first refusal keeps the mutex, the retry waits for ever.
RunsEnd == \A r \in Runs : pc[r] = "locking" ~> pc[r] = "ended"

\* Events are "scoped to the current (work item, action, run) prompt"
\* (acp_session_pool.go:44-46).  Expected to fail: see Collect and Finish.
EventsScoped == \A r \in Runs : pc[r] = "prompting" => handler[sess[r]] = r
=============================================================================
