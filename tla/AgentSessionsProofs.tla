------------------------ MODULE AgentSessionsProofs ------------------------
(***************************************************************************)
(* Proofs about the session pool, for any number of runs and any limits:   *)
(* its state keeps its types, one run leads the flight, and no agent       *)
(* process is lost; who holds a session's mutex, and where events go.      *)
(***************************************************************************)
EXTENDS AgentSessions, TLAPS

USE SessionAssumption DEF Sessions, Acquiring, Using, MissesPool, Goto, Uses, Unlock, poolVars, sessionVars

LEMMA InitType == Init => TypeOK
  BY DEF Init, TypeOK

\* What it takes to move one run to another place.
Placed(l, r) ==
  /\ l \in Using \cup {"evicting", "dropping"} => sess'[r] # None
  /\ l \in {"leaving", "landed"} => sess'[r] # None \/ result'[r] = "error"
  /\ l \in {"created", "dropping"} => made'[r] # None
  /\ l = "waiting" => awaits'[r] \in Runs
  /\ l = "prompting" => lock'[sess'[r]] = r
  /\ l \in {"creating", "created", "dropping", "leaving", "landed"} <=> inflight' = r

Clauses ==
  /\ \A r \in Runs : pc[r] \in Using \cup {"evicting", "dropping"} => sess[r] # None
  /\ \A r \in Runs : pc[r] \in {"leaving", "landed"} => sess[r] # None \/ result[r] = "error"
  /\ \A r \in Runs : pc[r] \in {"created", "dropping"} => made[r] # None
  /\ \A r \in Runs : pc[r] = "waiting" => awaits[r] \in Runs
  /\ \A r \in Runs : pc[r] = "prompting" => lock[sess[r]] = r
  /\ \A r \in Runs : pc[r] \in {"creating", "created", "dropping", "leaving", "landed"} <=> inflight = r

\* The other runs stay where they are, with what they have.
LEMMA Moved ==
  ASSUME TypeOK, NEW r \in Runs, NEW l \in {"idle", "ended"} \cup Acquiring \cup Using,
         pc' = [pc EXCEPT ![r] = l], Placed(l, r),
         \A q \in Runs \ {r} : sess'[q] = sess[q] /\ made'[q] = made[q] /\ awaits'[q] = awaits[q],
         \A q \in Runs \ {r} : result'[q] = result[q],
         \A q \in Runs \ {r} : pc[q] = "prompting" => lock'[sess[q]] = lock[sess[q]],
         \A q \in Runs \ {r} : inflight' = q <=> inflight = q
  PROVE  Clauses'
  <1>1. pc'[r] = l /\ \A q \in Runs \ {r} : pc'[q] = pc[q]
    BY DEF TypeOK
  <1>2. \A q \in Runs \ {r} :
          /\ pc'[q] \in Using \cup {"evicting", "dropping"} => sess'[q] # None
          /\ pc'[q] \in {"leaving", "landed"} => sess'[q] # None \/ result'[q] = "error"
          /\ pc'[q] \in {"created", "dropping"} => made'[q] # None
          /\ pc'[q] = "waiting" => awaits'[q] \in Runs
          /\ pc'[q] = "prompting" => lock'[sess'[q]] = q
          /\ pc'[q] \in {"creating", "created", "dropping", "leaving", "landed"} <=> inflight' = q
    BY <1>1 DEF TypeOK
  <1> QED BY <1>1, <1>2 DEF Clauses, Placed

LEMMA AcquireType ==
  ASSUME TypeOK, NEW r \in Runs, Acquire(r) PROVE TypeOK'
  <1>1. CASE Reuse(r)
    BY <1>1 DEF TypeOK, Reuse
  <1>2. CASE Evict(r)
    BY <1>2 DEF TypeOK, Evict
  <1>3. CASE CloseEvicted(r)
    BY <1>3 DEF TypeOK, CloseEvicted
  <1>4. CASE JoinFlight(r)
    BY <1>4 DEF TypeOK, JoinFlight
  <1>5. CASE LeadFlight(r)
    BY <1>5 DEF TypeOK, LeadFlight
  <1>6. CASE Create(r)
    BY <1>6 DEF TypeOK, Create
  <1>7. CASE CreateFails(r)
    BY <1>7 DEF TypeOK, CreateFails
  <1>8. CASE Insert(r)
    <2>7. pooled' \in 1..created \cup {None} /\ created' = created
      BY <1>8 DEF TypeOK, Insert
    <2>8. sess' = [sess EXCEPT ![r] = made[r]] \/ sess' = [sess EXCEPT ![r] = pooled]
      BY <1>8 DEF Insert
    <2>1. pooled' \in 1..created' \cup {None} /\ sess' \in [Runs -> 1..created' \cup {None}]
      <3>1. made[r] \in 1..created \cup {None} /\ pooled \in 1..created \cup {None}
        BY DEF TypeOK
      <3>2. sess \in [Runs -> 1..created \cup {None}]
        BY DEF TypeOK
      <3> QED BY <2>7, <2>8, <3>1, <3>2
    <2>2. PICK l \in {"leaving", "dropping"} : pc' = [pc EXCEPT ![r] = l]
      BY <1>8 DEF Insert
    <2>3. sess'[r] # None /\ made[r] # None /\ inflight = r
      BY <1>8 DEF TypeOK, Insert
    <2>4. Placed(l, r)
      BY <1>8, <2>2, <2>3 DEF Placed, Insert
    <2>5. Clauses'
      BY <1>8, <2>2, <2>4, Moved DEF TypeOK, Insert
    <2>6. pc' \in [Runs -> {"idle", "ended"} \cup Acquiring \cup Using]
      BY <2>2 DEF TypeOK
    <2> QED BY <1>8, <2>1, <2>5, <2>6 DEF TypeOK, Insert, Clauses
  <1>9. CASE Drop(r)
    BY <1>9 DEF TypeOK, Drop
  <1>10. CASE Land(r)
    BY <1>10 DEF TypeOK, Land
  <1>11. CASE Forget(r)
    <2>1. PICK l \in {"ended", "held"} : pc' = [pc EXCEPT ![r] = l] /\ (l = "held" => result[r] # "error")
      BY <1>11 DEF Forget
    <2>2. inflight = r /\ inflight' = None
      BY <1>11 DEF TypeOK, Forget
    <2>3. l = "held" => sess[r] # None
      BY <1>11, <2>1 DEF TypeOK, Forget
    <2>4. Placed(l, r)
      BY <1>11, <2>1, <2>2, <2>3 DEF Placed, Forget
    <2>5. Clauses'
      <3>1. \A q \in Runs \ {r} : inflight' = q <=> inflight = q
        BY <2>2
      <3> QED BY <1>11, <2>1, <2>4, <3>1, Moved DEF Forget
    <2>6. pc' \in [Runs -> {"idle", "ended"} \cup Acquiring \cup Using]
      BY <2>1 DEF TypeOK
    <2> QED BY <1>11, <2>2, <2>5, <2>6 DEF TypeOK, Forget, Clauses
  <1>12. CASE WaitReturns(r)
    <2>1. PICK l \in {"ended", "held"} : pc' = [pc EXCEPT ![r] = l] /\ (l = "held" => sess'[r] # None)
      BY <1>12 DEF TypeOK, WaitReturns
    <2>2. sess' \in [Runs -> 1..created \cup {None}] /\ result' \in [Runs -> {None, "text", "error"}]
      BY <1>12 DEF TypeOK, WaitReturns
    <2>3. Placed(l, r)
      BY <1>12, <2>1 DEF TypeOK, Placed, WaitReturns
    <2>4. \A q \in Runs \ {r} : sess'[q] = sess[q] /\ result'[q] = result[q]
      BY <1>12 DEF TypeOK, WaitReturns
    <2>5. Clauses'
      BY <1>12, <2>1, <2>3, <2>4, Moved DEF WaitReturns
    <2>6. pc' \in [Runs -> {"idle", "ended"} \cup Acquiring \cup Using]
      BY <2>1 DEF TypeOK
    <2> QED BY <1>12, <2>2, <2>5, <2>6 DEF TypeOK, WaitReturns, Clauses
  <1> QED BY <1>1, <1>2, <1>3, <1>4, <1>5, <1>6, <1>7, <1>8, <1>9, <1>10, <1>11, <1>12 DEF Acquire

LEMMA ExecuteType ==
  ASSUME TypeOK, NEW r \in Runs, Execute(r) PROVE TypeOK'
  <1>1. CASE Collect(r)
    BY <1>1 DEF TypeOK, Collect
  <1>2. CASE BeginPrompt(r)
    <2>1. Placed("prompting", r)
      <3>1. pc[r] = "locking" /\ sess[r] \in 1..created /\ sess[r] \in Sessions
        BY <1>2 DEF TypeOK, BeginPrompt
      <3>2. lock'[sess[r]] = r
        BY <1>2, <3>1 DEF TypeOK, BeginPrompt
      <3>3. inflight # r
        BY <3>1 DEF TypeOK
      <3> QED BY <1>2, <3>1, <3>2, <3>3 DEF Placed, BeginPrompt
    <2>2. \A q \in Runs \ {r} : result'[q] = result[q]
                              /\ (pc[q] = "prompting" => lock'[sess[q]] = lock[sess[q]])
      BY <1>2 DEF TypeOK, BeginPrompt
    <2>3. Clauses'
      BY <1>2, <2>1, <2>2, Moved DEF BeginPrompt
    <2>4. lock' \in [Sessions -> Runs \cup {None}] /\ pc' \in [Runs -> {"idle", "ended"} \cup Acquiring \cup Using]
      BY <1>2 DEF TypeOK, BeginPrompt
    <2> QED BY <1>2, <2>3, <2>4 DEF TypeOK, BeginPrompt, Clauses
  <1>3. CASE Refuse(r)
    <2>1. Placed("finishing", r)
      BY <1>3 DEF TypeOK, Placed, Refuse
    <2>2. \A q \in Runs \ {r} : result'[q] = result[q]
                              /\ (pc[q] = "prompting" => lock'[sess[q]] = lock[sess[q]])
      BY <1>3 DEF TypeOK, Refuse
    <2>3. Clauses'
      BY <1>3, <2>1, <2>2, Moved DEF Refuse
    <2>4. lock' \in [Sessions -> Runs \cup {None}] /\ pc' \in [Runs -> {"idle", "ended"} \cup Acquiring \cup Using] /\ result' \in [Runs -> {None, "text", "error"}]
      BY <1>3 DEF TypeOK, Refuse
    <2> QED BY <1>3, <2>3, <2>4 DEF TypeOK, Refuse, Clauses
  <1>4. CASE PromptReturns(r)
    <2>1. Placed("noting", r)
      BY <1>4 DEF TypeOK, Placed, PromptReturns
    <2>2. \A q \in Runs \ {r} : result'[q] = result[q]
                              /\ (pc[q] = "prompting" => lock'[sess[q]] = lock[sess[q]])
      BY <1>4 DEF TypeOK, PromptReturns
    <2>3. Clauses'
      BY <1>4, <2>1, <2>2, Moved DEF PromptReturns
    <2>4. lock' \in [Sessions -> Runs \cup {None}] /\ pc' \in [Runs -> {"idle", "ended"} \cup Acquiring \cup Using]
      BY <1>4 DEF TypeOK, PromptReturns
    <2> QED BY <1>4, <2>3, <2>4 DEF TypeOK, PromptReturns, Clauses
  <1>5. CASE PromptFails(r)
    <2>1. Placed("invalidating", r)
      BY <1>5 DEF TypeOK, Placed, PromptFails
    <2>2. \A q \in Runs \ {r} : pc[q] = "prompting" => lock'[sess[q]] = lock[sess[q]]
      BY <1>5 DEF TypeOK, PromptFails
    <2>3. Clauses'
      BY <1>5, <2>1, <2>2, Moved DEF PromptFails
    <2>4. lock' \in [Sessions -> Runs \cup {None}] /\ pc' \in [Runs -> {"idle", "ended"} \cup Acquiring \cup Using]
      BY <1>5 DEF TypeOK, PromptFails
    <2> QED BY <1>5, <2>3, <2>4 DEF TypeOK, PromptFails, Clauses
  <1>6. CASE Invalidate(r)
    BY <1>6 DEF TypeOK, Invalidate
  <1>7. CASE CloseInvalid(r)
    BY <1>7 DEF TypeOK, CloseInvalid
  <1>8. CASE NoteTurn(r)
    <2>1. Placed("counting", r)
      BY <1>8 DEF TypeOK, Placed, NoteTurn
    <2>2. \A q \in Runs \ {r} : result'[q] = result[q]
      BY <1>8 DEF TypeOK, NoteTurn
    <2>3. Clauses'
      BY <1>8, <2>1, <2>2, Moved DEF NoteTurn
    <2>4. turns' \in [Sessions -> Nat] /\ pc' \in [Runs -> {"idle", "ended"} \cup Acquiring \cup Using]
      BY <1>8 DEF TypeOK, NoteTurn
    <2> QED BY <1>8, <2>3, <2>4 DEF TypeOK, NoteTurn, Clauses
  <1>9. CASE NoteTokens(r)
    <2>1. Placed("finishing", r)
      BY <1>9 DEF TypeOK, Placed, NoteTokens
    <2>2. \A q \in Runs \ {r} : result'[q] = result[q]
      BY <1>9 DEF TypeOK, NoteTokens
    <2>3. Clauses'
      BY <1>9, <2>1, <2>2, Moved DEF NoteTokens
    <2>4. tokens' \in [Sessions -> Nat] /\ pc' \in [Runs -> {"idle", "ended"} \cup Acquiring \cup Using] /\ result' \in [Runs -> {None, "text", "error"}]
      BY <1>9 DEF TypeOK, NoteTokens
    <2> QED BY <1>9, <2>3, <2>4 DEF TypeOK, NoteTokens, Clauses
  <1>10. CASE Finish(r)
    BY <1>10 DEF TypeOK, Finish
  <1> QED BY <1>1, <1>2, <1>3, <1>4, <1>5, <1>6, <1>7, <1>8, <1>9, <1>10 DEF Execute

LEMMA StepType == TypeOK /\ [Next]_vars => TypeOK'
  <1> SUFFICES ASSUME TypeOK, [Next]_vars PROVE TypeOK'
    OBVIOUS
  <1>1. CASE UNCHANGED vars
    BY <1>1 DEF TypeOK, vars
  <1>2. CASE Cleanup
    BY <1>2 DEF TypeOK, Cleanup
  <1>3. CASE \E r \in Runs : Acquire(r) \/ Execute(r)
    BY <1>3, AcquireType, ExecuteType
  <1> QED BY <1>1, <1>2, <1>3 DEF Next

\* The state of the pool and of the runs keeps its types; a run that executes
\* has a session, holds its mutex while it prompts, and the flight has one leader.
THEOREM SessionsTypeCorrect == Spec => []TypeOK
  BY InitType, StepType, PTL DEF Spec

----------------------------------------------------------------------------
LEMMA AcquireLosesNone ==
  ASSUME TypeOK, NoProcessLost, NEW r \in Runs, Acquire(r) PROVE NoProcessLost'
  <1>1. CASE Reuse(r)
    BY <1>1 DEF TypeOK, NoProcessLost, Reuse
  <1>2. CASE Evict(r)
    BY <1>2 DEF TypeOK, NoProcessLost, Evict
  <1>3. CASE CloseEvicted(r)
    BY <1>3 DEF TypeOK, NoProcessLost, CloseEvicted
  <1>4. CASE JoinFlight(r)
    BY <1>4 DEF TypeOK, NoProcessLost, JoinFlight
  <1>5. CASE LeadFlight(r)
    BY <1>5 DEF TypeOK, NoProcessLost, LeadFlight
  <1>6. CASE Create(r)
    <2>1. ASSUME NEW s \in open
          PROVE  \/ s = pooled
                 \/ \E q \in Runs : pc'[q] \in {"evicting", "closing"} /\ sess[q] = s
                 \/ \E q \in Runs : pc'[q] \in {"created", "dropping"} /\ made'[q] = s
      BY <1>6 DEF TypeOK, NoProcessLost, Create
    <2>2. pc'[r] = "created" /\ made'[r] = created + 1
      BY <1>6 DEF TypeOK, Create
    <2> QED BY <1>6, <2>1, <2>2 DEF NoProcessLost, Create
  <1>7. CASE CreateFails(r)
    BY <1>7 DEF TypeOK, NoProcessLost, CreateFails
  <1>8. CASE Insert(r)
    <2>1. CASE pooled = None
      <3>1. pooled' = made[r] /\ pc' = [pc EXCEPT ![r] = "leaving"] /\ sess' = [sess EXCEPT ![r] = made[r]]
        BY <1>8, <2>1 DEF Insert
      <3>2. open' = open /\ made' = made /\ pc[r] = "created"
        BY <1>8 DEF Insert
      <3>3. \A q \in Runs \ {r} : pc'[q] = pc[q] /\ sess'[q] = sess[q]
        BY <3>1 DEF TypeOK
      <3>4. ASSUME NEW s \in open, s # made[r]
            PROVE  \E q \in Runs \ {r} : \/ pc[q] \in {"evicting", "closing"} /\ sess[q] = s
                                         \/ pc[q] \in {"created", "dropping"} /\ made[q] = s
        <4>1. s # pooled
          BY <2>1, <3>4 DEF TypeOK
        <4> QED BY <3>2, <3>4, <4>1 DEF NoProcessLost
      <3> QED BY <3>1, <3>2, <3>3, <3>4 DEF NoProcessLost
    <2>2. CASE pooled # None
      <3>1. pooled' = pooled /\ pc' = [pc EXCEPT ![r] = "dropping"] /\ sess' = [sess EXCEPT ![r] = pooled]
        BY <1>8, <2>2 DEF Insert
      <3> QED BY <1>8, <2>2, <3>1 DEF TypeOK, NoProcessLost, Insert
    <2> QED BY <2>1, <2>2
  <1>9. CASE Drop(r)
    BY <1>9 DEF TypeOK, NoProcessLost, Drop
  <1>10. CASE Land(r)
    BY <1>10 DEF TypeOK, NoProcessLost, Land
  <1>11. CASE Forget(r)
    BY <1>11 DEF TypeOK, NoProcessLost, Forget
  <1>12. CASE WaitReturns(r)
    <2>1. \A q \in Runs \ {r} : pc'[q] = pc[q] /\ sess'[q] = sess[q]
      BY <1>12 DEF TypeOK, WaitReturns
    <2> QED BY <1>12, <2>1 DEF NoProcessLost, WaitReturns
  <1> QED BY <1>1, <1>2, <1>3, <1>4, <1>5, <1>6, <1>7, <1>8, <1>9, <1>10, <1>11, <1>12 DEF Acquire

LEMMA ExecuteLosesNone ==
  ASSUME TypeOK, NoProcessLost, NEW r \in Runs, Execute(r) PROVE NoProcessLost'
  <1>1. CASE Collect(r)
    BY <1>1 DEF TypeOK, NoProcessLost, Collect
  <1>2. CASE BeginPrompt(r)
    BY <1>2 DEF TypeOK, NoProcessLost, BeginPrompt
  <1>3. CASE Refuse(r)
    BY <1>3 DEF TypeOK, NoProcessLost, Refuse
  <1>4. CASE PromptReturns(r)
    BY <1>4 DEF TypeOK, NoProcessLost, PromptReturns
  <1>5. CASE PromptFails(r)
    BY <1>5 DEF TypeOK, NoProcessLost, PromptFails
  <1>6. CASE Invalidate(r)
    BY <1>6 DEF TypeOK, NoProcessLost, Invalidate
  <1>7. CASE CloseInvalid(r)
    BY <1>7 DEF TypeOK, NoProcessLost, CloseInvalid
  <1>8. CASE NoteTurn(r)
    BY <1>8 DEF TypeOK, NoProcessLost, NoteTurn
  <1>9. CASE NoteTokens(r)
    BY <1>9 DEF TypeOK, NoProcessLost, NoteTokens
  <1>10. CASE Finish(r)
    BY <1>10 DEF TypeOK, NoProcessLost, Finish
  <1> QED BY <1>1, <1>2, <1>3, <1>4, <1>5, <1>6, <1>7, <1>8, <1>9, <1>10 DEF Execute

LEMMA StepLosesNone == TypeOK /\ NoProcessLost /\ [Next]_vars => NoProcessLost'
  <1> SUFFICES ASSUME TypeOK, NoProcessLost, [Next]_vars PROVE NoProcessLost'
    OBVIOUS
  <1>1. CASE UNCHANGED vars
    BY <1>1 DEF NoProcessLost, vars
  <1>2. CASE Cleanup
    BY <1>2 DEF NoProcessLost, Cleanup
  <1>3. CASE \E r \in Runs : Acquire(r) \/ Execute(r)
    BY <1>3, AcquireLosesNone, ExecuteLosesNone
  <1> QED BY <1>1, <1>2, <1>3 DEF Next

\* Whatever runs evict, create, invalidate and clean up in between, an open
\* client is the pooled one or in the hands of a run that pools or closes it.
THEOREM NoProcessLostCorrect == Spec => []NoProcessLost
  <1>1. Init => NoProcessLost
    BY DEF Init, NoProcessLost
  <1> QED BY <1>1, InitType, StepType, StepLosesNone, PTL DEF Spec

----------------------------------------------------------------------------
\* What the code keeps of two sentences that shared sessions break.

\* Only a refused run keeps the mutex of a session beyond its prompt.
PromptOrSpent ==
  \A s \in Sessions : lock[s] # None =>
    \/ pc[lock[s]] = "prompting" /\ sess[lock[s]] = s
    \/ Exceeded(s)

LEMMA StepMutex == TypeOK /\ PromptOrSpent /\ [Next]_vars => PromptOrSpent'
  <1> SUFFICES ASSUME TypeOK, PromptOrSpent, [Next]_vars PROVE PromptOrSpent'
    OBVIOUS
  <1> USE DEF PromptOrSpent, Exceeded
  <1>1. CASE UNCHANGED vars
    BY <1>1 DEF vars
  <1>2. CASE Cleanup
    BY <1>2 DEF Cleanup
  <1>3. ASSUME NEW r \in Runs, Acquire(r) PROVE PromptOrSpent'
    <2>1. UNCHANGED <<lock, tokens>> /\ pc[r] # "prompting"
      BY <1>3 DEF Acquire, Reuse, Evict, CloseEvicted, JoinFlight, LeadFlight, Create,
         CreateFails, Insert, Drop, Land, Forget, WaitReturns
    <2>2. \A q \in Runs \ {r} : pc'[q] = pc[q] /\ sess'[q] = sess[q]
      BY <1>3 DEF TypeOK, Acquire, Reuse, Evict, CloseEvicted, JoinFlight, LeadFlight, Create,
         CreateFails, Insert, Drop, Land, Forget, WaitReturns
    <2>3. \A s \in Sessions : lock[s] \in Runs \cup {None}
      BY DEF TypeOK
    <2> QED BY <2>1, <2>2, <2>3
  <1>4. ASSUME NEW r \in Runs, Execute(r) PROVE PromptOrSpent'
    <2>1. CASE Collect(r)
      BY <2>1 DEF TypeOK, Collect
    <2>2. CASE BeginPrompt(r)
      BY <2>2 DEF TypeOK, BeginPrompt
    <2>3. CASE Refuse(r)
      BY <2>3 DEF TypeOK, Refuse
    <2>4. CASE PromptReturns(r)
      BY <2>4 DEF TypeOK, PromptReturns
    <2>5. CASE PromptFails(r)
      BY <2>5 DEF TypeOK, PromptFails
    <2>6. CASE Invalidate(r)
      BY <2>6 DEF TypeOK, Invalidate
    <2>7. CASE CloseInvalid(r)
      BY <2>7 DEF TypeOK, CloseInvalid
    <2>8. CASE NoteTurn(r)
      BY <2>8 DEF TypeOK, NoteTurn
    <2>9. CASE NoteTokens(r)
      <3>1. \A s \in Sessions : tokens[s] \in Nat /\ tokens'[s] \in Nat /\ tokens'[s] >= tokens[s]
        BY <2>9 DEF TypeOK, NoteTokens
      <3>2. MaxTokens \in Nat
        OBVIOUS
      <3> QED BY <2>9, <3>1, <3>2 DEF TypeOK, NoteTokens
    <2>10. CASE Finish(r)
      BY <2>10 DEF TypeOK, Finish
    <2> QED BY <1>4, <2>1, <2>2, <2>3, <2>4, <2>5, <2>6, <2>7, <2>8, <2>9, <2>10 DEF Execute
  <1> QED BY <1>1, <1>2, <1>3, <1>4 DEF Next

\* Until the token budget of a session is spent, its mutex is held by nobody but a
\* run that prompts it: no error, eviction, invalidation or cleanup leaves it
\* locked, so the refusal of an exceeded budget is the only way to the deadlock
\* (pooledACPSession.mu in executeRun).
THEOREM MutexHeldByPrompts == Spec => []PromptOrSpent
  <1>1. Init => PromptOrSpent
    BY DEF Init, PromptOrSpent
  <1> QED BY <1>1, InitType, StepType, StepMutex, PTL DEF Spec

\* No two runs use one session at a time.
Unshared ==
  \A r, q \in Runs : pc[r] \in Using /\ pc[q] \in Using /\ sess[r] = sess[q] => r = q
CollectorIsOwn == \A r \in Runs : pc[r] \in {"locking", "prompting"} => handler[sess[r]] = r

LEMMA StepCollector == TypeOK /\ Unshared /\ CollectorIsOwn /\ [Next]_vars => CollectorIsOwn'
  <1> SUFFICES ASSUME TypeOK, Unshared, CollectorIsOwn, [Next]_vars PROVE CollectorIsOwn'
    OBVIOUS
  <1> USE DEF CollectorIsOwn
  <1>1. CASE UNCHANGED vars
    BY <1>1 DEF vars
  <1>2. CASE Cleanup
    BY <1>2 DEF Cleanup
  <1>3. ASSUME NEW r \in Runs, Acquire(r) PROVE CollectorIsOwn'
    <2>1. UNCHANGED handler /\ pc'[r] \notin {"locking", "prompting"}
      BY <1>3 DEF TypeOK, Acquire, Reuse, Evict, CloseEvicted, JoinFlight, LeadFlight, Create,
         CreateFails, Insert, Drop, Land, Forget, WaitReturns
    <2>2. \A q \in Runs \ {r} : pc'[q] = pc[q] /\ sess'[q] = sess[q]
      BY <1>3 DEF TypeOK, Acquire, Reuse, Evict, CloseEvicted, JoinFlight, LeadFlight, Create,
         CreateFails, Insert, Drop, Land, Forget, WaitReturns
    <2> QED BY <2>1, <2>2
  <1>4. ASSUME NEW r \in Runs, Execute(r) PROVE CollectorIsOwn'
    <2>1. sess' = sess /\ \A q \in Runs \ {r} : pc'[q] = pc[q]
      BY <1>4 DEF TypeOK, Execute, Collect, BeginPrompt, Refuse, PromptReturns, PromptFails,
         Invalidate, CloseInvalid, NoteTurn, NoteTokens, Finish
    <2>2. pc[r] \in Using
      BY <1>4 DEF Execute, Collect, BeginPrompt, Refuse, PromptReturns, PromptFails,
         Invalidate, CloseInvalid, NoteTurn, NoteTokens, Finish
    <2>3. \A q \in Runs \ {r} : pc[q] \in Using => sess[q] # sess[r]
      BY <2>2 DEF Unshared
    <2>4. \A s \in Sessions : s # sess[r] => handler'[s] = handler[s]
      BY <1>4 DEF TypeOK, Execute, Collect, BeginPrompt, Refuse, PromptReturns, PromptFails,
         Invalidate, CloseInvalid, NoteTurn, NoteTokens, Finish
    <2>5. \A q \in Runs : pc[q] \in Using => sess[q] \in Sessions
      BY DEF TypeOK
    <2>6. ASSUME NEW q \in Runs \ {r}, pc'[q] \in {"locking", "prompting"}
          PROVE  handler'[sess'[q]] = q
      BY <2>1, <2>3, <2>4, <2>5, <2>6
    <2>7. pc'[r] \in {"locking", "prompting"} => handler'[sess'[r]] = r
      BY <1>4, <2>1, <2>5 DEF TypeOK, Execute, Collect, BeginPrompt, Refuse, PromptReturns,
         PromptFails, Invalidate, CloseInvalid, NoteTurn, NoteTokens, Finish
    <2> QED BY <2>6, <2>7
  <1> QED BY <1>1, <1>2, <1>3, <1>4 DEF Next

\* As long as no two runs use one session at a time, the events of a prompt go to
\* the collector of its run, whatever sessions are pooled, evicted, invalidated and
\* cleaned up (Collect, Finish).  Runs that share a session are what breaks it.
THEOREM EventsScopedUnlessShared == Spec /\ []Unshared => []EventsScoped
  <1>1. Init => CollectorIsOwn
    BY DEF Init, CollectorIsOwn
  <1>2. CollectorIsOwn => EventsScoped
    BY DEF CollectorIsOwn, EventsScoped
  <1> QED BY <1>1, <1>2, InitType, StepType, StepCollector, PTL DEF Spec
=============================================================================
