--------------------------- MODULE LeadChatProofs ---------------------------
(***************************************************************************)
(* Proofs about a chat, for any number of messages, clients and requests:  *)
(* its state keeps its types, it runs one prompt at a time, no agent       *)
(* process is left without an owner, and a message is stranded in two ways *)
(* only.                                                                   *)
(***************************************************************************)
EXTENDS LeadChat, TLAPS

USE LeadAssumption DEF Clients, Goto, InRun, Locations, sessionVars, runVars, adminVars

\* Who holds the run of the session: the message that is in it, or that has been
\* handed it by the one run that is ending.
Owner ==
  /\ \A m \in Messages : pc[m] \in InRun \cup {"taken"} => running = m
  /\ \A m \in Messages : pc[m] = "dispatching" => running # None /\ pc[running] = "taken"
  /\ \A m, n \in Messages : pc[m] = "dispatching" /\ pc[n] = "dispatching" => m = n

\* The message in the queue is in no other place.
Waiting == pending # None => pc[pending] = "queued"

LEMMA InitLead == Init => TypeOK /\ Owner /\ Waiting
  BY DEF Init, TypeOK, Owner, Waiting

LEMMA MessageWaiting ==
  ASSUME TypeOK, Owner, Waiting, NEW m \in Messages, Prepares(m) \/ Continues(m) PROVE Waiting'
  <1>1. CASE FindSession(m)
    BY <1>1 DEF TypeOK, Owner, Waiting, FindSession
  <1>2. CASE MissSession(m)
    BY <1>2 DEF TypeOK, Owner, Waiting, MissSession
  <1>3. CASE NoSession(m)
    BY <1>3 DEF TypeOK, Owner, Waiting, NoSession, End
  <1>4. CASE Launch(m)
    BY <1>4 DEF TypeOK, Owner, Waiting, Launch
  <1>5. CASE LaunchFails(m)
    BY <1>5 DEF TypeOK, Owner, Waiting, LaunchFails, End
  <1>6. CASE Install(m)
    BY <1>6 DEF TypeOK, Owner, Waiting, Install
  <1>7. CASE StopIdle(m)
    BY <1>7 DEF TypeOK, Owner, Waiting, StopIdle
  <1>8. CASE Ask(m)
    BY <1>8 DEF TypeOK, Owner, Waiting, Ask
  <1>9. CASE Queue(m)
    BY <1>9 DEF TypeOK, Owner, Waiting, Queue
  <1>10. CASE Begin(m)
    BY <1>10 DEF TypeOK, Owner, Waiting, Begin, Appended
  <1>11. CASE BeginRefused(m)
    BY <1>11 DEF TypeOK, Owner, Waiting, BeginRefused
  <1>12. CASE ResetIdle(m)
    BY <1>12 DEF TypeOK, Owner, Waiting, ResetIdle, End
  <1>13. CASE PromptAnswers(m)
    BY <1>13 DEF TypeOK, Owner, Waiting, PromptAnswers, Appended
  <1>14. CASE PromptStops(m)
    BY <1>14 DEF TypeOK, Owner, Waiting, PromptStops
  <1>15. CASE PromptBreaks(m)
    BY <1>15 DEF TypeOK, Owner, Waiting, PromptBreaks
  <1>16. CASE ClearPending(m)
    BY <1>16 DEF TypeOK, Owner, Waiting, ClearPending, Discard
  <1>17. CASE RemoveBroken(m)
    BY <1>17 DEF TypeOK, Owner, Waiting, RemoveBroken, RemoveCurrent, Closed
  <1>18. CASE EndRun(m)
    BY <1>18 DEF TypeOK, Owner, Waiting, EndRun
  <1>19. CASE Dispatch(m)
    BY <1>19 DEF TypeOK, Owner, Waiting, Dispatch, Appended
  <1>20. CASE DispatchFails(m)
    BY <1>20 DEF TypeOK, Owner, Waiting, DispatchFails
  <1> QED BY <1>1, <1>2, <1>3, <1>4, <1>5, <1>6, <1>7, <1>8, <1>9, <1>10, <1>11, <1>12,
           <1>13, <1>14, <1>15, <1>16, <1>17, <1>18, <1>19, <1>20
        DEF Prepares, Continues, Returns

LEMMA OthersWaiting ==
  ASSUME TypeOK, Owner, Waiting, Others PROVE Waiting'
  <1>1. CASE Cancel
    BY <1>1 DEF TypeOK, Owner, Waiting, Cancel, Discard
  <1>2. CASE BeginRemoval
    BY <1>2 DEF TypeOK, Owner, Waiting, BeginRemoval, Discard
  <1>3. CASE Removal
    BY <1>3 DEF TypeOK, Owner, Waiting, Removal, RemoveCurrent, Closed
  <1>4. CASE Archive
    BY <1>4 DEF TypeOK, Owner, Waiting, Archive, RemoveCurrent, Closed
  <1>5. CASE Expire
    BY <1>5 DEF TypeOK, Owner, Waiting, Expire, Discard
  <1>6. CASE ExpireSession
    BY <1>6 DEF TypeOK, Owner, Waiting, ExpireSession, RemoveCurrent, Closed
  <1>7. CASE Restart
    BY <1>7 DEF TypeOK, Owner, Waiting, Restart
  <1>8. ASSUME NEW c \in Clients, CloseReplaced(c) PROVE Waiting'
    BY <1>8 DEF TypeOK, Owner, Waiting, CloseReplaced, Closed
  <1>9. ASSUME NEW c \in Clients, TimerFires(c) PROVE Waiting'
    BY <1>9 DEF TypeOK, Owner, Waiting, TimerFires
  <1> QED BY <1>1, <1>2, <1>3, <1>4, <1>5, <1>6, <1>7, <1>8, <1>9 DEF Others

LEMMA StepWaiting == TypeOK /\ Owner /\ Waiting /\ [Next]_vars => Waiting'
  <1> SUFFICES ASSUME TypeOK, Owner, Waiting, [Next]_vars PROVE Waiting'
    OBVIOUS
  <1>1. CASE UNCHANGED vars
    BY <1>1 DEF TypeOK, Owner, Waiting, vars
  <1>2. CASE Others
    BY <1>2, OthersWaiting
  <1>3. CASE \E m \in Messages : Prepares(m) \/ Continues(m)
    BY <1>3, MessageWaiting
  <1> QED BY <1>1, <1>2, <1>3 DEF Next

LEMMA MessageOwner ==
  ASSUME TypeOK, Owner, Waiting, NEW m \in Messages, Prepares(m) \/ Continues(m) PROVE Owner'
  <1>1. CASE FindSession(m)
    BY <1>1 DEF TypeOK, Owner, Waiting, FindSession
  <1>2. CASE MissSession(m)
    BY <1>2 DEF TypeOK, Owner, Waiting, MissSession
  <1>3. CASE NoSession(m)
    BY <1>3 DEF TypeOK, Owner, Waiting, NoSession, End
  <1>4. CASE Launch(m)
    BY <1>4 DEF TypeOK, Owner, Waiting, Launch
  <1>5. CASE LaunchFails(m)
    BY <1>5 DEF TypeOK, Owner, Waiting, LaunchFails, End
  <1>6. CASE Install(m)
    BY <1>6 DEF TypeOK, Owner, Waiting, Install
  <1>7. CASE StopIdle(m)
    BY <1>7 DEF TypeOK, Owner, Waiting, StopIdle
  <1>8. CASE Ask(m)
    BY <1>8 DEF TypeOK, Owner, Waiting, Ask
  <1>9. CASE Queue(m)
    BY <1>9 DEF TypeOK, Owner, Waiting, Queue
  <1>10. CASE Begin(m)
    BY <1>10 DEF TypeOK, Owner, Waiting, Begin, Appended
  <1>11. CASE BeginRefused(m)
    BY <1>11 DEF TypeOK, Owner, Waiting, BeginRefused
  <1>12. CASE ResetIdle(m)
    BY <1>12 DEF TypeOK, Owner, Waiting, ResetIdle, End
  <1>13. CASE PromptAnswers(m)
    BY <1>13 DEF TypeOK, Owner, Waiting, PromptAnswers, Appended
  <1>14. CASE PromptStops(m)
    BY <1>14 DEF TypeOK, Owner, Waiting, PromptStops
  <1>15. CASE PromptBreaks(m)
    BY <1>15 DEF TypeOK, Owner, Waiting, PromptBreaks
  <1>16. CASE ClearPending(m)
    BY <1>16 DEF TypeOK, Owner, Waiting, ClearPending, Discard
  <1>17. CASE RemoveBroken(m)
    BY <1>17 DEF TypeOK, Owner, Waiting, RemoveBroken, RemoveCurrent, Closed
  <1>18. CASE EndRun(m)
    BY <1>18 DEF TypeOK, Owner, Waiting, EndRun
  <1>19. CASE Dispatch(m)
    BY <1>19 DEF TypeOK, Owner, Waiting, Dispatch, Appended
  <1>20. CASE DispatchFails(m)
    BY <1>20 DEF TypeOK, Owner, Waiting, DispatchFails
  <1> QED BY <1>1, <1>2, <1>3, <1>4, <1>5, <1>6, <1>7, <1>8, <1>9, <1>10, <1>11, <1>12,
           <1>13, <1>14, <1>15, <1>16, <1>17, <1>18, <1>19, <1>20
        DEF Prepares, Continues, Returns

LEMMA OthersOwner ==
  ASSUME TypeOK, Owner, Waiting, Others PROVE Owner'
  <1>1. CASE Cancel
    BY <1>1 DEF TypeOK, Owner, Waiting, Cancel, Discard
  <1>2. CASE BeginRemoval
    BY <1>2 DEF TypeOK, Owner, Waiting, BeginRemoval, Discard
  <1>3. CASE Removal
    BY <1>3 DEF TypeOK, Owner, Waiting, Removal, RemoveCurrent, Closed
  <1>4. CASE Archive
    BY <1>4 DEF TypeOK, Owner, Waiting, Archive, RemoveCurrent, Closed
  <1>5. CASE Expire
    BY <1>5 DEF TypeOK, Owner, Waiting, Expire, Discard
  <1>6. CASE ExpireSession
    BY <1>6 DEF TypeOK, Owner, Waiting, ExpireSession, RemoveCurrent, Closed
  <1>7. CASE Restart
    BY <1>7 DEF TypeOK, Owner, Waiting, Restart
  <1>8. ASSUME NEW c \in Clients, CloseReplaced(c) PROVE Owner'
    BY <1>8 DEF TypeOK, Owner, Waiting, CloseReplaced, Closed
  <1>9. ASSUME NEW c \in Clients, TimerFires(c) PROVE Owner'
    BY <1>9 DEF TypeOK, Owner, Waiting, TimerFires
  <1> QED BY <1>1, <1>2, <1>3, <1>4, <1>5, <1>6, <1>7, <1>8, <1>9 DEF Others

LEMMA StepOwner == TypeOK /\ Owner /\ Waiting /\ [Next]_vars => Owner'
  <1> SUFFICES ASSUME TypeOK, Owner, Waiting, [Next]_vars PROVE Owner'
    OBVIOUS
  <1>1. CASE UNCHANGED vars
    BY <1>1 DEF TypeOK, Owner, Waiting, vars
  <1>2. CASE Others
    BY <1>2, OthersOwner
  <1>3. CASE \E m \in Messages : Prepares(m) \/ Continues(m)
    BY <1>3, MessageOwner
  <1> QED BY <1>1, <1>2, <1>3 DEF Next

LEMMA MessageType ==
  ASSUME TypeOK, Owner, Waiting, NEW m \in Messages, Prepares(m) \/ Continues(m) PROVE TypeOK'
  <1>1. CASE FindSession(m)
    BY <1>1 DEF TypeOK, Owner, Waiting, FindSession
  <1>2. CASE MissSession(m)
    BY <1>2 DEF TypeOK, Owner, Waiting, MissSession
  <1>3. CASE NoSession(m)
    BY <1>3 DEF TypeOK, Owner, Waiting, NoSession, End
  <1>4. CASE Launch(m)
    BY <1>4 DEF TypeOK, Owner, Waiting, Launch
  <1>5. CASE LaunchFails(m)
    BY <1>5 DEF TypeOK, Owner, Waiting, LaunchFails, End
  <1>6. CASE Install(m)
    BY <1>6 DEF TypeOK, Owner, Waiting, Install
  <1>7. CASE StopIdle(m)
    BY <1>7 DEF TypeOK, Owner, Waiting, StopIdle
  <1>8. CASE Ask(m)
    BY <1>8 DEF TypeOK, Owner, Waiting, Ask
  <1>9. CASE Queue(m)
    BY <1>9 DEF TypeOK, Owner, Waiting, Queue
  <1>10. CASE Begin(m)
    BY <1>10 DEF TypeOK, Owner, Waiting, Begin, Appended
  <1>11. CASE BeginRefused(m)
    BY <1>11 DEF TypeOK, Owner, Waiting, BeginRefused
  <1>12. CASE ResetIdle(m)
    <2>1. armed' \in SUBSET Clients
      BY <1>12 DEF TypeOK, ResetIdle
    <2>2. sess' \in [Messages -> Clients \cup {None}]
      BY <1>12 DEF TypeOK, ResetIdle, End
    <2>3. PICK l \in {"ended", "ending"} :
            /\ pc' = [pc EXCEPT ![m] = l]
            /\ l = "ending" => pc[m] = "resetting" /\ sess' = sess
            /\ l = "ended" => pc[m] = "refusing" /\ sess' = [sess EXCEPT ![m] = None]
      BY <1>12 DEF ResetIdle, End
    <2>4. CASE l = "ended"
      BY <1>12, <2>1, <2>2, <2>3, <2>4 DEF TypeOK, ResetIdle
    <2>5. CASE l = "ending"
      BY <1>12, <2>1, <2>2, <2>3, <2>5 DEF TypeOK, ResetIdle
    <2> QED BY <2>3, <2>4, <2>5
  <1>13. CASE PromptAnswers(m)
    BY <1>13 DEF TypeOK, Owner, Waiting, PromptAnswers, Appended
  <1>14. CASE PromptStops(m)
    BY <1>14 DEF TypeOK, Owner, Waiting, PromptStops
  <1>15. CASE PromptBreaks(m)
    BY <1>15 DEF TypeOK, Owner, Waiting, PromptBreaks
  <1>16. CASE ClearPending(m)
    BY <1>16 DEF TypeOK, Owner, Waiting, ClearPending, Discard
  <1>17. CASE RemoveBroken(m)
    BY <1>17 DEF TypeOK, Owner, Waiting, RemoveBroken, RemoveCurrent, Closed
  <1>18. CASE EndRun(m)
    BY <1>18 DEF TypeOK, Owner, Waiting, EndRun
  <1>19. CASE Dispatch(m)
    BY <1>19 DEF TypeOK, Owner, Waiting, Dispatch, Appended
  <1>20. CASE DispatchFails(m)
    BY <1>20 DEF TypeOK, Owner, Waiting, DispatchFails
  <1> QED BY <1>1, <1>2, <1>3, <1>4, <1>5, <1>6, <1>7, <1>8, <1>9, <1>10, <1>11, <1>12,
           <1>13, <1>14, <1>15, <1>16, <1>17, <1>18, <1>19, <1>20
        DEF Prepares, Continues, Returns

LEMMA OthersType ==
  ASSUME TypeOK, Owner, Waiting, Others PROVE TypeOK'
  <1>1. CASE Cancel
    BY <1>1 DEF TypeOK, Owner, Waiting, Cancel, Discard
  <1>2. CASE BeginRemoval
    BY <1>2 DEF TypeOK, Owner, Waiting, BeginRemoval, Discard
  <1>3. CASE Removal
    BY <1>3 DEF TypeOK, Owner, Waiting, Removal, RemoveCurrent, Closed
  <1>4. CASE Archive
    BY <1>4 DEF TypeOK, Owner, Waiting, Archive, RemoveCurrent, Closed
  <1>5. CASE Expire
    BY <1>5 DEF TypeOK, Owner, Waiting, Expire, Discard
  <1>6. CASE ExpireSession
    BY <1>6 DEF TypeOK, Owner, Waiting, ExpireSession, RemoveCurrent, Closed
  <1>7. CASE Restart
    BY <1>7 DEF TypeOK, Owner, Waiting, Restart
  <1>8. ASSUME NEW c \in Clients, CloseReplaced(c) PROVE TypeOK'
    BY <1>8 DEF TypeOK, Owner, Waiting, CloseReplaced, Closed
  <1>9. ASSUME NEW c \in Clients, TimerFires(c) PROVE TypeOK'
    BY <1>9 DEF TypeOK, Owner, Waiting, TimerFires
  <1> QED BY <1>1, <1>2, <1>3, <1>4, <1>5, <1>6, <1>7, <1>8, <1>9 DEF Others

LEMMA StepType == TypeOK /\ Owner /\ Waiting /\ [Next]_vars => TypeOK'
  <1> SUFFICES ASSUME TypeOK, Owner, Waiting, [Next]_vars PROVE TypeOK'
    OBVIOUS
  <1>1. CASE UNCHANGED vars
    BY <1>1 DEF TypeOK, Owner, Waiting, vars
  <1>2. CASE Others
    BY <1>2, OthersType
  <1>3. CASE \E m \in Messages : Prepares(m) \/ Continues(m)
    BY <1>3, MessageType
  <1> QED BY <1>1, <1>2, <1>3 DEF Next

LeadInv == TypeOK /\ Owner /\ Waiting

LEMMA LeadInvariant == Spec => []LeadInv
  <1>1. LeadInv /\ [Next]_vars => LeadInv'
    BY StepWaiting, StepOwner, StepType DEF LeadInv
  <1>2. Init => LeadInv
    BY InitLead DEF LeadInv
  <1> QED BY <1>1, <1>2, PTL DEF Spec

\* Every request, every step of a message's goroutine and every timer keeps the
\* chat within its types, and the run belongs to a message that can give it back.
THEOREM LeadTypeCorrect == Spec => []TypeOK
  BY LeadInvariant, PTL DEF LeadInv

\* beginRun and the hand-over in endRun never let two prompts into one session.
THEOREM OneRunAtATimeCorrect == Spec => []OneRunAtATime
  <1>1. LeadInv => OneRunAtATime
    BY DEF LeadInv, Owner, OneRunAtATime
  <1> QED BY <1>1, LeadInvariant, PTL

----------------------------------------------------------------------------
LEMMA MessageLosesNone ==
  ASSUME TypeOK, Owner, Waiting, NoClientLost, NEW m \in Messages, Prepares(m) \/ Continues(m) PROVE NoClientLost'
  <1>1. CASE FindSession(m)
    BY <1>1 DEF TypeOK, Waiting, NoClientLost, FindSession
  <1>2. CASE MissSession(m)
    BY <1>2 DEF TypeOK, Waiting, NoClientLost, MissSession
  <1>3. CASE NoSession(m)
    BY <1>3 DEF TypeOK, Waiting, NoClientLost, NoSession, End
  <1>4. CASE Launch(m)
    BY <1>4 DEF TypeOK, Waiting, NoClientLost, Launch
  <1>5. CASE LaunchFails(m)
    BY <1>5 DEF TypeOK, Waiting, NoClientLost, LaunchFails, End
  <1>6. CASE Install(m)
    BY <1>6 DEF TypeOK, Waiting, NoClientLost, Install
  <1>7. CASE StopIdle(m)
    BY <1>7 DEF TypeOK, Waiting, NoClientLost, StopIdle
  <1>8. CASE Ask(m)
    BY <1>8 DEF TypeOK, Waiting, NoClientLost, Ask
  <1>9. CASE Queue(m)
    BY <1>9 DEF TypeOK, Waiting, NoClientLost, Queue
  <1>10. CASE Begin(m)
    BY <1>10 DEF TypeOK, Waiting, NoClientLost, Begin, Appended
  <1>11. CASE BeginRefused(m)
    BY <1>11 DEF TypeOK, Waiting, NoClientLost, BeginRefused
  <1>12. CASE ResetIdle(m)
    BY <1>12 DEF TypeOK, Waiting, NoClientLost, ResetIdle, End
  <1>13. CASE PromptAnswers(m)
    BY <1>13 DEF TypeOK, Waiting, NoClientLost, PromptAnswers, Appended
  <1>14. CASE PromptStops(m)
    BY <1>14 DEF TypeOK, Waiting, NoClientLost, PromptStops
  <1>15. CASE PromptBreaks(m)
    BY <1>15 DEF TypeOK, Waiting, NoClientLost, PromptBreaks
  <1>16. CASE ClearPending(m)
    BY <1>16 DEF TypeOK, Waiting, NoClientLost, ClearPending, Discard
  <1>17. CASE RemoveBroken(m)
    BY <1>17 DEF TypeOK, Waiting, NoClientLost, RemoveBroken, RemoveCurrent, Closed
  <1>18. CASE EndRun(m)
    BY <1>18 DEF TypeOK, Waiting, NoClientLost, EndRun
  <1>19. CASE Dispatch(m)
    BY <1>19 DEF TypeOK, Waiting, NoClientLost, Dispatch, Appended
  <1>20. CASE DispatchFails(m)
    BY <1>20 DEF TypeOK, Waiting, NoClientLost, DispatchFails
  <1> QED BY <1>1, <1>2, <1>3, <1>4, <1>5, <1>6, <1>7, <1>8, <1>9, <1>10, <1>11, <1>12,
           <1>13, <1>14, <1>15, <1>16, <1>17, <1>18, <1>19, <1>20
        DEF Prepares, Continues, Returns

LEMMA OthersLosesNone ==
  ASSUME TypeOK, Owner, Waiting, NoClientLost, Others PROVE NoClientLost'
  <1>1. CASE Cancel
    BY <1>1 DEF TypeOK, Waiting, NoClientLost, Cancel, Discard
  <1>2. CASE BeginRemoval
    BY <1>2 DEF TypeOK, Waiting, NoClientLost, BeginRemoval, Discard
  <1>3. CASE Removal
    BY <1>3 DEF TypeOK, Waiting, NoClientLost, Removal, RemoveCurrent, Closed
  <1>4. CASE Archive
    BY <1>4 DEF TypeOK, Waiting, NoClientLost, Archive, RemoveCurrent, Closed
  <1>5. CASE Expire
    BY <1>5 DEF TypeOK, Waiting, NoClientLost, Expire, Discard
  <1>6. CASE ExpireSession
    BY <1>6 DEF TypeOK, Waiting, NoClientLost, ExpireSession, RemoveCurrent, Closed
  <1>7. CASE Restart
    BY <1>7 DEF TypeOK, Waiting, NoClientLost, Restart
  <1>8. ASSUME NEW c \in Clients, CloseReplaced(c) PROVE NoClientLost'
    BY <1>8 DEF TypeOK, Waiting, NoClientLost, CloseReplaced, Closed
  <1>9. ASSUME NEW c \in Clients, TimerFires(c) PROVE NoClientLost'
    BY <1>9 DEF TypeOK, Waiting, NoClientLost, TimerFires
  <1> QED BY <1>1, <1>2, <1>3, <1>4, <1>5, <1>6, <1>7, <1>8, <1>9 DEF Others

LEMMA StepLosesNone == TypeOK /\ Owner /\ Waiting /\ NoClientLost /\ [Next]_vars => NoClientLost'
  <1> SUFFICES ASSUME TypeOK, Owner, Waiting, NoClientLost, [Next]_vars PROVE NoClientLost'
    OBVIOUS
  <1>1. CASE UNCHANGED vars
    BY <1>1 DEF TypeOK, Waiting, NoClientLost, vars
  <1>2. CASE Others
    BY <1>2, OthersLosesNone
  <1>3. CASE \E m \in Messages : Prepares(m) \/ Continues(m)
    BY <1>3, MessageLosesNone
  <1> QED BY <1>1, <1>2, <1>3 DEF Next

\* Whatever replaces, removes, expires or restarts the session, an open client is
\* the one of the session or about to become it.
THEOREM NoClientLostCorrect == Spec => []NoClientLost
  <1>1. Init => NoClientLost
    BY DEF Init, NoClientLost
  <1>2. LeadInv /\ NoClientLost /\ [Next]_vars => NoClientLost'
    BY StepLosesNone DEF LeadInv
  <1> QED BY <1>1, <1>2, LeadInvariant, PTL DEF Spec

----------------------------------------------------------------------------
\* A message that waits while no run is registered: nobody is going to take it
\* before somebody sends another one.
Stranded == pending # None /\ running = None
QueuesLate(m) == Queue(m) /\ running = None
ForgetsQueue(m) == DispatchFails(m) /\ pending # None

\* Whoever ends a run takes the message that waits, and a removal, a cancellation,
\* the idle timer and a restart discard it.  So a message is stranded in two ways
\* only: StartChat queues it after the run it saw has ended, or a hand-over fails
\* (runPending) although another message has been queued meanwhile.
StrandedInTwoWays ==
  [][Stranded' => \/ Stranded
                  \/ \E m \in Messages : QueuesLate(m) \/ ForgetsQueue(m)]_vars

\* Every step that strands a message is one of the two, for any number of messages
\* and requests (setPending, endRun, runPending).
THEOREM StrandedInTwoWaysCorrect == Spec => StrandedInTwoWays
  <1> USE DEF Stranded, QueuesLate, ForgetsQueue
  <1>1. TypeOK /\ [Next]_vars =>
          [Stranded' => Stranded \/ \E m \in Messages : QueuesLate(m) \/ ForgetsQueue(m)]_vars
    <2> SUFFICES ASSUME TypeOK, Next, Stranded', ~Stranded
                 PROVE  \E m \in Messages : QueuesLate(m) \/ ForgetsQueue(m)
      OBVIOUS
    <2>1. CASE Others
      BY <2>1 DEF Others, Cancel, BeginRemoval, Removal, Archive, Expire, ExpireSession, Restart,
         CloseReplaced, TimerFires, Discard
    <2>2. ASSUME NEW m \in Messages, Prepares(m) \/ Continues(m)
          PROVE  QueuesLate(m) \/ ForgetsQueue(m)
      <3>1. CASE UNCHANGED <<running, pending>>
        BY <3>1
      <3>2. CASE Begin(m)
        BY <3>2 DEF Begin, TypeOK
      <3>3. CASE ClearPending(m)
        BY <3>3 DEF ClearPending, Discard
      <3>4. CASE EndRun(m)
        BY <3>4 DEF EndRun
      <3>5. CASE Queue(m)
        BY <3>5 DEF Queue
      <3>6. CASE DispatchFails(m)
        BY <3>6 DEF DispatchFails
      <3> QED BY <2>2, <3>1, <3>2, <3>3, <3>4, <3>5, <3>6 DEF Prepares, Continues, Returns,
            FindSession, MissSession, NoSession, Launch, LaunchFails, Install, StopIdle, Ask,
            BeginRefused, ResetIdle, PromptAnswers, PromptStops, PromptBreaks, RemoveBroken, Dispatch
    <2> QED BY <2>1, <2>2 DEF Next
  <1> QED BY <1>1, LeadTypeCorrect, PTL DEF Spec, StrandedInTwoWays
=============================================================================
