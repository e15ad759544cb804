----------------------- MODULE RemoteExecutionProofs -----------------------
(***************************************************************************)
(* Theorems about RemoteExecution, for any number of attempts, workers,    *)
(* slots and faults: its types, that no invocation is lost, and that it    *)
(* implements what RunDelivery promises.                                   *)
(***************************************************************************)
EXTENDS RemoteExecution, TLAPS

USE RemoteAssumption DEF Calls, Outcomes

\* A job is a call and a delivery.
LEMMA JobParts ==
  ASSUME NEW j \in Jobs
  PROVE  j[1] \in Calls /\ j[2] \in Deliveries /\ j = <<j[1], j[2]>>
  BY DEF Jobs

LEMMA InitType == Init => TypeOK
  BY DEF Init, TypeOK, Jobs, Deliveries, Stages, InHand

LEMMA FaultType ==
  ASSUME faults \in 0..MaxFaults, Fault PROVE faults' \in 0..MaxFaults
  BY DEF Fault

LEMMA ServerType ==
  ASSUME TypeOK, NEW c \in Calls,
         StartRun(c) \/ StartRunFails(c) \/ Watch(c) \/ WatchReturns(c) \/ GiveUp(c)
  PROVE  TypeOK'
  <1> USE DEF TypeOK
  <1>1. CASE StartRun(c)
    BY <1>1 DEF StartRun, jobVars, historyVars
  <1>2. CASE StartRunFails(c)
    BY <1>2, FaultType DEF StartRunFails, jobVars, historyVars
  <1>3. CASE Watch(c)
    BY <1>3 DEF Watch, brokerVars, jobVars, historyVars
  <1>4. CASE WatchReturns(c)
    <2>1. Head(results[c]) \in Outcomes
      BY <1>4 DEF WatchReturns
    <2>2. results' \in [Calls -> Seq(Outcomes)]
      BY <1>4 DEF WatchReturns
    <2> QED BY <1>4, <2>1, <2>2 DEF WatchReturns, jobVars, historyVars
  <1>5. CASE GiveUp(c)
    BY <1>5 DEF GiveUp, jobVars, historyVars
  <1> QED BY <1>1, <1>2, <1>3, <1>4, <1>5

LEMMA DeliverType ==
  ASSUME TypeOK, NEW w \in Workers, NEW c \in Calls, Deliver(w, c)
  PROVE  TypeOK'
  <1> DEFINE n == deliveries[c] + 1
  <1>1. n \in Deliveries /\ deliveries[c] \in Nat /\ <<c, n>> \in Jobs
    BY DEF Deliver, TypeOK, Deliveries, Jobs
  <1>2. stage[<<c, n>>] = "none"
    BY <1>1 DEF TypeOK, Deliveries
  <1>3. stage' = [stage EXCEPT ![<<c, n>>] = "fetched"] /\ worker' = [worker EXCEPT ![<<c, n>>] = w]
    BY DEF Deliver
  <1>4. stage' \in [Jobs -> Stages] /\ worker' \in [Jobs -> Workers \cup {None}]
    BY <1>1, <1>3 DEF TypeOK, Stages
  <1>5. deliveries' \in [Calls -> 0..(MaxFaults + 1)] /\ deliveries' = [deliveries EXCEPT ![c] = n]
    BY <1>1 DEF Deliver, TypeOK, Deliveries
  <1>6. \A e \in Calls, d \in Deliveries : (stage[<<e, d>>] # "none" <=> d <= deliveries[e])'
    <2> TAKE e \in Calls, d \in Deliveries
    <2>1. <<e, d>> \in Jobs /\ d \in Nat
      BY DEF Jobs, Deliveries
    <2>2. CASE <<e, d>> = <<c, n>>
      BY <2>1, <2>2, <1>1, <1>3, <1>5 DEF TypeOK
    <2>3. CASE e = c /\ d # n
      <3>1. d <= deliveries[c] <=> d <= n
        BY <2>1, <2>3, <1>1
      <3>2. deliveries'[e] = n /\ stage'[<<e, d>>] = stage[<<e, d>>]
        BY <2>1, <2>3, <1>3, <1>5 DEF TypeOK
      <3> QED BY <2>3, <3>1, <3>2 DEF TypeOK
    <2>4. CASE e # c
      <3>1. deliveries'[e] = deliveries[e] /\ stage'[<<e, d>>] = stage[<<e, d>>]
        BY <2>1, <2>4, <1>3, <1>5 DEF TypeOK
      <3> QED BY <3>1 DEF TypeOK
    <2> QED BY <2>2, <2>3, <2>4
  <1>7. \A j \in Jobs : ((stage[j] \in InHand) <=> (worker[j] \in Workers))'
    BY <1>1, <1>3 DEF TypeOK, InHand
  <1>8. \A j \in Jobs : (stage[j] \in {"finished", "published"} => got[j] \in Outcomes)'
    BY <1>1, <1>3 DEF TypeOK, Deliver
  <1>9. message' \in [Calls -> {"none", "ready", "leased", "due", "acked"}]
    BY DEF Deliver, TypeOK
  <1> QED BY <1>4, <1>5, <1>6, <1>7, <1>8, <1>9 DEF TypeOK, Deliver, serverVars, historyVars

\* The three clauses about jobs, when one job moves to another stage.
LEMMA MoveKeepsJobs ==
  ASSUME TypeOK, NEW j \in Jobs, NEW s \in Stages \ {"none"}, stage[j] # "none",
         stage' = [stage EXCEPT ![j] = s], deliveries' = deliveries
  PROVE  /\ stage' \in [Jobs -> Stages]
         /\ \A c \in Calls, d \in Deliveries : (stage[<<c, d>>] # "none" <=> d <= deliveries[c])'
  <1>1. stage' \in [Jobs -> Stages]
    BY DEF TypeOK
  <1>2. ASSUME NEW c \in Calls, NEW d \in Deliveries
        PROVE  (stage[<<c, d>>] # "none" <=> d <= deliveries[c])'
    <2>1. <<c, d>> \in Jobs
      BY DEF Jobs
    <2>2. stage'[<<c, d>>] # "none" <=> stage[<<c, d>>] # "none"
      BY <2>1 DEF TypeOK
    <2> QED BY <2>1, <2>2 DEF TypeOK
  <1> QED BY <1>1, <1>2

LEMMA JobType ==
  ASSUME TypeOK, NEW j \in Jobs, Job(j) PROVE TypeOK'
  <1>1. CASE Begin(j)
    <2>1. stage' = [stage EXCEPT ![j] = "running"] /\ deliveries' = deliveries /\ stage[j] = "fetched"
      BY <1>1 DEF Begin, brokerVars
    <2>2. /\ stage' \in [Jobs -> Stages]
          /\ \A c \in Calls, d \in Deliveries : (stage[<<c, d>>] # "none" <=> d <= deliveries[c])'
      BY <2>1, MoveKeepsJobs DEF Stages
    <2>3. \A i \in Jobs : ((stage[i] \in InHand) <=> (worker[i] \in Workers))'
      BY <1>1, <2>1 DEF TypeOK, InHand, Begin
    <2>4. \A i \in Jobs : (stage[i] \in {"finished", "published"} => got[i] \in Outcomes)'
      BY <1>1, <2>1 DEF TypeOK, Begin
    <2> QED BY <1>1, <2>2, <2>3, <2>4 DEF TypeOK, Begin, serverVars, brokerVars, historyVars
  <1>2. CASE Execute(j)
    <2>1. stage' = [stage EXCEPT ![j] = "finished"] /\ deliveries' = deliveries /\ stage[j] = "running"
      BY <1>2 DEF Execute, brokerVars
    <2>2. /\ stage' \in [Jobs -> Stages]
          /\ \A c \in Calls, d \in Deliveries : (stage[<<c, d>>] # "none" <=> d <= deliveries[c])'
      BY <2>1, MoveKeepsJobs DEF Stages
    <2>3. PICK o \in Outcomes : got' = [got EXCEPT ![j] = o]
      BY <1>2 DEF Execute
    <2>4. \A i \in Jobs : ((stage[i] \in InHand) <=> (worker[i] \in Workers))'
      BY <1>2, <2>1 DEF TypeOK, InHand, Execute
    <2>5. \A i \in Jobs : (stage[i] \in {"finished", "published"} => got[i] \in Outcomes)'
      BY <2>1, <2>3 DEF TypeOK
    <2>6. got' \in [Jobs -> Outcomes \cup {None}]
      BY <2>3 DEF TypeOK
    <2> QED BY <1>2, <2>2, <2>4, <2>5, <2>6 DEF TypeOK, Execute, serverVars, brokerVars, historyVars
  <1> SUFFICES ASSUME PublishResult(j) \/ PublishFails(j) \/ Ack(j) PROVE TypeOK'
    BY <1>1, <1>2 DEF Job
  <1>3. j[1] \in Calls
    BY JobParts
  <1>4. ASSUME Store(j[1], got[j]), stage[j] = "finished"
        PROVE  results' \in [Calls -> Seq(Outcomes)] /\ missed' \in SUBSET Calls
    <2>1. got[j] \in Outcomes
      BY <1>4 DEF TypeOK
    <2>2. Append(results[j[1]], got[j]) \in Seq(Outcomes)
      BY <1>3, <2>1 DEF TypeOK
    <2> QED BY <1>3, <1>4, <2>2 DEF Store, TypeOK
  <1>5. CASE PublishResult(j)
    <2>1. stage' = [stage EXCEPT ![j] = "published"] /\ deliveries' = deliveries /\ stage[j] = "finished"
      BY <1>5 DEF PublishResult
    <2>2. /\ stage' \in [Jobs -> Stages]
          /\ \A c \in Calls, d \in Deliveries : (stage[<<c, d>>] # "none" <=> d <= deliveries[c])'
      BY <2>1, MoveKeepsJobs DEF Stages
    <2>3. results' \in [Calls -> Seq(Outcomes)] /\ missed' \in SUBSET Calls
      BY <1>4, <1>5 DEF PublishResult
    <2>4. \A i \in Jobs : ((stage[i] \in InHand) <=> (worker[i] \in Workers))'
      BY <1>5, <2>1 DEF TypeOK, InHand, PublishResult
    <2>5. \A i \in Jobs : (stage[i] \in {"finished", "published"} => got[i] \in Outcomes)'
      BY <1>5, <2>1 DEF TypeOK, PublishResult
    <2>6. answered' \in SUBSET Calls
      BY <1>3, <1>5 DEF TypeOK, PublishResult
    <2> QED BY <1>5, <2>2, <2>3, <2>4, <2>5, <2>6 DEF TypeOK, PublishResult, serverVars
  <1>6. ASSUME Leaves(j), stage[j] \in InHand, deliveries' = deliveries, got' = got
        PROVE  /\ stage' \in [Jobs -> Stages]
               /\ worker' \in [Jobs -> Workers \cup {None}]
               /\ \A c \in Calls, d \in Deliveries : (stage[<<c, d>>] # "none" <=> d <= deliveries[c])'
               /\ \A i \in Jobs : ((stage[i] \in InHand) <=> (worker[i] \in Workers))'
               /\ \A i \in Jobs : (stage[i] \in {"finished", "published"} => got[i] \in Outcomes)'
    <2>1. stage' = [stage EXCEPT ![j] = "over"] /\ worker' = [worker EXCEPT ![j] = None] /\ stage[j] # "none"
      BY <1>6 DEF Leaves, InHand
    <2>2. /\ stage' \in [Jobs -> Stages]
          /\ \A c \in Calls, d \in Deliveries : (stage[<<c, d>>] # "none" <=> d <= deliveries[c])'
      BY <1>6, <2>1, MoveKeepsJobs DEF Stages
    <2>3. \A i \in Jobs : ((stage[i] \in InHand) <=> (worker[i] \in Workers))'
      BY <2>1 DEF TypeOK, InHand
    <2>4. \A i \in Jobs : (stage[i] \in {"finished", "published"} => got[i] \in Outcomes)'
      BY <1>6, <2>1 DEF TypeOK
    <2>5. worker' \in [Jobs -> Workers \cup {None}]
      BY <2>1 DEF TypeOK
    <2> QED BY <2>2, <2>3, <2>4, <2>5
  <1>7. CASE PublishFails(j)
    <2>1. Leaves(j) /\ stage[j] \in InHand /\ deliveries' = deliveries /\ got' = got
      BY <1>7 DEF PublishFails, InHand
    <2>2. /\ results' \in [Calls -> Seq(Outcomes)] /\ missed' \in SUBSET Calls /\ answered' \in SUBSET Calls
      BY <1>3, <1>4, <1>7 DEF PublishFails, TypeOK, historyVars
    <2>3. message' \in [Calls -> {"none", "ready", "leased", "due", "acked"}]
      BY <1>3, <1>7 DEF PublishFails, TypeOK
    <2> QED BY <1>6, <1>7, <2>1, <2>2, <2>3, FaultType DEF TypeOK, PublishFails, serverVars
  <1>8. CASE Ack(j)
    <2>1. Leaves(j) /\ stage[j] \in InHand /\ deliveries' = deliveries /\ got' = got
      BY <1>8 DEF Ack, InHand
    <2>2. message' \in [Calls -> {"none", "ready", "leased", "due", "acked"}] /\ faults' \in 0..MaxFaults
      BY <1>3, <1>8, FaultType DEF Ack, TypeOK
    <2> QED BY <1>6, <1>8, <2>1, <2>2 DEF TypeOK, Ack, serverVars, historyVars
  <1> QED BY <1>5, <1>7, <1>8

\* A crash of a worker, an expiry, and the other steps without a job of their own.
LEMMA OtherType ==
  ASSUME TypeOK,
         \/ ServerCrash
         \/ \E c \in Calls : Expire(c)
         \/ \E w \in Workers : Stop(w) \/ Restart(w) \/ WorkerCrash(w)
  PROVE  TypeOK'
  <1>1. CASE ServerCrash
    BY <1>1, FaultType DEF TypeOK, ServerCrash, jobVars, historyVars
  <1>2. CASE \E c \in Calls : Expire(c)
    <2>1. PICK c \in Calls : Expire(c)
      BY <1>2
    <2>2. faults' \in 0..MaxFaults /\ message' \in [Calls -> {"none", "ready", "leased", "due", "acked"}]
      BY <2>1, FaultType DEF TypeOK, Expire
    <2> QED BY <2>1, <2>2 DEF TypeOK, Expire, serverVars, jobVars, historyVars
  <1>3. CASE \E w \in Workers : Stop(w) \/ Restart(w)
    BY <1>3, FaultType DEF TypeOK, Stop, Restart, serverVars, brokerVars, jobVars, historyVars
  <1>4. CASE \E w \in Workers : WorkerCrash(w)
    <2>1. PICK w \in Workers : WorkerCrash(w)
      BY <1>4
    <2>2. stage' \in [Jobs -> Stages] /\ worker' \in [Jobs -> Workers \cup {None}]
      BY <2>1 DEF TypeOK, WorkerCrash, Stages
    <2>3. \A j \in Jobs : stage'[j] # "none" <=> stage[j] # "none"
      BY <2>1 DEF TypeOK, WorkerCrash, InHand
    <2>4. \A c \in Calls, d \in Deliveries : (stage[<<c, d>>] # "none" <=> d <= deliveries[c])'
      <3>1. \A c \in Calls, d \in Deliveries : <<c, d>> \in Jobs
        BY DEF Jobs
      <3> QED BY <2>1, <2>3, <3>1 DEF TypeOK, WorkerCrash, brokerVars
    <2>5. \A j \in Jobs : ((stage[j] \in InHand) <=> (worker[j] \in Workers))'
      BY <2>1 DEF TypeOK, WorkerCrash, InHand
    <2>6. \A j \in Jobs : (stage[j] \in {"finished", "published"} => got[j] \in Outcomes)'
      BY <2>1 DEF TypeOK, WorkerCrash
    <2> QED BY <2>1, <2>2, <2>4, <2>5, <2>6, FaultType DEF TypeOK, WorkerCrash, serverVars, brokerVars, historyVars
  <1> QED BY <1>1, <1>2, <1>3, <1>4

LEMMA StepType == TypeOK /\ [Next]_vars => TypeOK'
  <1> SUFFICES ASSUME TypeOK, [Next]_vars PROVE TypeOK'
    OBVIOUS
  <1>1. CASE UNCHANGED vars
    BY <1>1 DEF TypeOK, vars, serverVars, brokerVars, jobVars, historyVars
  <1>2. CASE Next
    BY <1>2, ServerType, DeliverType, JobType, OtherType DEF Next
  <1> QED BY <1>1, <1>2

\* The state of the server, the broker and the workers keeps its types, and
\* every job in hand has a worker and, once finished, an outcome.
THEOREM RemoteTypeCorrect == Spec => []TypeOK
  BY InitType, StepType, PTL DEF Spec

----------------------------------------------------------------------------
\* A job past its publication has an answered call.
PublishedIsAnswered == \A j \in Jobs : stage[j] = "published" => j[1] \in answered
LossInv == TypeOK /\ PublishedIsAnswered /\ NothingLost

LEMMA StepLoss == LossInv /\ [Next]_vars => LossInv'
  <1> SUFFICES ASSUME LossInv, [Next]_vars PROVE PublishedIsAnswered' /\ NothingLost'
    BY StepType DEF LossInv
  <1> USE DEF LossInv
  <1> DEFINE Kept == (\A j \in Jobs : stage'[j] = "published" => stage[j] = "published") /\ answered \subseteq answered'
             NoAck == \A c \in Calls : message'[c] = "acked" => message[c] = "acked"
  <1>1. Kept => PublishedIsAnswered'
    BY DEF PublishedIsAnswered
  <1>2. NoAck /\ answered \subseteq answered' => NothingLost'
    BY DEF NothingLost
  <1>3. CASE UNCHANGED vars
    BY <1>1, <1>2, <1>3 DEF vars, jobVars, brokerVars, historyVars
  <1>4. CASE \E c \in Calls : StartRun(c) \/ StartRunFails(c) \/ Watch(c) \/ WatchReturns(c) \/ GiveUp(c) \/ Expire(c)
    <2>1. PICK c \in Calls : StartRun(c) \/ StartRunFails(c) \/ Watch(c) \/ WatchReturns(c) \/ GiveUp(c) \/ Expire(c)
      BY <1>4
    <2>2. Kept
      BY <2>1 DEF StartRun, StartRunFails, Watch, WatchReturns, GiveUp, Expire, jobVars, historyVars
    <2>3. NoAck
      BY <2>1 DEF TypeOK, StartRun, StartRunFails, Watch, WatchReturns, GiveUp, Expire, brokerVars
    <2> QED BY <1>1, <1>2, <2>2, <2>3
  <1>5. CASE ServerCrash
    BY <1>1, <1>2, <1>5 DEF ServerCrash, jobVars, historyVars
  <1>6. CASE \E w \in Workers, c \in Calls : Deliver(w, c)
    <2>1. PICK w \in Workers, c \in Calls : Deliver(w, c)
      BY <1>6
    <2>2. Kept
      BY <2>1 DEF TypeOK, Deliver, historyVars
    <2>3. NoAck
      BY <2>1 DEF TypeOK, Deliver
    <2> QED BY <1>1, <1>2, <2>2, <2>3
  <1>7. CASE \E w \in Workers : Stop(w) \/ Restart(w) \/ WorkerCrash(w)
    <2>1. Kept /\ NoAck
      BY <1>7 DEF Stop, Restart, WorkerCrash, brokerVars, jobVars, historyVars
    <2> QED BY <1>1, <1>2, <2>1
  <1>8. CASE \E j \in Jobs : Job(j)
    <2>1. PICK j \in Jobs : Job(j)
      BY <1>8
    <2>2. j[1] \in Calls
      BY JobParts
    <2>3. CASE Begin(j) \/ Execute(j)
      <3>1. Kept
        BY <2>3 DEF TypeOK, Begin, Execute, historyVars
      <3>2. NoAck
        BY <2>3 DEF Begin, Execute, brokerVars
      <3> QED BY <1>1, <1>2, <3>1, <3>2
    <2>4. CASE PublishResult(j)
      BY <2>2, <2>4 DEF TypeOK, PublishResult, PublishedIsAnswered, NothingLost
    <2>5. CASE PublishFails(j)
      <3>1. answered \subseteq answered'
        BY <2>5 DEF PublishFails, historyVars
      <3>2. Kept
        BY <2>5, <3>1 DEF TypeOK, PublishFails, Leaves
      <3>3. NoAck
        BY <2>2, <2>5 DEF TypeOK, PublishFails
      <3> QED BY <1>1, <1>2, <3>1, <3>2, <3>3
    <2>6. CASE Ack(j)
      <3>1. j[1] \in answered /\ answered' = answered
        BY <2>6 DEF PublishedIsAnswered, Ack, historyVars
      <3>2. Kept
        BY <2>6, <3>1 DEF TypeOK, Ack, Leaves
      <3>3. \A c \in Calls : message'[c] = "acked" => message[c] = "acked" \/ c = j[1]
        BY <2>2, <2>6 DEF TypeOK, Ack
      <3> QED BY <1>1, <3>1, <3>2, <3>3 DEF NothingLost
    <2> QED BY <2>1, <2>3, <2>4, <2>5, <2>6 DEF Job
  <1> QED BY <1>3, <1>4, <1>5, <1>6, <1>7, <1>8 DEF Next

\* An invocation is acknowledged only after a result of it has been published,
\* whatever crashes, redeliveries and failed publications happen.
THEOREM NothingLostCorrect == Spec => []NothingLost
  <1>1. Init => LossInv
    BY InitType DEF Init, LossInv, PublishedIsAnswered, NothingLost
  <1> QED BY <1>1, StepLoss, PTL DEF Spec, LossInv

----------------------------------------------------------------------------
\* What the mapping needs: nothing happens to a call before it is started, only
\* a finished job has an outcome, and a kept result is one of those outcomes.
UntouchedWhileIdle == \A c \in Calls : call[c] = "idle" => message[c] = "none" /\ deliveries[c] = 0
OutcomeAtEnd == \A j \in Jobs : got[j] # None => stage[j] \notin {"none", "fetched", "running"}
ResultsAreProduced ==
  \A c \in Calls : \A n \in 1..Len(results[c]) : \E d \in Deliveries : got[<<c, d>>] = results[c][n]
ToldAtEnd == \A c \in Calls : call[c] # "ended" => outcome[c] = None
DeliveryInv == TypeOK /\ UntouchedWhileIdle /\ OutcomeAtEnd /\ ResultsAreProduced /\ ToldAtEnd

LEMMA NoneIsNoOutcome == None \notin Outcomes
  BY DEF Outcomes

LEMMA InitDelivery == Init => DeliveryInv
  BY InitType DEF Init, DeliveryInv, UntouchedWhileIdle, OutcomeAtEnd, ResultsAreProduced, ToldAtEnd

\* The server's steps start a call or drop results.
LEMMA ServerDelivery ==
  ASSUME DeliveryInv, [Next]_vars,
         \/ ServerCrash
         \/ \E c \in Calls : StartRun(c) \/ StartRunFails(c) \/ Watch(c) \/ WatchReturns(c)
                             \/ GiveUp(c) \/ Expire(c)
  PROVE  DeliveryInv'
  <1> USE DEF DeliveryInv
  <1>1. TypeOK'
    BY StepType
  <1>2. stage' = stage /\ got' = got /\ deliveries' = deliveries
    BY DEF ServerCrash, StartRun, StartRunFails, Watch, WatchReturns, GiveUp, Expire, jobVars, brokerVars
  <1>3. UntouchedWhileIdle'
    BY <1>2 DEF TypeOK, UntouchedWhileIdle, ServerCrash, StartRun, StartRunFails, Watch,
                WatchReturns, GiveUp, Expire, MayStart, serverVars, brokerVars
  <1>4. \A c \in Calls : results'[c] = results[c] \/ results'[c] = <<>>
    BY DEF TypeOK, ServerCrash, StartRun, StartRunFails, Watch, WatchReturns, GiveUp, Expire, brokerVars
  <1>5. ResultsAreProduced'
    <2>1. ASSUME NEW c \in Calls, NEW n \in 1..Len(results'[c])
          PROVE  \E d \in Deliveries : got'[<<c, d>>] = results'[c][n]
      <3>1. CASE results'[c] = results[c]
        BY <1>2, <2>1, <3>1 DEF ResultsAreProduced
      <3>2. CASE results'[c] = <<>>
        <4>1. Len(results'[c]) = 0
          BY <3>2
        <4> QED BY <2>1, <4>1
      <3> QED BY <1>4, <3>1, <3>2
    <2> QED BY <2>1 DEF ResultsAreProduced
  <1>6. OutcomeAtEnd'
    BY <1>2 DEF OutcomeAtEnd
  <1>7. ToldAtEnd'
    <2>1. CASE ServerCrash
      BY <2>1 DEF TypeOK, ToldAtEnd, ServerCrash
    <2>2. CASE \E c \in Calls : StartRun(c) \/ StartRunFails(c) \/ Watch(c)
      BY <2>2 DEF TypeOK, ToldAtEnd, StartRun, StartRunFails, Watch, MayStart
    <2>3. CASE \E c \in Calls : GiveUp(c) \/ Expire(c)
      BY <2>3 DEF TypeOK, ToldAtEnd, GiveUp, Expire, serverVars
    <2>4. CASE \E c \in Calls : WatchReturns(c)
      <3>1. PICK c \in Calls : WatchReturns(c)
        BY <2>4
      <3>2. \A e \in Calls : e # c => outcome'[e] = outcome[e] /\ call'[e] = call[e]
        BY <3>1 DEF TypeOK, WatchReturns
      <3>3. call'[c] = "ended"
        BY <3>1 DEF TypeOK, WatchReturns
      <3> QED BY <3>2, <3>3 DEF ToldAtEnd
    <2> QED BY <2>1, <2>2, <2>3, <2>4
  <1> QED BY <1>1, <1>3, <1>5, <1>6, <1>7

LEMMA WorkerDelivery ==
  ASSUME DeliveryInv, [Next]_vars,
         \E w \in Workers : (\E c \in Calls : Deliver(w, c)) \/ Stop(w) \/ Restart(w) \/ WorkerCrash(w)
  PROVE  DeliveryInv'
  <1> USE DEF DeliveryInv
  <1>1. TypeOK'
    BY StepType
  <1>2. results' = results /\ got' = got /\ call' = call /\ outcome' = outcome
    BY DEF Deliver, Stop, Restart, WorkerCrash, serverVars, brokerVars, jobVars
  <1>3. ResultsAreProduced' /\ ToldAtEnd'
    BY <1>2 DEF ResultsAreProduced, ToldAtEnd
  <1>4. UntouchedWhileIdle' /\ OutcomeAtEnd'
    <2>1. CASE \E w \in Workers, c \in Calls : Deliver(w, c)
      <3>1. PICK w \in Workers, c \in Calls : Deliver(w, c)
        BY <2>1
      <3>2. call[c] # "idle"
        BY <3>1 DEF Deliver, Deliverable, UntouchedWhileIdle
      <3>3. UntouchedWhileIdle'
        BY <1>2, <3>1, <3>2 DEF TypeOK, UntouchedWhileIdle, Deliver
      <3>4. <<c, deliveries[c] + 1>> \in Jobs /\ stage[<<c, deliveries[c] + 1>>] = "none"
        BY <3>1 DEF TypeOK, Deliver, Deliveries, Jobs
      <3>5. got[<<c, deliveries[c] + 1>>] = None
        BY <3>4 DEF OutcomeAtEnd
      <3>6. OutcomeAtEnd'
        BY <1>2, <3>1, <3>4, <3>5 DEF TypeOK, OutcomeAtEnd, Deliver
      <3> QED BY <3>3, <3>6
    <2>2. CASE \E w \in Workers : Stop(w) \/ Restart(w)
      BY <1>2, <2>2 DEF UntouchedWhileIdle, OutcomeAtEnd, Stop, Restart, brokerVars, jobVars
    <2>3. CASE \E w \in Workers : WorkerCrash(w)
      <3>1. UntouchedWhileIdle'
        BY <1>2, <2>3 DEF UntouchedWhileIdle, WorkerCrash, brokerVars
      <3>2. OutcomeAtEnd'
        BY <1>2, <2>3 DEF TypeOK, OutcomeAtEnd, WorkerCrash, InHand
      <3> QED BY <3>1, <3>2
    <2> QED BY <2>1, <2>2, <2>3
  <1> QED BY <1>1, <1>3, <1>4

\* What a worker stores is the outcome of its own job.
LEMMA StoreDelivery ==
  ASSUME DeliveryInv, NEW j \in Jobs, stage[j] = "finished", got' = got,
         Store(j[1], got[j]) \/ UNCHANGED results
  PROVE  ResultsAreProduced'
  <1> USE DEF DeliveryInv
  <1>1. j[1] \in Calls /\ j[2] \in Deliveries /\ j = <<j[1], j[2]>>
    BY JobParts
  <1>2. got[j] \in Outcomes
    BY DEF TypeOK
  <1>3. ASSUME NEW c \in Calls, NEW n \in 1..Len(results'[c])
        PROVE  \E d \in Deliveries : got[<<c, d>>] = results'[c][n]
    <2>1. CASE results'[c] = results[c]
      BY <1>3, <2>1 DEF ResultsAreProduced
    <2>2. CASE c = j[1] /\ results'[c] = Append(results[c], got[j])
      <3>1. results[c] \in Seq(Outcomes)
        BY DEF TypeOK
      <3>2. Len(results'[c]) = Len(results[c]) + 1
        BY <1>2, <2>2, <3>1
      <3>3. CASE n = Len(results[c]) + 1
        <4>1. results'[c][n] = got[j]
          BY <1>2, <2>2, <3>1, <3>3
        <4> QED BY <1>1, <2>2, <4>1
      <3>4. CASE n \in 1..Len(results[c])
        <4>1. results'[c][n] = results[c][n]
          BY <1>2, <2>2, <3>1, <3>4
        <4> QED BY <3>4, <4>1 DEF ResultsAreProduced
      <3>5. n \in 1..(Len(results[c]) + 1) /\ Len(results[c]) \in Nat
        <4>1. Len(results[c]) \in Nat
          BY <3>1
        <4> QED BY <1>3, <3>2, <4>1
      <3>6. n = Len(results[c]) + 1 \/ n \in 1..Len(results[c])
        BY <3>5
      <3> QED BY <3>3, <3>4, <3>6
    <2>3. results' = results \/ results' = [results EXCEPT ![j[1]] = Append(@, got[j])]
      BY DEF Store
    <2>4. results'[c] = results[c] \/ (c = j[1] /\ results'[c] = Append(results[c], got[j]))
      BY <1>1, <2>3 DEF TypeOK
    <2> QED BY <2>1, <2>2, <2>4
  <1> QED BY <1>3 DEF ResultsAreProduced

LEMMA JobDelivery ==
  ASSUME DeliveryInv, [Next]_vars, NEW j \in Jobs, Job(j) PROVE DeliveryInv'
  <1> USE DEF DeliveryInv
  <1>1. TypeOK'
    BY StepType
  <1>2. j[1] \in Calls /\ j[2] \in Deliveries /\ j = <<j[1], j[2]>>
    BY JobParts
  <1>3. stage[j] # "none"
    BY DEF Job, Begin, Execute, PublishResult, PublishFails, Ack
  <1>4. call[j[1]] # "idle"
    <2>1. j[2] <= deliveries[j[1]]
      BY <1>2, <1>3 DEF TypeOK
    <2>2. deliveries[j[1]] # 0
      BY <1>2, <2>1 DEF TypeOK, Deliveries
    <2> QED BY <1>2, <2>2 DEF UntouchedWhileIdle
  <1>5. call' = call /\ deliveries' = deliveries /\ outcome' = outcome
    BY DEF Job, Begin, Execute, PublishResult, PublishFails, Ack, serverVars, brokerVars
  <1>6. \A c \in Calls : c # j[1] => message'[c] = message[c]
    BY <1>2 DEF TypeOK, Job, Begin, Execute, PublishResult, PublishFails, Ack, brokerVars
  <1>7. UntouchedWhileIdle' /\ ToldAtEnd'
    BY <1>4, <1>5, <1>6 DEF UntouchedWhileIdle, ToldAtEnd
  <1>8. CASE Begin(j)
    <2>1. got' = got /\ results' = results
      BY <1>8 DEF Begin, brokerVars
    <2>2. got[j] = None /\ \A i \in Jobs : i # j => stage'[i] = stage[i]
      BY <1>8 DEF TypeOK, Begin, OutcomeAtEnd
    <2>3. OutcomeAtEnd'
      BY <2>1, <2>2 DEF OutcomeAtEnd
    <2> QED BY <1>1, <1>7, <2>1, <2>3 DEF ResultsAreProduced
  <1>9. CASE Execute(j)
    <2>1. PICK o \in Outcomes : got' = [got EXCEPT ![j] = o]
      BY <1>9 DEF Execute
    <2>2. got[j] = None /\ results' = results
      BY <1>9 DEF Execute, OutcomeAtEnd, brokerVars
    <2>3. OutcomeAtEnd'
      BY <1>9, <2>1 DEF TypeOK, Execute, OutcomeAtEnd
    <2>4. ASSUME NEW c \in Calls, NEW n \in 1..Len(results'[c])
          PROVE  \E d \in Deliveries : got'[<<c, d>>] = results'[c][n]
      <3>1. PICK d \in Deliveries : got[<<c, d>>] = results[c][n]
        BY <2>2, <2>4 DEF ResultsAreProduced
      <3>2. results[c][n] \in Outcomes
        BY <2>2, <2>4 DEF TypeOK
      <3>3. <<c, d>> # j /\ <<c, d>> \in Jobs
        BY <2>2, <3>1, <3>2, NoneIsNoOutcome DEF Jobs
      <3>4. got'[<<c, d>>] = got[<<c, d>>]
        BY <2>1, <3>3 DEF TypeOK
      <3> QED BY <2>2, <3>1, <3>4
    <2> QED BY <1>1, <1>7, <2>3, <2>4 DEF ResultsAreProduced
  <1>10. CASE PublishResult(j)
    <2>1. ResultsAreProduced'
      BY <1>10, StoreDelivery DEF PublishResult
    <2> QED BY <1>1, <1>7, <1>10, <2>1 DEF TypeOK, PublishResult, OutcomeAtEnd
  <1>11. CASE PublishFails(j)
    <2>1. ResultsAreProduced'
      BY <1>11, StoreDelivery DEF PublishFails
    <2> QED BY <1>1, <1>7, <1>11, <2>1 DEF TypeOK, PublishFails, Leaves, OutcomeAtEnd
  <1>12. CASE Ack(j)
    <2>1. ResultsAreProduced'
      BY <1>12 DEF Ack, ResultsAreProduced
    <2> QED BY <1>1, <1>7, <1>12, <2>1 DEF TypeOK, Ack, Leaves, OutcomeAtEnd
  <1> QED BY <1>8, <1>9, <1>10, <1>11, <1>12 DEF Job

LEMMA StepDelivery == DeliveryInv /\ [Next]_vars => DeliveryInv'
  <1> SUFFICES ASSUME DeliveryInv, [Next]_vars PROVE DeliveryInv'
    OBVIOUS
  <1>1. CASE UNCHANGED vars
    <2>1. TypeOK'
      BY StepType DEF DeliveryInv
    <2> QED BY <1>1, <2>1 DEF DeliveryInv, UntouchedWhileIdle, OutcomeAtEnd, ResultsAreProduced, ToldAtEnd,
                              vars, serverVars, brokerVars, jobVars
  <1>2. CASE Next
    BY <1>2, ServerDelivery, WorkerDelivery, JobDelivery DEF Next
  <1> QED BY <1>1, <1>2

\* The mapped variables in a form without CASE.
LEMMA PhaseIs ==
  ASSUME TypeOK, NEW c \in Calls
  PROVE  /\ Phase[c] = "idle" <=> call[c] = "idle"
         /\ Phase[c] = "open" <=> call[c] \in {"started", "watching"}
         /\ Phase[c] = "closed" <=> call[c] = "ended"
  BY DEF TypeOK, Phase

\* Steps of the broker and the workers that leave calls and outcomes alone.
LEMMA Unmoved ==
  ASSUME call' = call, outcome' = outcome, got' = got
  PROVE  UNCHANGED Delivery!deliveryVars
  BY DEF Delivery!deliveryVars, Phase, Produced

LEMMA ServerRefines ==
  ASSUME DeliveryInv, DeliveryInv', NEW c \in Calls,
         StartRun(c) \/ StartRunFails(c) \/ Watch(c) \/ WatchReturns(c) \/ GiveUp(c)
  PROVE  Delivery!DeliveryNext \/ UNCHANGED Delivery!deliveryVars
  <1> USE DEF DeliveryInv
  <1>1. got' = got
    BY DEF StartRun, StartRunFails, Watch, WatchReturns, GiveUp, jobVars
  <1>7. Produced' = Produced
    BY <1>1 DEF Produced
  <1>2. CASE StartRun(c)
    <2>1. Phase[c] = "idle" /\ Phase' = [Phase EXCEPT ![c] = "open"] /\ outcome' = outcome
      BY <1>2 DEF TypeOK, StartRun, MayStart, Phase
    <2>2. Delivery!Open(c)
      BY <1>7, <2>1 DEF Delivery!Open
    <2> QED BY <2>2 DEF Delivery!DeliveryNext
  <1>3. CASE StartRunFails(c)
    <2>1. Phase[c] = "idle" /\ Phase' = [Phase EXCEPT ![c] = "closed"] /\ outcome' = outcome
      BY <1>3 DEF TypeOK, StartRunFails, MayStart, Phase
    <2>2. Delivery!Refuse(c)
      BY <1>7, <2>1 DEF Delivery!Refuse
    <2> QED BY <2>2 DEF Delivery!DeliveryNext
  <1>4. CASE Watch(c)
    <2>1. Phase' = Phase /\ outcome' = outcome
      BY <1>4 DEF TypeOK, Watch, Phase
    <2> QED BY <1>7, <2>1 DEF Delivery!deliveryVars
  <1>5. CASE WatchReturns(c)
    <2>1. Phase[c] = "open" /\ Phase' = [Phase EXCEPT ![c] = "closed"]
      BY <1>5 DEF TypeOK, WatchReturns, Phase
    <2>2. Head(results[c]) = results[c][1] /\ 1 \in 1..Len(results[c]) /\ results[c][1] \in Outcomes
      BY <1>5 DEF TypeOK, WatchReturns
    <2>3. PICK d \in Deliveries : got[<<c, d>>] = results[c][1]
      BY <2>2 DEF ResultsAreProduced
    <2>5. Head(results[c]) \in Produced[c]
      BY <2>2, <2>3 DEF Produced
    <2>4. Delivery!Close(c, Head(results[c]))
      BY <1>7, <1>5, <2>1, <2>5 DEF Delivery!Close, WatchReturns
    <2> QED BY <2>2, <2>4 DEF Delivery!DeliveryNext
  <1>6. CASE GiveUp(c)
    <2>1. Phase[c] = "open" /\ Phase' = [Phase EXCEPT ![c] = "closed"]
      BY <1>6 DEF TypeOK, GiveUp, Phase
    <2>2. outcome' = [outcome EXCEPT ![c] = None]
      <3>1. outcome[c] = None
        BY <1>6 DEF GiveUp, ToldAtEnd
      <3> QED BY <1>6, <3>1 DEF GiveUp, TypeOK
    <2> QED BY <1>7, <2>1, <2>2 DEF Delivery!Close, Delivery!DeliveryNext
  <1> QED BY <1>2, <1>3, <1>4, <1>5, <1>6

LEMMA ExecuteRefines ==
  ASSUME DeliveryInv, DeliveryInv', NEW j \in Jobs, Execute(j)
  PROVE  Delivery!DeliveryNext
  <1> USE DEF DeliveryInv
  <1>1. j[1] \in Calls /\ j[2] \in Deliveries /\ j = <<j[1], j[2]>>
    BY JobParts
  <1>2. PICK o \in Outcomes : got' = [got EXCEPT ![j] = o]
    BY DEF Execute
  <1>3. got[j] = None
    BY DEF Execute, OutcomeAtEnd
  <1>4. call[j[1]] # "idle" /\ call' = call /\ outcome' = outcome
    <2>1. j[2] <= deliveries[j[1]]
      BY <1>1 DEF TypeOK, Execute
    <2>2. deliveries[j[1]] # 0
      BY <1>1, <2>1 DEF TypeOK, Deliveries
    <2> QED BY <1>1, <2>2 DEF UntouchedWhileIdle, Execute, serverVars
  <1>5. Phase' = Phase /\ Phase[j[1]] # "idle"
    BY <1>1, <1>4, PhaseIs DEF Phase
  <1>6. Produced' = [Produced EXCEPT ![j[1]] = @ \cup {o}]
    <2>1. ASSUME NEW c \in Calls
          PROVE  Produced'[c] = IF c = j[1] THEN Produced[c] \cup {o} ELSE Produced[c]
      <3>1. \A d \in Deliveries : got'[<<c, d>>] = IF <<c, d>> = j THEN o ELSE got[<<c, d>>]
        BY <1>2 DEF TypeOK, Jobs
      <3>2. CASE c = j[1]
        <4>1. /\ got'[<<c, j[2]>>] = o /\ got[<<c, j[2]>>] = None
              /\ \A d \in Deliveries : d # j[2] => got'[<<c, d>>] = got[<<c, d>>]
          BY <1>1, <1>3, <3>1, <3>2
        <4>2. \A q \in Outcomes : (\E d \in Deliveries : got'[<<c, d>>] = q)
                                <=> (q = o \/ \E d \in Deliveries : got[<<c, d>>] = q)
          BY <1>1, <4>1, NoneIsNoOutcome
        <4> QED BY <3>2, <4>2 DEF Produced
      <3>3. CASE c # j[1]
        BY <1>1, <3>1, <3>3 DEF Produced
      <3> QED BY <3>2, <3>3
    <2> QED BY <1>1, <2>1 DEF Produced
  <1>7. Delivery!Produce(j[1])
    BY <1>4, <1>5, <1>6 DEF Delivery!Produce
  <1> QED BY <1>1, <1>7 DEF Delivery!DeliveryNext

LEMMA StepRefines ==
  DeliveryInv /\ DeliveryInv' /\ [Next]_vars => [Delivery!DeliveryNext]_(Delivery!deliveryVars)
  <1> SUFFICES ASSUME DeliveryInv, DeliveryInv', [Next]_vars
               PROVE  Delivery!DeliveryNext \/ UNCHANGED Delivery!deliveryVars
    OBVIOUS
  <1>1. CASE UNCHANGED vars
    BY <1>1, Unmoved DEF vars, serverVars, jobVars
  <1>2. CASE ServerCrash
    <2>1. got' = got /\ Produced' = Produced /\ outcome' = outcome
      BY <1>2 DEF ServerCrash, jobVars, Produced
    <2>2. Phase' = [c \in Calls |-> IF Phase[c] = "open" THEN "closed" ELSE Phase[c]]
      BY <1>2 DEF DeliveryInv, TypeOK, ServerCrash, Phase
    <2> QED BY <2>1, <2>2 DEF Delivery!CloseAll, Delivery!DeliveryNext
  <1>3. CASE \E c \in Calls : StartRun(c) \/ StartRunFails(c) \/ Watch(c) \/ WatchReturns(c) \/ GiveUp(c)
    BY <1>3, ServerRefines
  <1>4. CASE \E c \in Calls : Expire(c)
    BY <1>4, Unmoved DEF Expire, serverVars, jobVars
  <1>5. CASE \E w \in Workers : (\E c \in Calls : Deliver(w, c)) \/ Stop(w) \/ Restart(w) \/ WorkerCrash(w)
    BY <1>5, Unmoved DEF Deliver, Stop, Restart, WorkerCrash, serverVars, jobVars
  <1>6. CASE \E j \in Jobs : Execute(j)
    BY <1>6, ExecuteRefines
  <1>7. CASE \E j \in Jobs : Begin(j) \/ PublishResult(j) \/ PublishFails(j) \/ Ack(j)
    BY <1>7, Unmoved DEF Begin, PublishResult, PublishFails, Ack, serverVars
  <1> QED BY <1>1, <1>2, <1>3, <1>4, <1>5, <1>6, <1>7 DEF Next, Job

LEMMA InitRefines == Init => Delivery!DeliveryInit
  <1> SUFFICES ASSUME Init PROVE Delivery!DeliveryInit
    OBVIOUS
  <1>1. Phase = [c \in Calls |-> "idle"] /\ outcome = [c \in Calls |-> None]
    BY DEF Init, Phase
  <1>2. Produced = [c \in Calls |-> {}]
    BY NoneIsNoOutcome DEF Init, Produced, Jobs
  <1> QED BY <1>1, <1>2 DEF Delivery!DeliveryInit

\* Every step of the server, the broker and the workers is a step of the promise
\* or leaves it alone: one outcome per call, produced for this very call.
THEOREM RemoteImplementsDelivery == Spec => ImplementsDelivery
  <1>1. Spec => []DeliveryInv
    BY InitDelivery, StepDelivery, PTL DEF Spec
  <1> QED BY <1>1, InitRefines, StepRefines, PTL DEF Spec, ImplementsDelivery, Delivery!DeliverySpec
=============================================================================
